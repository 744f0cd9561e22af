# rtmp-manager: formal models

TLA+ models of rtmp-manager, the TLC runs that check them and the theorems TLAPS proves about
them. `PROJECT.json` links every definition to the source lines it stands for (`map`), every run
to its properties, and every hazard of the code to the properties that watch it.

Contents: [the system](#1-the-system) · [modules](#2-modules-and-how-they-follow-the-code) ·
[runs](#3-runs) · [fairness](#4-fairness) · [proofs](#5-proofs) ·
[disagreements](#6-where-the-code-disagrees-with-itself) · [not
modelled](#7-what-is-not-modelled) · [plan](#8-plan)

## 1. The system

rtmp-manager is one Tokio process. It accepts a live stream over RTMP (or SRT, bridged into
RTMP), holds it for preview, and relays it to the enabled targets when the operator publishes
it. Beside the stream it collects chat from YouTube, Twitch, Kick and X in one persistent inbox,
runs scripts on messages, and shows a focus timer and polls. Everything durable is in one SQLite
file.

Two actors own the state that matters. The **stream actor** and the **chat actor** each read
commands from a bounded channel of 64 and handle one at a time; everything else reaches them
through cloneable handles. Results travel back on oneshot channels, state is published on
`watch` channels.

| Component | State | Operations | Talks to | What is hard |
| --- | --- | --- | --- | --- |
| RTMP ingest `server/handler.rs` | `sessions`: accepted sessions and their keys | `on_publish`, `on_unpublish`, `on_disconnect` | stream actor, by calls that time out (10 s to stage, 5 s to end) | a call that gives up leaves its command queued; keys rotate while sessions live |
| Stream actor `server/stream_actor.rs` | staged stream, preview process, `active_relays`, status | stage, publish, stop, end, health check every 2 s | relays, preview FFmpeg, config watch, notifications | handlers that suspend for seconds half done; a restart policy with a circuit breaker |
| Relay supervisor `server/relay.rs` | per relay: FFmpeg process, retry delay; shared: ten FFmpeg slots | start, drain, back off, reconnect, cancel; direct test | metrics, stream actor | cancellation seen only at some awaits; five-second joins; slots shared with tests and SRT |
| SRT ingest `server/srt.rs` | one bridge FFmpeg per connection | accept, pump, tear down | FFmpeg slots, RTMP ingest | the accept loop waits for a slot |
| Chat inbox `chat.rs` | tables `chat_messages`, `chat_seen`, `chat_state`; capacity, queue mode | enqueue, acknowledge, clear, resize, mode, vote claims, start-up | chat sources, dashboard, configuration | bounds, eviction and deduplication across crashes and configuration changes |
| Chat timers `chat.rs` | pomodoro, poll, their timers, their tables | start, stop, clear, expire, rehydrate | chat actor's own mailbox | a queued expiry of a replaced timer; memory and table changed in two steps |
| Chat automations `chat/automations/` | rules, script data, execution records, media | save, enable, delete, process, upload | inbox, poll, stream status, alerts | effects commit apart from the message they belong to; uploads that overlap |
| Configuration `config.rs`, `server/state.rs` | saved and current configuration, export cache, Kick subscription | form, import, export, flags, targets | both actors, Kick | saved first, applied later; a cache outside the lock; secrets no page shows; a remote subscription beside a flag |
| Chat sources `chat/youtube.rs` … | polling token, connections | poll, reconnect, webhooks | chat actor | a token ahead of what was delivered; a task the actor aborts and waits for |
| Metrics, audit, log buffers | counters, ring buffers | record, register, snapshot | everybody | entries that go by name or id |
| Web, notifications, start-up | – | routes, rendering, HTTP | all handles | – |

What makes each of the modelled components correct:

* **Chat inbox.** No message is lost uncounted; the message on air changes only by the operator;
  bounds hold at every capacity change and restart; the process can always start again; what was
  just claimed is recognised when it comes again.
* **Stream actor.** Relays exist only for a published stream or one that is just being ended;
  the status channel tells the truth whenever the actor is free; an open circuit breaker stays
  open.
* **RTMP ingest on the actor.** An accepted publisher owns the stage until it leaves; what is
  staged has somebody who will end it; output ends after the publisher left.
* **Relays, tests and SRT.** A finished stop leaves nothing behind but what it knowingly let go;
  a target is fed once; a cancelled supervisor starts FFmpeg at most once more and stops; nobody
  waits for a slot for ever.
* **Focus and polls.** What is shown is what a restart restores; the tally is what the votes add
  up to; a poll goes from active to stopped to gone, never back; no expiry meets the wrong
  session.
* **Automations.** A rule runs once on a message, its data and its records agree, nothing of an
  uncommitted script is seen, scripts end with the stream.
* **Configuration.** Updates do not undo each other and are all or nothing; no secret is lost or
  changes its target; what the export, the actor and Kick have is what is saved, with named
  exceptions.
* **YouTube.** The token never passes a message that was not handed to the actor; old updates do
  not outlive their task; the actor and its task never wait for each other.

## 2. Modules and how they follow the code

| Module | Models | Read with |
| --- | --- | --- |
| `DisplayQueue` | the abstract promise of the inbox: a queue of ids, an on-air head only the operator moves, counted losses | – |
| `ChatInbox` | `ChatInbox` and the commands of the chat actor that reach it, process start and crash | `chat.rs` 254–762, 1035–1091, 1223–1260 |
| `StreamActor` | the actor loop, its mailbox, the preview process | `stream_actor.rs`, `preview.rs` |
| `RtmpIngest` (extends `StreamActor`) | sessions, timeouts, operator, key rotation | `handler.rs`, `StreamHandle` |
| `RelaySupervisor` | `supervise_relay`, `wait_for_retry`, `cancel_relays`, the direct test, the SRT listener and bridges, the slots, bitrates by name | `relay.rs`, `srt.rs`, `metrics.rs` 80–92 |
| `ChatTimers` | focus mode and poll: rows, memory, timers, votes, expiries, crash and restore | `chat.rs` 201–251, 399–579, 857–1221, 1419–1490 |
| `Automations` | rules, scripts of a message, data, records, alerts, media library | `chat/automations/`, `chat.rs` 1035–1091 |
| `YouTubeIngest` | the polling task, and the actor that configures it | `chat/youtube.rs`, `chat.rs` 937–957, 1262–1325 |
| `ConfigStore` | the configuration, its updates, export and import, the way to the chat actor, the Kick subscription | `config.rs`, `server/state.rs`, `web/mod.rs` 324–436, `chat/kick.rs` 170–366 |
| `MC…` | the sets TLC uses, symmetry, the names of targets | – |
| `…Proofs` | theorems about the module of that name, and their proofs | – |

**ChatInbox.** A table is a set of rows `[id, msg]`; `AtOffset(table, k)` is `ORDER BY id LIMIT
1 OFFSET k`. A handler commits one transaction and the actor handles one command at a time, so a
handler is one action: `EnqueueAppend`, `EnqueueEvict` and `EnqueueDrop` are the three ways
through `enqueue`, each with its claim and its trim. `Acknowledge(expected)` tries every id, so
an acknowledgement of something no longer on air is a stutter. A configuration is saved by one
action (`SaveSettings`) and reaches the actor by another (`ApplyConfig`, or `ApplyConfigFails`
when the first trim fails), in any order. `Crash` is possible in every state of the process;
`Open` and `StartUp` are the two halves of start-up, with queue mode on in between as in
`from_database`. In a state from which `Open` is impossible the real start-up fails with an
error. A message is its platform identity; payloads, parsing, overlay and metrics are left out.
Mid-transaction crashes roll back and are the same as a crash before.

**StreamActor.** `mailbox` is the channel, `replies` the oneshot of `stage_stream`, `staged` the
`StagedStream`. A handler is one action except `StopPublishing` and `EndStream`, which suspend:
`StopBegin` and `StopFinish` are what comes before and after `cancel_relays`. `EndBegin` takes
the staged stream and waits for its preview to die (five seconds at most), `ending` being the
stream that is out of `staged` while its relays are still in the map; `EndRelays` then takes
those out and suspends in `cancel_relays`, and `EndFinish` is the rest. While `busy` is not
`"idle"` callers and processes move on and no command is handled. `HealthCheck` is the interval
branch of the loop with its four ways out. A caller that gives up (`GiveUp`) leaves its command
in the mailbox with nobody to answer. `fruitless` is a history counter and guards nothing. The
relays of a key are a set of targets here; what they do is `RelaySupervisor`. `Next` lets
callers send any command at any time, which is more than the program does, so what holds here
holds under every caller.

**RtmpIngest.** One program counter per session for the callbacks `rtmp_rs` runs one after the
other. `OnPublish` compares the key with the configuration of that moment; `StageTimeout` and
`EndTimeout` are the two timeouts of `StreamHandle`. Time is not modelled: a timeout may fire
whenever its call is still waiting (`EndTimeout` only on a full mailbox), which
over-approximates the code, in which it needs an actor held up by `cancel_relays` or a full
channel.

**RelaySupervisor.** A task runs without interruption between two awaits and `pc` names the
await (`test` for a direct test, `bridge` for an SRT session). The `watch` channel is the triple
`cancel`, `unseen`, `closed`; `Changed` is the readiness of `changed()`. `WaitForRetry` is where
the code marks a pending cancellation as seen. `RelayHolds`, `TestHolds` and `BridgeHolds` say
at which awaits a permit is held, the backoff after a failed spawn included. `listener` is the
accepted client for which the SRT listener awaits a slot, and while it does no other is taken up
(`TakeUp`). A target is an entry of the configured list and `NameOf` its name, which another
entry may have as well: nothing makes names unique. `metrics` is keyed by the name, as
`register_target` and `unregister_target` are, so a test and a relay of one target meet there,
and so do two relays of targets with one name. `spoiled` holds the names somebody else has
unregistered, or still may. Retry delays are left out since nothing depends on them without a
clock. All tasks are alike, so `Publish` takes an arbitrary choice of idle ones.

**ChatTimers.** The wall clock appears as what is left of each duration; `Tick` lowers all of
them and 0 is expired. A timer is a member of `timers` with the `session` it was armed for;
`TimerFires` puts its command into the actor's mailbox, any time after it is due, and the
command does not name the session (the field is there for the properties only), as in the code.
A handler is one action whose every SQLite statement may fail (`Fails`), in the order of the
code: `StartPomodoro` writes before it shows, `StopPoll` shows before it writes, `ClearPoll`
deletes votes, row and memory one after the other. A crash between two statements leaves the
tables as a failure of the second one and a crash after it. `Start` is the restore of
`spawn_with_inbox`, `Rearm` its timers; `Restorable` lets the last of a duration pass between
the load of a row and the second look at the clock, which leaves the row with nothing shown.
`torn` records that a crash or a failed clear separated tally and votes. The rows are written
and read by operators with the names of the functions of `ChatInbox` (`SavePersistedPoll`,
`LoadPersistedPomodoro`, …). A requested duration of 0 stands for one that `validate_pomodoro`
or `validate_poll` refuses, and a ballot that names no option goes into the inbox although a
poll is active.

**Automations.** `handle_enqueue` is cut at its awaits: `Deliver` (duplicate check, reading the
stream status), `Process` (the scripts of all matching rules in one transaction), `Publish`
(alerts, consumption), `IntoInbox`. In between the stream may end, files may come and go, and
the process may restart; rules change through the same mailbox and therefore only between
messages. What a script computes is `Evaluation`: it throws, or returns text, nothing or
something else, with or without writing viewer data and with an alert or none; what `evaluate`,
`validate` and `validate_media` make of that is `Evaluated` and `MediaThere`. `TrimSeen` forgets
any claim at any time, which is more than `ChatInbox` allows. `cutOff` is the history of the
messages that a failed insert or a crash stopped between the two transactions; no action reads
it. `upload` holds what an uploader found when it listed the library.

**YouTubeIngest.** A live chat is a sequence of items, a continuation token the position up to
which it was read. `Parsed`, `HasParts` and `Skipped` are what the parser keeps. The token
advances in `FetchPage`, the messages follow one call at a time (`EnqueueMessage`, `Answered`).
A status update is a `try_send`, lost on a full mailbox, and names no task. `Configure` aborts
the task and suspends the actor; `Configured` goes on once `TaskStops`. Other callers fill the
mailbox at will (`OtherCommand`). The inbox may take a message again that it has forgotten, and
a message that failed may be `Known` afterwards or not.

**ConfigStore.** A request is a record of what it does next (`request[r].stage`). Updates run
`Lock` (build, validate and compare under `update_lock`), `Save`, `EmptyCache`, `PublishConfig`,
and then what `AfterUpdate` says: send this very configuration to the actor (toggles), or read
it again and send that (`Reread`: forms, imports). `MergeForm`, `SetTargetEnabled`,
`RestoreSecrets` and `Redacted` are the functions of that name, over a configuration with one
field for each rule there is (a defaulted field, an optional one, a secret that can be cleared,
one that cannot). A secret key of a target is named after the target it was entered for, so that
a key at the wrong target shows; one that was written into an imported file is `FileKey`, and
`RestoreKeys` leaves it alone. Exports are `RenderExport` and `CacheExport`, two steps without a
lock. `ToggleKick` and the three calls to Kick (`AtKick`) come before the update of the flag;
`KickFails` may have done what was asked or not. The task that `AppHandle::new` spawns to
restore the subscription is the caller `Boot`.

## 3. Runs

| Run | Shows | Instance and why it is enough |
| --- | --- | --- |
| `chat_inbox` | all safety of the inbox and that it implements `DisplayQueue` | four messages, five claims; capacities 1 and 3, so that the capacity-1 branch, eviction on arrival, growing, shrinking and (with queue mode off) the eviction of several rows at once occur; with a window of one or three claims the seen table overflows and rolls over |
| `inbox_restart` | *violation*: a saved capacity of 1 over a longer inbox prevents start-up | as above |
| `inbox_dedup` | *violation*: `trim_seen` forgets messages still queued | capacity 1, retention factor 4 as in the code, five messages |
| `preview_breaker` | *violation*: fruitless restarts are not bounded | the actor alone, `MaxFruitless` just above the limit |
| `rtmp_ingest` | the actor's invariants, ownership of the stage, complete teardown, end of output; the mailbox never stuck (deadlock is checked) | two sessions, two keys, so that a late command of one meets the stream of the other under the same or another key; mailbox 1 makes it full all the time |
| `abandoned_stream` | *violation*: a late stage command is never ended | one session is enough |
| `relays` | what a stop leaves behind, one feed per target, bitrates by name, bounded late starts, an end for everybody who waits | two tasks on two targets of one name or on one target (old and new supervisor), a direct test of one target, one SRT client, and one slot, the hardest contention there is; the safety properties are proved for any number of each and any naming |
| `relay_detached` | *violation*: a detached supervisor starts FFmpeg | one task, one slot |
| `chat_timers` | focus mode and polls, among failures, a crash and late expiries | two voters, two options, a changed and a repeated vote, a ballot for no option; durations 1, 2 and refused, so that one timer overtakes another; mailbox 2, so that a due timer waits; four commands: start, stop, and a second session while an expiry is queued |
| `automations` | scripts, data, records and alerts; the library | two messages, one by an author without an account; two rules; three deliveries, so that one comes again; four changes (make a rule, go live, forget, delete); two uploads at a limit of one |
| `youtube` | delivery by page, status, no mutual waiting | a message, an empty one and a second item with the first one's id; pages of two, mailbox 2 shared with others, two settings sent; one error, or one message forgotten |
| `config_store` | updates, secrets, export, actor, Kick | two requests at a time out of three; two targets, a third would exceed the limit; seven forms that change, clear, are refused or cannot be read; one fault of any kind or a restart |

Bounds that are not in the code: `MaxClaims`, `MaxDeliveries`, `MaxEdits`, `MaxCommands`,
`MaxRequests`, `MaxSettings` (steps of the environment in one behaviour), `MaxFailures`,
`MaxFaults`, `MaxCrashes` (faults), `MaxFruitless` (a history counter), `PageSize`, `Relay` and
`Tested` (tasks at one time), and the sizes of the constant sets. `MailboxCapacity`,
`MailboxSize`, `RestartLimit`, `Slots`, `SeenFactor`, `MediaLimit`, `RuleLimit` and `MaxTargets`
are parameters of the code, smaller here so that the limits are reached. `CHECK_DEADLOCK FALSE`
appears where the steps of a behaviour are used up (`ChatInbox`, `Automations`, `ConfigStore`),
or where a start-up fails for good (`ChatInbox`). Symmetry is used in runs without liveness, for
sets whose members the module treats alike.

Every property of a passing run has a mutant in the module it speaks about (the definitions
commented `Mutant:`); with the mutant in place TLC reports the property violated.

## 4. Fairness

* `RtmpIngest!Fairness`: the runtime keeps polling the actor (weak fairness of `HandleCommand`;
  `cancel_relays` is bounded by five seconds for each relay, so Begin is followed by Finish) and
  a session takes the answer it was given. A sender blocked on the full channel is queued in
  order by Tokio, although others may fill it again: strong fairness of `SendStage` and
  `SendEnd`. Nothing forces a publisher to leave, an operator to act or a process to exit.
* `RelaySupervisor!Fairness`: every task is polled, timers fire, a killed process dies; the
  semaphore is first come first served, hence strong fairness of a task's progress
  (`TaskProgress`, `TestStep`, `Listen`): at each await there is one way on, or several that
  exclude each other. The FFmpeg of a relay never has to exit, and an SRT client never has to
  leave: `NobodyWaitsForEver` has the explicit exception that such relays and clients keep all
  slots for ever.
* `ChatTimers!Fairness`: the actor receives, time passes, a due timer gets the next place in the
  mailbox (senders queue in order), and systemd restarts the process. Nobody has to send
  anything.
* `YouTubeIngest!Fairness`: actor and task are scheduled; every request ends, since the HTTP
  client has a timeout of ten seconds (`main.rs` 115–121); a sender waiting for room is served
  in turn although others send as well: strong fairness of `EnqueueMessage`.

`Automations` and `ConfigStore` state safety only; nothing in them waits but for the lock, which
is released by every way out of an update.

## 5. Proofs

All theorems are checked by TLAPS for every value of the constants under the named assumptions
of the modules (capacities and limits are positive, sets that are counted are finite, `None` is
no task, and the like).

* **`ChatInboxProofs`** begins with cardinality and offset facts about tables: `AtOffset` is
  unique and exists below the cardinality, `TrimSeen` keeps the newest row and at most the
  window, `EvictOldestWaiting` removes exactly the excess and never the first row. They rest on
  well-founded minima of sets of naturals. `TypeCorrect` is inductive as it stands.
  `AlwaysAccounted` needs the exact number of evicted rows. `AlwaysBounded` needs the
  strengthening `OpenedInQueueMode`: between `Open` and `StartUp` queue mode is on, otherwise
  `StartUp` would switch it on over an untrimmed table. `RestartAlwaysPossibleAbove1` follows
  without induction: above capacity 1 a boundary row always exists.
  `LatestClaimAlwaysRemembered` is inductive since every trim keeps the newest row.
  `SeenAlwaysBounded` and the action property `OnAirIsTheOperators` follow from the lemmas. In
  `InboxImplementsDisplayQueue` the mapping takes the ids of the rows for the queue,
  `nextMessageId - 1` for the ids issued and `dropped` for the losses; each action is shown to
  be an abstract step or a stutter.
* **`StreamActorProofs`**: `ActorTypeCorrect`; `RelaysAlwaysFollowPublication`, with the stream
  being ended as its exception, which needs that `ending` is set only inside of
  `end_current_stream` (`EndingBusy`); inductive together (`RelaysInv`); `StatusAlwaysCurrent`;
  `BreakerStaysOpen`, with the strengthening `GivenUp`: a stream at the restart limit is dead
  and marked as failed.
* **`RtmpIngestProofs`**: `IngestTypeCorrect`; `IngestImplementsActor`: every step of the
  sessions is one the actor allows its callers, so the actor's theorems hold in the composed
  system; `PublisherAlwaysOwnsStage` and `TeardownComplete`. Neither invariant is inductive: a
  late command in the mailbox could answer or end the wrong session. The strengthening
  `Ownership` says whom the commands under way belong to: a session that was told "ok" has a
  *claim* until it sends its `EndStream`; only the owner of the staged stream has one
  (`ClaimsOwn`); an `EndStream` in the mailbox is the only one, is for the staged stream, and
  its owner has no claim any more (`EndIsOwners`); an awaited stage command is the only one of
  its session (`AwaitedIsOnly`); answers are awaited (`RepliesAwaited`); the session map is the
  set of publishing sessions (`MapExact`); and unless a call gave up no stage command is
  orphaned (`NothingAbandoned`). There is one lemma per kind of step.
* **`RelaySupervisorProofs`**: `SupervisorsTypeCorrect` contains that no more than `Slots`
  processes hold a slot, which takes counting lemmas for the three kinds of holders.
  `SupervisorsAlwaysAccounted`: a stop is complete because every task that still runs is active,
  queued for `cancel_relays` or let go (`EveryTaskAccounted`). `RunningAlwaysRegistered` needs
  to know that a supervisor is registered from its first look at the flag on, by itself or by
  another of its name (`Registered`), and that whoever may remove an entry spoils its name
  before, or with that step (`DetachedSpoils`, `TestSpoils`, and `Stops` for a relay that shares
  it). Nothing is assumed of `NameOf` but that it is a function. `AtMostOneLateStart` is
  `NoWayBack`: after a late start a supervisor is cancelled and never again on a path to the
  slot.
* **`AutomationsProofs`**: all six properties of the run. A rule runs once since the message
  about to be processed has no record (`CheckedIsNew`), and a new rule starts without data since
  ids are never used twice (`IdsAreFresh`); between commit and inbox the recorded successes
  carry what is left to do (`CommitIsRecorded`), so that a message its scripts keep from the
  inbox has a success among them, or was cut off; `LastOfTheStream` says that once a message ran
  scripts offline the next one is not even being handled; the limit of the library rests on
  counting files and uploads under way together (`RoomForListed`).
* **`ChatTimersProofs`**: all five safety properties of the run. `OwnExpiriesAreLate` and
  `PollsOnlyMoveForward` need that sessions are numbered (`FocusNumbered`, `PollsNumbered`), so
  that what is left of an earlier session in the mailbox, in a timer or in `final` is never
  taken for the next one, and `DownIsEmpty`: nothing but the rows survives a crash.
  `FocusIsDurable` then is inductive. `TalliesMatchVotes` has to say as well what a restart will
  find (`RowMatchesVotes`), and counts voters, so it needs `FinitelyManyVotes`: this is proved,
  nothing is assumed of the set of voters.
* **`ConfigStoreProofs`**: `UpdatesAreAllOrNothing`, `ExportsStaleOnlyByOverlap`,
  `UpdatesAreSerialised`. The invariant says who holds the lock (`LockHeld`), how far its update
  has got and what it makes of the configuration in force (`UnderTheLock`), which requests carry
  the update the actor still misses (`ActorInformed`), and that configurations have their fields
  (`AllShaped`); the proofs do not depend on what fields hold. The others do.
  `ConfigTypeCorrect` is inductive together with `Valid(saved)` and `LocalComplete` (`TInv`): an
  imported file becomes a configuration only once its keys are restored, whether it brings keys
  of its own or not. The lemma `UpdatesTyped` says what an operation makes of a configuration:
  one again, with every secret the form does not clear and each key with the target of its name.
  `SecretsAreKept` follows from it. `KickFlagIsTrue` rests on `KInv`: while nothing has upset
  it, one toggle runs at a time (`OneToggle`), knows the subscriptions there are (`Told`), and
  an update between its save and its end has left alone what decides on the delivery
  (`SavedAsRead`).
* **`YouTubeIngestProofs`**: `SourceTypeCorrect` needs more than the types, since nothing in
  `task` by itself bounds what it has counted of a page: `PageInv` says that what was accepted
  and what is left together fit a page, and `OneQuestion` that the mailbox holds one message of
  the task at most, the one it waits for, so that an answer finds the task where it asked;
  `Numbered` keeps the commands of former tasks apart. `NothingIsSkipped` follows from these,
  step by step. For `StatusIsTruthful` the updates in the mailbox must be in the order of their
  tasks (`InOrder`), and what they add up to must be covered by what was accepted. The sum over
  a mailbox would take an induction over its length; instead `Ledger` says that there is an
  *account* `g`, in which `g[i]` bounds the counter once `i` commands were received and every
  command adds its worth between any two entries: a sender extends the account, the actor shifts
  it, and no induction is needed.

Only model-checked: liveness (`OutputEndsAfterPublisher`, `NobodyWaitsForEver`,
`ResultsEventuallyCleared`, `PollingGoesOn`), which is out of the prover's reach. Every safety
property of a passing run is a theorem. The findings are violations on one instance each, which
is all they need.

## 6. Where the code disagrees with itself

Each is a `finding` with a run whose counterexample shows it.

1. *Capacity 1 can prevent start-up* (`chat.rs:692`). The boundary of the eviction is a row that
   does not exist when nothing but the on-air row is kept.
2. *The deduplication window collapses* (`chat.rs:744`). One row too many deletes all rows but
   the newest instead of the oldest one.
3. *The circuit breaker does not see crashes* (`stream_actor.rs:156`). It counts failed spawns
   only.
4. *An abandoned stage blocks ingest* (`stream_actor.rs:505`). A timed-out stage command still
   stages, and no session owns the result.
5. *A detached relay is not aborted* (`relay.rs:43`). It may start FFmpeg once more, once at
   most (`OneLateStart`), when it gets its slot.

What else the models show of the code, where the properties state exceptions or no property is
claimed:

* Start-up trims an inbox kept with queue mode off (`chat.rs:282`); a failed spawn keeps its
  FFmpeg slot during the backoff (`relay.rs:418`).
* An `ExpirePomodoro` that comes in time clears nothing, since the session it finds has expired
  (`chat.rs:973`); one from a replaced session, queued before the new one was started, would cut
  the new one short. `OwnExpiryIsLate` covers the timers and commands of the session itself.
* A crash between the transaction of a vote and the save of the tally leaves the restored tally
  behind (`chat.rs:1080`); an author who votes again may then be counted twice, or take away the
  vote of another.
* A crash or a failed insert between the commit of the scripts and the inbox hides the message,
  even if every script on it failed: its execution records are there and its redelivery is a
  `Duplicate` (`chat.rs:1041`). `src/src/chat/automations/README.md:49` says "Failed scripts do
  not hide messages from the inbox". `FailuresHideNothing` states this with the exception
  (`cutOff`).
* Two uploads at once both pass the check of the library's size, so that the "100 files total"
  of `src/src/chat/automations/README.md:64` are exceeded by all uploads under way but one;
  `LibraryOvershoot` states the bound there is.
* Two enabled targets may have one name (`config.rs:587` checks none, and a new target is always
  "New Target"). They share one bitrate on the dashboard, and the first relay to end takes it
  away from the other (`relay.rs:528`); `RunningIsRegistered` has this as an exception.
* While `end_current_stream` waits for the preview to die nothing is staged, and the relays of
  the stream still run (`stream_actor.rs:330`); `RelaysFollowPublication` has this as an
  exception.
* A focus session or poll that runs out between the two looks at the clock of start-up leaves
  its row, without timer, until the next session, poll or start (`chat.rs:1444`,
  `chat.rs:1457`).
* Two updates of the chat settings that overlap may reach the actor in the other order, and it
  keeps the older one until the next update (`server/state.rs:77`).
* A settings form always decides adaptive polling of YouTube, also when it was submitted by a
  page that has no such field (`config.rs:399`).
* A page that shows the targets of before a removal gives a target without a new key the key of
  the one that has its position now (`config.rs:463`), if another was added meanwhile.
* Changing the Kick channel or credentials while the webhook is on keeps the old subscription
  and makes none for the new channel until the next start (`web/mod.rs:356`). A toggle whose
  flag is then refused by validation leaves the subscription changed (`server/state.rs:112`).
* A password of the web interface can be changed but never removed by form or import.
* Every update, and every start, looks up the hosts of all URLs with blocking DNS under
  `update_lock` (`config.rs:637`): without DNS nothing can be saved.
* A live chat id that is a raw continuation token resolves to the same token for ever, also
  after the session has expired (`chat/youtube.rs:209`).

## 7. What is not modelled

* Rendering, styling and the routes that only render (`web/`); authentication of requests (a
  comparison, no state).
* The IRC client of Twitch and the webhooks of X and Kick, beyond the Kick subscription: they
  keep no state of their own and call `enqueue` with anything in any order, which is what
  `ChatInbox` assumes of its callers.
* Notifications (one bounded request each), the webhook audit and the log buffer (ring buffers
  behind one mutex), the samples of the system metrics: their state is for display only.
* What scripts compute, how messages, votes and FFmpeg's output are parsed beyond what the
  properties tell apart, FFmpeg's arguments, lengths of backoffs and intervals.
* Migrations of the database and of legacy configuration files, deployment, browser scripts: no
  part of the running system.
* The chat actor is one process, modelled in four modules that share its mailbox but not its
  other state. They meet in the inbox, which is a set of known messages in `ChatTimers` and
  `Automations` and something that answers in `YouTubeIngest`. `Automations` and `YouTubeIngest`
  let it forget (any claim at any time, more than `ChatInbox` does).

## 8. Plan

1. The composition of `Automations` with `ChatInbox`: the claims that `TrimSeen` may really
   forget, in place of any claim at any time.
2. An abstract specification of the configuration (one value, one operation at a time, every
   reader shown a value it once had) that `ConfigStore` implements.
