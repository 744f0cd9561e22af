---------------------------- MODULE StreamActor ----------------------------
(***************************************************************************)
(* The actor that owns the live stream (src/src/server/stream_actor.rs):   *)
(* the staged stream with its HLS preview process, the relays of the       *)
(* published stream and the status the rest of the program watches.        *)
(*                                                                         *)
(* Commands wait in a bounded mailbox and are handled one at a time.  A    *)
(* handler is one action, except StopPublishing and EndStream: they hold   *)
(* the actor for seconds, with part of their effect done and the status    *)
(* not updated yet, and are split where they await.  Both wait for the     *)
(* relays to wind down; EndStream first waits for the preview it killed,   *)
(* with the stream gone and its relays still running.  The waits end: a    *)
(* process that was killed exits, and cancel_relays waits five seconds for *)
(* each relay.                                                             *)
(* Commands refused without a state change are one action, Refuse.         *)
(***************************************************************************)
EXTENDS Integers, Sequences, FiniteSets

CONSTANTS
  Session,          \* RTMP sessions, the callers of stage_stream
  Key,              \* stream keys
  Target,           \* configured relay targets
  NoStream,         \* nothing is staged
  MailboxCapacity,  \* capacity of the command channel (64 in the code)
  RestartLimit,     \* restarts that may fail in a row (5 in the code)
  MaxFruitless      \* bound of the history counter `fruitless`

ASSUME NoStreamAssumption == NoStream \notin [key : Key, owner : Session, alive : BOOLEAN,
                               failed : BOOLEAN, published : BOOLEAN, failures : Nat]
ASSUME BoundsAssumption ==
  MailboxCapacity \in Nat \ {0} /\ RestartLimit \in Nat \ {0} /\ MaxFruitless \in Nat

VARIABLES
  mailbox,        \* queued commands, oldest first
  replies,        \* per session: the answer of stage_stream not yet taken
  staged,         \* StagedStream or NoStream
  active_relays,  \* per key: targets with a running relay
  cancelling,     \* relays the handler in progress waits for
  busy,           \* "idle", or the handler the actor is suspended in
  ending,         \* the stream end_current_stream took and whose preview it waits for
  playlist,       \* index.m3u8 exists in the preview directory
  preview_playlist_ready,
  status,         \* value of the status watch channel
  fruitless       \* history: respawns since a playlist was last seen

actorVars == <<staged, active_relays, cancelling, busy, ending, playlist,
               preview_playlist_ready, status, fruitless>>
vars == <<mailbox, replies, actorVars>>

Command ==
  [type : {"stage"}, key : Key, session : Session, open : BOOLEAN]
    \cup [type : {"publish", "stop"}]
    \cup [type : {"end"}, key : Key]

Staged == [key : Key, owner : Session, alive : BOOLEAN, failed : BOOLEAN,
           published : BOOLEAN, failures : Nat]

State == {"offline", "preparing", "preview_ready", "preview_failed", "live"}

----------------------------------------------------------------------------
(* The mailbox and the status *)

\* Mutant: one command more than the channel holds.
CanSendOneMore == Len(mailbox) <= MailboxCapacity

CanSend == Len(mailbox) < MailboxCapacity

Send(command) == CanSend /\ mailbox' = Append(mailbox, command)

\* The actor is free and the next command is of this type.
Receive(type) ==
  /\ busy = "idle"
  /\ mailbox # <<>>
  /\ Head(mailbox).type = type
  /\ mailbox' = Tail(mailbox)

\* The answer to a stage command; it goes nowhere if the caller gave up.
Reply(command, result) ==
  replies' = IF command.open
             THEN [replies EXCEPT ![command.session] = result]
             ELSE replies

\* compute_status
ComputeStatus(stream, ready) ==
  IF stream = NoStream THEN "offline"
  ELSE IF stream.failed THEN "preview_failed"
  ELSE IF ~ready THEN "preparing"
  ELSE IF stream.published THEN "live" ELSE "preview_ready"

UpdateStatus == status' = ComputeStatus(staged', preview_playlist_ready')

\* The caller takes the answer of its stage_stream.
TakeReply(s) ==
  /\ replies[s] # "none"
  /\ replies' = [replies EXCEPT ![s] = "none"]
  /\ UNCHANGED <<mailbox, actorVars>>

\* The caller of stage_stream stops waiting; its command stays in the mailbox.
GiveUp(s) ==
  /\ replies[s] = "none"
  /\ mailbox' = [i \in DOMAIN mailbox |->
                   IF mailbox[i].type = "stage" /\ mailbox[i].session = s
                   THEN [mailbox[i] EXCEPT !.open = FALSE]
                   ELSE mailbox[i]]
  /\ UNCHANGED <<replies, actorVars>>

----------------------------------------------------------------------------
(* handle_stage_stream *)

\* Mutant: a new publisher replaces the one before it.
StageReplacing ==
  /\ Receive("stage")
  /\ staged' = [key |-> Head(mailbox).key, owner |-> Head(mailbox).session,
                alive |-> TRUE, failed |-> FALSE, published |-> FALSE, failures |-> 0]
  /\ preview_playlist_ready' = playlist
  /\ UpdateStatus
  /\ Reply(Head(mailbox), "ok")
  /\ fruitless' = 0
  /\ UNCHANGED <<active_relays, cancelling, busy, ending, playlist>>

Stage ==
  /\ Receive("stage")
  /\ staged = NoStream
  /\ staged' = [key |-> Head(mailbox).key, owner |-> Head(mailbox).session,
                alive |-> TRUE, failed |-> FALSE, published |-> FALSE, failures |-> 0]
  /\ preview_playlist_ready' = playlist
  /\ UpdateStatus
  /\ Reply(Head(mailbox), "ok")
  /\ fruitless' = 0
  /\ UNCHANGED <<active_relays, cancelling, busy, ending, playlist>>

\* A stream is staged already, or the preview cannot be started.
StageFails ==
  /\ Receive("stage")
  /\ Reply(Head(mailbox), "err")
  /\ UNCHANGED actorVars

----------------------------------------------------------------------------
(* handle_publish_staged, handle_stop_publishing *)

Publish(targets) ==
  /\ Receive("publish")
  /\ staged # NoStream /\ ~staged.published
  /\ staged' = [staged EXCEPT !.published = TRUE]
  /\ active_relays' = [active_relays EXCEPT ![staged.key] = targets]
  /\ UNCHANGED preview_playlist_ready
  /\ UpdateStatus
  /\ UNCHANGED <<replies, cancelling, busy, ending, playlist, fruitless>>

\* Nothing is staged, or it is published already: the caller gets an error.
Refuse ==
  /\ \/ Receive("publish") /\ (staged # NoStream => staged.published)
     \/ Receive("stop") /\ staged = NoStream
  /\ UNCHANGED <<replies, actorVars>>

\* The relays of a key are taken out of the map and handed to cancel_relays.
TakeRelays(key) ==
  /\ active_relays' = [active_relays EXCEPT ![key] = {}]
  /\ cancelling' = active_relays[key]

\* Mutant: the relays stay in the map when publishing stops.
StopBeginKeepingRelays ==
  /\ Receive("stop")
  /\ staged # NoStream
  /\ staged' = [staged EXCEPT !.published = FALSE]
  /\ busy' = "stopping"
  /\ UNCHANGED <<replies, ending, active_relays, cancelling, playlist,
                 preview_playlist_ready, status, fruitless>>

StopBegin ==
  /\ Receive("stop")
  /\ staged # NoStream
  /\ staged' = [staged EXCEPT !.published = FALSE]
  /\ TakeRelays(staged.key)
  /\ busy' = "stopping"
  /\ UNCHANGED <<replies, ending, playlist, preview_playlist_ready, status, fruitless>>

StopFinish ==
  /\ busy = "stopping"
  /\ cancelling' = {}
  /\ busy' = "idle"
  /\ UNCHANGED <<staged, preview_playlist_ready>>
  /\ UpdateStatus
  /\ UNCHANGED <<mailbox, replies, ending, active_relays, playlist, fruitless>>

----------------------------------------------------------------------------
(* handle_end_stream *)

IsCurrent(key) == staged # NoStream /\ staged.key = key

\* end_current_stream: the stream is taken and its preview killed.
EndBegin ==
  /\ Receive("end")
  /\ IsCurrent(Head(mailbox).key)
  /\ staged' = NoStream
  /\ ending' = staged
  /\ busy' = "ending"
  /\ UNCHANGED <<replies, active_relays, cancelling, playlist, preview_playlist_ready,
                 status, fruitless>>

\* Mutant: the relays outlive their stream.
EndKeepingRelays ==
  /\ busy = "ending" /\ ending # NoStream
  /\ ending' = NoStream
  /\ UNCHANGED <<mailbox, replies, staged, active_relays, cancelling, busy, playlist,
                 preview_playlist_ready, status, fruitless>>

\* The preview process is gone: it is the turn of the relays.
EndRelays ==
  /\ busy = "ending" /\ ending # NoStream
  /\ ending' = NoStream
  /\ TakeRelays(ending.key)
  /\ UNCHANGED <<mailbox, replies, staged, busy, playlist, preview_playlist_ready, status,
                 fruitless>>

\* Mutant: the status is not recomputed at the end.
EndFinishSilently ==
  /\ busy = "ending" /\ ending = NoStream
  /\ cancelling' = {}
  /\ busy' = "idle"
  /\ playlist' = FALSE
  /\ preview_playlist_ready' = FALSE
  /\ UNCHANGED <<mailbox, replies, staged, active_relays, ending, status, fruitless>>

EndFinish ==
  /\ busy = "ending" /\ ending = NoStream
  /\ cancelling' = {}
  /\ busy' = "idle"
  /\ playlist' = FALSE
  /\ preview_playlist_ready' = FALSE
  /\ UNCHANGED staged
  /\ UpdateStatus
  /\ UNCHANGED <<mailbox, replies, active_relays, ending, fruitless>>

\* Another key: only relays of that key would be cancelled.
EndOther ==
  /\ Receive("end")
  /\ LET key == Head(mailbox).key
     IN  /\ ~IsCurrent(key)
         /\ active_relays' = [active_relays EXCEPT ![key] = {}]
  /\ UNCHANGED <<replies, staged, cancelling, busy, ending, playlist, preview_playlist_ready,
                 status, fruitless>>

----------------------------------------------------------------------------
(* check_preview_process_health *)

PreviewDead == busy = "idle" /\ staged # NoStream /\ ~staged.alive

\* The preview runs: the cached playlist check is refreshed.
HealthRefresh ==
  /\ busy = "idle" /\ staged # NoStream /\ staged.alive
  /\ preview_playlist_ready' = playlist
  /\ fruitless' = IF playlist THEN 0 ELSE fruitless
  /\ UNCHANGED staged
  /\ UpdateStatus
  /\ UNCHANGED <<mailbox, replies, active_relays, cancelling, busy, ending, playlist>>

\* The preview exited and its replacement is spawned.
HealthRespawn ==
  /\ PreviewDead
  /\ staged.failures < RestartLimit
  /\ staged' = [staged EXCEPT !.alive = TRUE, !.failed = FALSE, !.failures = 0]
  /\ playlist' = FALSE
  /\ preview_playlist_ready' = FALSE
  /\ fruitless' = IF fruitless < MaxFruitless THEN fruitless + 1 ELSE fruitless
  /\ UpdateStatus
  /\ UNCHANGED <<mailbox, replies, active_relays, cancelling, busy, ending>>

\* The preview exited and spawning its replacement fails.
HealthRespawnFails ==
  /\ PreviewDead
  /\ staged.failures < RestartLimit
  /\ staged' = [staged EXCEPT !.failed = TRUE, !.failures = @ + 1]
  /\ playlist' = FALSE
  /\ preview_playlist_ready' = FALSE
  /\ UpdateStatus
  /\ UNCHANGED <<mailbox, replies, active_relays, cancelling, busy, ending, fruitless>>

\* Mutant: giving up forgets the failure counter.
HealthGiveUpForgetful ==
  /\ PreviewDead
  /\ staged.failures >= RestartLimit
  /\ staged' = [staged EXCEPT !.failed = TRUE, !.failures = 0]
  /\ UNCHANGED preview_playlist_ready
  /\ UpdateStatus
  /\ UNCHANGED <<mailbox, replies, active_relays, cancelling, busy, ending, playlist,
                 fruitless>>

\* The circuit breaker is open.
HealthGiveUp ==
  /\ PreviewDead
  /\ staged.failures >= RestartLimit
  /\ staged' = [staged EXCEPT !.failed = TRUE]
  /\ UNCHANGED preview_playlist_ready
  /\ UpdateStatus
  /\ UNCHANGED <<mailbox, replies, active_relays, cancelling, busy, ending, playlist,
                 fruitless>>

HealthCheck == HealthRefresh \/ HealthRespawn \/ HealthRespawnFails \/ HealthGiveUp

----------------------------------------------------------------------------
(* FFmpeg processes, on their own *)

PreviewExits ==
  /\ staged # NoStream /\ staged.alive
  /\ staged' = [staged EXCEPT !.alive = FALSE]
  /\ UNCHANGED <<mailbox, replies, active_relays, cancelling, busy, ending, playlist,
                 preview_playlist_ready, status, fruitless>>

PreviewWritesPlaylist ==
  /\ staged # NoStream /\ staged.alive
  /\ ~playlist
  /\ playlist' = TRUE
  /\ UNCHANGED <<mailbox, replies, staged, active_relays, cancelling, busy, ending,
                 preview_playlist_ready, status, fruitless>>

----------------------------------------------------------------------------
Init ==
  /\ mailbox = <<>>
  /\ replies = [s \in Session |-> "none"]
  /\ staged = NoStream
  /\ active_relays = [k \in Key |-> {}]
  /\ cancelling = {}
  /\ busy = "idle" /\ ending = NoStream
  /\ playlist = FALSE /\ preview_playlist_ready = FALSE
  /\ status = "offline"
  /\ fruitless = 0

\* The actor handles its next command, finishes one, or checks the preview.
HandleCommand ==
  \/ Stage \/ StageFails \/ Refuse
  \/ \E targets \in SUBSET Target : Publish(targets)
  \/ StopBegin \/ StopFinish \/ EndBegin \/ EndRelays \/ EndFinish \/ EndOther

Processes == PreviewExits \/ PreviewWritesPlaylist

Callers ==
  \/ \E command \in Command : Send(command) /\ UNCHANGED <<replies, actorVars>>
  \/ \E s \in Session : TakeReply(s) \/ GiveUp(s)

\* The actor under callers that may send anything at any time.
Next == HandleCommand \/ HealthCheck \/ Processes \/ Callers

Spec == Init /\ [][Next]_vars

----------------------------------------------------------------------------
(* Properties of the actor alone *)

\* Type invariant.
TypeOK ==
  /\ mailbox \in Seq(Command) /\ Len(mailbox) <= MailboxCapacity
  /\ replies \in [Session -> {"none", "ok", "err"}]
  /\ staged \in Staged \cup {NoStream} /\ ending \in Staged \cup {NoStream}
  /\ active_relays \in [Key -> SUBSET Target]
  /\ cancelling \subseteq Target
  /\ busy \in {"idle", "stopping", "ending"}
  /\ playlist \in BOOLEAN /\ preview_playlist_ready \in BOOLEAN
  /\ status \in State
  /\ fruitless \in Nat

\* External output follows the operator's publication: a key has relays only
\* while the stream staged under it is published, or while the actor waits for
\* the preview of just that published stream, which it is ending
\* (stream_actor.rs:330-332).  During a stop, and once that wait is over, none is
\* left (handle_publish_staged, handle_stop_publishing, end_current_stream).
RelaysFollowPublication ==
  \A k \in Key : active_relays[k] # {} =>
    \/ IsCurrent(k) /\ staged.published
    \/ busy = "ending" /\ ending # NoStream /\ ending.key = k /\ ending.published

\* Whenever the actor is free, the watch channel shows the state the actor is
\* in: no handler leaves without update_status having caught up.
StatusCurrent ==
  busy = "idle" => status = ComputeStatus(staged, preview_playlist_ready)

\* Once the circuit breaker is open the preview stays failed until the stream
\* is replaced (stream_actor.rs:137, "giving up until next stage").
GivenUpUntilNextStage ==
  [][(staged # NoStream /\ staged.failures >= RestartLimit)
       => \/ staged' = NoStream
          \/ staged'.failures >= RestartLimit /\ status' = "preview_failed"]_vars

\* The circuit breaker bounds the restarts of a preview that never produces a
\* playlist (stream_actor.rs:132).  It does not hold: a process that starts and
\* exits resets the failure counter.
FruitlessRestartsBounded == fruitless <= RestartLimit
=============================================================================
