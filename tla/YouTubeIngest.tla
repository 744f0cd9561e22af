--------------------------- MODULE YouTubeIngest ---------------------------
(***************************************************************************)
(* The YouTube chat source (src/src/chat/youtube.rs) and the part of the   *)
(* chat actor that owns its task (src/src/chat.rs): configure_youtube      *)
(* aborts the task and waits for it before it spawns the next one; the     *)
(* task calls the actor through the same mailbox as everybody else, with   *)
(* an answer for every message and with none for its status.               *)
(*                                                                         *)
(* The live chat of a stream is the sequence Chat of items, a continuation *)
(* token is the position up to which it was read.  A new session may start *)
(* anywhere in it: what YouTube replays or leaves out is not ours to say.  *)
(* Delays (polling interval, backoff) have no length here.                 *)
(***************************************************************************)
EXTENDS Integers, Sequences

CONSTANTS
  Chat,         \* the items of the live chat
  Target,       \* kinds of targets that are configured
  PageSize,     \* bound: messages in one page
  MailboxSize,  \* ACTOR_COMMAND_CAPACITY
  MaxSettings,  \* bound: configurations sent to the actor
  MaxFaults     \* bound: database errors in the actor, and messages it has forgotten

----------------------------------------------------------------------------
(* The items of the live chat, and the targets *)

Renderer == {"text", "paid", "membership", "sticker", "gift"}

\* An action of a page: what it renders, its id (0 for none), and what its text
\* consists of.
Item == [renderer : Renderer \cup {"other"}, id : Nat,
         body : {"missing", "blank", "words", "emoji"}]

\* action_renderer, common_fields: other actions, and items without an id, are left out
\* of the page.
Parsed(item) == item.renderer \in Renderer /\ item.id # 0

\* extract_parts: an emoji is at least its name.
HasText(body) == body \in {"words", "emoji"}

\* renderer_parts: payments, stickers and memberships say what they are.
HasParts(item) == item.renderer \in {"paid", "membership", "sticker"} \/ HasText(item.body)

Messages == Len(Chat)

Skipped == {i \in 1..Messages : ~Parsed(Chat[i]) \/ ~HasParts(Chat[i])}

\* A live chat id is a continuation token, unless it names a video like a video id or
\* URL does; a channel is looked up; the rest names nothing.
Targets == {"token", "video", "channel", "invalid"}

\* What the page of a channel holds: resolve_channel_live_video takes the video it was
\* redirected to, the canonical one, or one that is said to be live.
ChannelPage == [redirect : BOOLEAN, canonical : BOOLEAN, video : BOOLEAN, live : BOOLEAN]

LiveVideo(page) == page.redirect \/ page.canonical \/ (page.video /\ page.live)

\* resolve_live_chat_session: the positions a session can begin at.
Continuation(target) ==
  CASE target = "token"   -> {0}
    [] target = "video"   -> 0..Messages
    [] target = "channel" -> {t \in 0..Messages : \E page \in ChannelPage : LiveVideo(page)}
    [] target = "invalid" -> {}

\* A token needs no request.
MayFail(target) == target # "token"

ASSUME ChatAssumption   == Chat \in Seq(Item) /\ Target \subseteq Targets
ASSUME BoundsAssumption == /\ PageSize \in Nat \ {0} /\ MailboxSize \in Nat \ {0}
                           /\ MaxSettings \in Nat /\ MaxFaults \in Nat

VARIABLES
  mailbox,   \* commands of the chat actor
  actor,     \* "idle", or the setting it applies once the old task has stopped
  task,      \* youtube_task with the state of its loop
  status,    \* ChatState.youtube_status
  \* history
  spawned,   \* tasks so far
  answered,  \* messages the actor has answered Accepted, Duplicate or Dropped
  accepted,  \* how often it accepted one
  refused,   \* messages answered with an error
  settings, faults

vars == <<mailbox, actor, task, status, spawned, answered, accepted, refused,
          settings, faults>>

\* No target, a target with polling off, the target of polling.
Setting == {"unset", "off"} \cup Target

NoTask == [gen |-> 0]

\* The await the task stands at: the pause before resolve_live_chat_session, its
\* requests, a poll (the pause before it included), the enqueues of a page, the
\* answer to one of them, the pause and requests after the session has expired.
Stage == {"starting", "resolving", "polling", "enqueueing", "answer", "expired"}

\* Of the page read last, next..token is still to be enqueued.
Task == [gen : Nat \ {0}, target : Target, stage : Stage, aborted : BOOLEAN,
         token : 0..Messages, next : 1..Messages + 1, accepted : 0..PageSize]

NoStatus == [state |-> "none", received |-> 0, writer |-> 0]

State == {"Off", "Resolving", "Connected", "Polling", "Error"}

\* `writer` is the task whose update was applied last, 0 for the actor itself.
Status == {NoStatus} \cup [state : State, received : Nat, writer : Nat]

Command == [type : {"other"}]
             \cup [type : {"set"}, setting : Setting]
             \cup [type : {"enqueue"}, message : 1..Messages, gen : Nat]
             \cup [type : {"status"}, state : State, received : 0..PageSize, gen : Nat]

Room == Len(mailbox) < MailboxSize

----------------------------------------------------------------------------
(* Other callers *)

\* Operators and the other chat sources.
OtherCommand ==
  /\ Room
  /\ mailbox' = Append(mailbox, [type |-> "other"])
  /\ UNCHANGED <<actor, task, status, spawned, answered, accepted, refused,
                 settings, faults>>

\* SetYouTubePolling, or ApplyConfig.
SetYouTubePolling ==
  /\ Room /\ settings < MaxSettings
  /\ settings' = settings + 1
  /\ \E s \in Setting : mailbox' = Append(mailbox, [type |-> "set", setting |-> s])
  /\ UNCHANGED <<actor, task, status, spawned, answered, accepted, refused, faults>>

----------------------------------------------------------------------------
(* The polling task *)

Running == task # NoTask /\ ~task.aborted

\* Mutant: the update is sent whether there is room or not.
UpdateStatusUnbounded(state, received) ==
  mailbox' = Append(mailbox, [type |-> "status", state |-> state, received |-> received,
                              gen |-> task.gen])

\* update_youtube_status: try_send, so a full mailbox loses the update.
UpdateStatus(state, received) ==
  mailbox' = IF Room
             THEN Append(mailbox, [type |-> "status", state |-> state,
                                   received |-> received, gen |-> task.gen])
             ELSE mailbox

TaskOnly == <<actor, status, spawned, answered, accepted, refused, settings, faults>>

\* resolve_session_with_retry, up to its requests.
Resolve ==
  /\ Running /\ task.stage = "starting"
  /\ UpdateStatus("Resolving", 0)
  /\ task' = [task EXCEPT !.stage = "resolving"]
  /\ UNCHANGED TaskOnly

\* bootstrap_live_chat_session
NewSession(token) == [task EXCEPT !.stage = "polling", !.token = token, !.next = token + 1]

Resolved ==
  /\ Running /\ task.stage = "resolving"
  /\ UpdateStatus("Connected", 0)
  /\ \E t \in Continuation(task.target) : task' = NewSession(t)
  /\ UNCHANGED TaskOnly

ResolveFails ==
  /\ Running /\ task.stage = "resolving" /\ MayFail(task.target)
  /\ UpdateStatus("Error", 0)
  /\ task' = [task EXCEPT !.stage = "starting"]
  /\ UNCHANGED TaskOnly

\* The lengths of the page that fetch_innertube_page can return.
PageLength == {n \in 0..PageSize : task.token + n <= Messages}

\* The token is advanced before the messages of the page are enqueued.
FetchPage ==
  /\ Running /\ task.stage = "polling"
  /\ \E n \in PageLength :
       task' = [task EXCEPT !.stage = "enqueueing", !.token = @ + n,
                            !.next = task.token + 1]
  /\ UNCHANGED <<mailbox, TaskOnly>>

\* PollFailure::Retry: the same token again, after a pause.
FetchFails ==
  /\ Running /\ task.stage = "polling"
  /\ UpdateStatus("Error", 0)
  /\ UNCHANGED <<task, TaskOnly>>

\* Mutant: the task returns.
SessionEnds ==
  /\ Running /\ task.stage = "polling"
  /\ UpdateStatus("Resolving", 0)
  /\ task' = [task EXCEPT !.stage = "ended"]
  /\ UNCHANGED TaskOnly

\* PollFailure::SessionExpired
SessionExpired ==
  /\ Running /\ task.stage = "polling"
  /\ UpdateStatus("Resolving", 0)
  /\ task' = [task EXCEPT !.stage = "expired"]
  /\ UNCHANGED TaskOnly

\* The stream is resolved once more; when that fails the old session goes on.
Reresolved ==
  /\ Running /\ task.stage = "expired"
  /\ \/ /\ \E t \in Continuation(task.target) : task' = NewSession(t)
        /\ UNCHANGED mailbox
     \/ /\ MayFail(task.target)
        /\ task' = [task EXCEPT !.stage = "polling"]
        /\ UpdateStatus("Error", 0)
  /\ UNCHANGED TaskOnly

\* Mutant: a full mailbox refuses the message.
TryEnqueueMessage ==
  /\ Running /\ task.stage = "enqueueing" /\ task.next <= task.token
  /\ IF Room /\ task.next \notin Skipped
     THEN /\ mailbox' = Append(mailbox, [type |-> "enqueue", message |-> task.next,
                                         gen |-> task.gen])
          /\ task' = [task EXCEPT !.stage = "answer"]
     ELSE task' = [task EXCEPT !.next = @ + 1] /\ UNCHANGED mailbox
  /\ UNCHANGED TaskOnly

\* An item of the page: skipped when it is not a message or has no text, otherwise
\* sent as soon as there is room in the mailbox.
EnqueueMessage ==
  /\ Running /\ task.stage = "enqueueing" /\ task.next <= task.token
  /\ IF task.next \in Skipped
     THEN task' = [task EXCEPT !.next = @ + 1] /\ UNCHANGED mailbox
     ELSE /\ Room
          /\ mailbox' = Append(mailbox, [type |-> "enqueue", message |-> task.next,
                                         gen |-> task.gen])
          /\ task' = [task EXCEPT !.stage = "answer"]
  /\ UNCHANGED TaskOnly

PageDone ==
  /\ Running /\ task.stage = "enqueueing" /\ task.next > task.token
  /\ UpdateStatus("Polling", task.accepted)
  /\ task' = [task EXCEPT !.stage = "polling", !.accepted = 0]
  /\ UNCHANGED TaskOnly

\* An aborted task is dropped at the await it stands at.
TaskStops ==
  /\ task # NoTask /\ task.aborted
  /\ task' = NoTask
  /\ UNCHANGED <<mailbox, TaskOnly>>

----------------------------------------------------------------------------
(* The chat actor *)

\* The answer resumes the task that waits for it, if it is still there.
Answered(c, outcome) ==
  IF Running /\ task.gen = c.gen
  THEN [task EXCEPT !.stage = "enqueueing", !.next = @ + 1,
                    !.accepted = IF outcome = "Accepted" THEN @ + 1 ELSE @]
  ELSE task

Known(c, messages) == \E i \in messages : Chat[i].id = Chat[c.message].id

Fault == faults < MaxFaults /\ faults' = faults + 1

\* handle_enqueue (see ChatInbox): a known message is a duplicate, another one accepted
\* or dropped.  One that failed may be known, and one that was answered be forgotten.
Enqueue(c) ==
  /\ \/ /\ Known(c, answered \cup refused)
        /\ task' = Answered(c, "Duplicate")
        /\ UNCHANGED <<accepted, faults>>
     \/ /\ IF Known(c, answered) THEN Fault ELSE UNCHANGED faults
        /\ \/ task' = Answered(c, "Accepted") /\ accepted' = accepted + 1
           \/ task' = Answered(c, "Dropped") /\ UNCHANGED accepted
  /\ answered' = answered \cup {c.message}
  /\ UNCHANGED <<actor, status, refused>>

EnqueueFails(c) ==
  /\ Fault
  /\ task' = Answered(c, "Error")
  /\ refused' = refused \cup {c.message}
  /\ UNCHANGED <<actor, status, answered, accepted>>

\* Mutant: also without a task.
UpdateYouTubeStatusAlways(c) ==
  /\ status' = [state |-> c.state, writer |-> c.gen, received |-> status.received + c.received]
  /\ UNCHANGED <<actor, task, answered, accepted, refused, faults>>

\* UpdateYouTubeStatus names no task: any update is applied to the one there is.
UpdateYouTubeStatus(c) ==
  /\ status' = IF task = NoTask
               THEN status
               ELSE [state |-> c.state, writer |-> c.gen,
                     received |-> status.received + c.received]
  /\ UNCHANGED <<actor, task, answered, accepted, refused, faults>>

\* configure_youtube aborts the task and waits for it ...
Configure(setting) ==
  /\ actor' = setting
  /\ task' = IF task = NoTask THEN NoTask ELSE [task EXCEPT !.aborted = TRUE]
  /\ UNCHANGED <<status, answered, accepted, refused, faults>>

\* ... and goes on when it is gone.
Configured ==
  /\ actor # "idle" /\ task = NoTask
  /\ actor' = "idle"
  /\ IF actor \in Target
     THEN /\ spawned' = spawned + 1
          /\ task' = [gen |-> spawned + 1, target |-> actor, stage |-> "starting",
                      aborted |-> FALSE, token |-> 0, next |-> 1, accepted |-> 0]
     ELSE UNCHANGED <<spawned, task>>
  /\ status' = IF actor = "off" THEN [state |-> "Off", received |-> 0, writer |-> 0] ELSE NoStatus
  /\ UNCHANGED <<mailbox, answered, accepted, refused, settings, faults>>

Receive ==
  /\ actor = "idle" /\ mailbox # << >>
  /\ mailbox' = Tail(mailbox)
  /\ LET c == Head(mailbox)
     IN \/ c.type = "enqueue" /\ (Enqueue(c) \/ EnqueueFails(c))
        \/ c.type = "status" /\ UpdateYouTubeStatus(c)
        \/ c.type = "set" /\ Configure(c.setting)
        \/ /\ c.type = "other"
           /\ UNCHANGED <<actor, task, status, answered, accepted, refused, faults>>
  /\ UNCHANGED <<spawned, settings>>

----------------------------------------------------------------------------

Init ==
  /\ mailbox = << >> /\ actor = "idle" /\ task = NoTask /\ status = NoStatus
  /\ spawned = 0 /\ answered = {} /\ accepted = 0 /\ refused = {}
  /\ settings = 0 /\ faults = 0

TaskStep ==
  \/ Resolve \/ Resolved \/ ResolveFails
  \/ FetchPage \/ FetchFails \/ SessionExpired \/ Reresolved
  \/ EnqueueMessage \/ PageDone

Next == \/ OtherCommand \/ SetYouTubePolling
        \/ TaskStep \/ TaskStops
        \/ Receive \/ Configured

\* The actor and the task are scheduled, every request ends (the client gives up
\* after ten seconds) and so does every pause; a sender that waits for room in the
\* mailbox is served in turn.
Fairness == /\ WF_vars(Receive) /\ WF_vars(Configured)
            /\ WF_vars(TaskStep) /\ WF_vars(TaskStops)
            /\ SF_vars(EnqueueMessage)

Spec == Init /\ [][Next]_vars /\ Fairness

----------------------------------------------------------------------------
(* Properties *)

InMailbox == {mailbox[i].message : i \in {j \in DOMAIN mailbox : mailbox[j].type = "enqueue"}}

TypeOK ==
  /\ mailbox \in Seq(Command) /\ Len(mailbox) <= MailboxSize
  /\ actor \in {"idle"} \cup Setting
  /\ task \in {NoTask} \cup Task
  /\ status \in Status
  /\ spawned \in Nat /\ settings \in Nat /\ faults \in Nat
  /\ answered \subseteq 1..Messages /\ refused \subseteq 1..Messages /\ accepted \in Nat

\* The token runs ahead of the inbox.  As long as the task lives, no message it
\* has read gets lost: at any time the items of the page up to the token are
\* no messages, still to be sent, in the mailbox, or were answered by the actor; and a
\* poll that fails or expires moves the token over nothing.  (A new session starts
\* where it likes, and an abort loses the rest of the page.)
NothingSkipped ==
  [][task # NoTask /\ task'.gen = task.gen =>
       /\ \A i \in task.next..task.token :
            \/ i \in Skipped \cup answered' \cup refused' \cup InMailbox'
            \/ i \in task'.next..task'.token
       /\ task'.token # task.token =>
            task'.next = task.token + 1 \/ (task.stage \in {"resolving", "expired"})]_vars

\* The counter of received messages is fed by updates that may get lost or come
\* from a former task; it never shows more messages than were accepted since the start.
ReceivedNotOverstated == status.received <= accepted

\* With polling off, nothing a former task has left in the mailbox changes the
\* status; and once it shows an update of the present task, an update of a former
\* one no longer gets in.
StaleStatusDiesOut ==
  [][status' # status =>
       \/ actor # "idle"
       \/ task # NoTask /\ status'.writer >= status.writer]_vars

\* What the dashboard shows of the task, although its updates may be late or lost.
StatusTruthful == []ReceivedNotOverstated /\ StaleStatusDiesOut

\* Whatever is sent to the actor, it never waits for a task that waits for it:
\* polling goes on, or is off.
PollingGoesOn == []<>(actor = "idle" /\ (task = NoTask \/ task.stage \in {"resolving", "polling", "expired"}))
============================================================================
