----------------------------- MODULE ChatTimers -----------------------------
(***************************************************************************)
(* Focus mode (the pomodoro) and the poll of the chat actor                *)
(* (src/src/chat.rs): two singleton rows and the table of votes in SQLite, *)
(* the copies in the actor's memory, the timer tasks that send an expiry   *)
(* command to the actor's own mailbox, and the votes that arrive as chat   *)
(* messages.                                                               *)
(*                                                                         *)
(* The wall clock is kept as distances: `left` is what remains until an    *)
(* ends_at_unix_ms or until a sleep is over, Tick lowers all of them, and  *)
(* 0 means expired.  A timer may fire any time after its sleep.            *)
(*                                                                         *)
(* The actor handles one command at a time, but its handlers run several   *)
(* SQLite statements.  Every statement may fail, which leaves the handler  *)
(* there with what it has done; a crash between two statements leaves the  *)
(* tables as the failure of the second one followed by a crash does.       *)
(***************************************************************************)
EXTENDS Integers, Sequences, FiniteSets

CONSTANTS
  Voter,         \* platform authors (poll_voter_key)
  Options,       \* option numbers of a poll
  Ballot,        \* chat messages that are a number: [voter, option, copy]
  Durations,     \* lengths of a pomodoro that are within the limits
  ResultsSecs,   \* results durations within the limits, also the saved setting
  MailboxSize,   \* ACTOR_COMMAND_CAPACITY
  MaxCommands,   \* bound: commands sent in one behaviour
  MaxFailures,   \* bound: statements that fail
  MaxCrashes     \* bound: crashes of the process

ASSUME DurationsAssumption   == Durations \subseteq Nat \ {0}
ASSUME ResultsSecsAssumption == ResultsSecs \subseteq Nat \ {0}
ASSUME OptionsAssumption     == Options \subseteq Nat \ {0}
ASSUME BallotAssumption      == Ballot \subseteq [voter : Voter, option : Nat, copy : Nat]
ASSUME BoundsAssumption      ==
  /\ MailboxSize \in Nat \ {0}
  /\ MaxCommands \in Nat /\ MaxFailures \in Nat /\ MaxCrashes \in Nat

VARIABLES
  \* SQLite, survives a crash
  pomodoroRow,      \* chat_pomodoro
  pollRow,          \* chat_poll
  votes,            \* chat_poll_votes: the option of each voter, 0 for no row
  seen,             \* ballots whose message id is claimed in chat_seen
  savedSecs,        \* chat.poll_results_seconds of the saved configuration
  \* the process
  up,
  mailbox,          \* commands sent and not yet received
  pomodoro,         \* ChatState.pomodoro
  poll,             \* ChatState.poll
  pollResultsSecs,  \* ChatActor.poll_results_secs
  timers,           \* tasks that sleep or wait for a place in the mailbox
  \* history, read by no action but to number sessions and to bound faults
  sessions,         \* pomodoros and polls started so far
  sent, failures, crashes,
  torn,             \* the tally lost touch with the votes (crash or failed clear)
  final             \* the stopped poll an operator was last shown

durable  == <<pomodoroRow, pollRow, votes, seen, savedSecs>>
focus    == <<pomodoroRow, pomodoro>>
polling  == <<pollRow, votes, poll, pollResultsSecs>>
history  == <<sessions, torn, final>>
vars     == <<durable, up, mailbox, pomodoro, poll, pollResultsSecs, timers,
              sent, failures, crashes, history>>

----------------------------------------------------------------------------
(* Pomodoro, poll and timers *)

NoPomodoro == [session |-> 0, left |-> 0]
NoPoll     == [session |-> 0, tally |-> [o \in Options |-> 0], stopped |-> FALSE, left |-> 0]

\* PomodoroState: `session` stands for the message and started_at.
Pomodoro == [session : Nat, left : Nat]
\* PollState: `left` is the distance to results_ends_at, when stopped.
Poll     == [session : Nat, tally : [Options -> Nat], stopped : BOOLEAN, left : Nat]

\* A spawned timer task; `session` is what it was armed for.
Task == [kind : {"pomodoro", "poll"}, session : Nat, left : Nat]

Expired(p) == p.left = 0

\* PollState::is_active
Active(p) == p # NoPoll /\ ~p.stopped

\* PollState::is_showing_results
ShowingResults(p) == p # NoPoll /\ p.stopped /\ p.left > 0

\* active_pomodoro and active_poll: what snapshots show and what new ones meet.
ActivePomodoro == IF Expired(pomodoro) THEN NoPomodoro ELSE pomodoro
ActivePoll     == IF Active(poll) \/ ShowingResults(poll) THEN poll ELSE NoPoll

\* validate_pomodoro and validate_poll, of the duration; 0 stands for a request
\* that is refused.
ValidPomodoro(secs) == secs \in Durations
ValidPoll(secs)     == secs \in ResultsSecs

\* parse_poll_vote: only the number of an option is a vote.
ParsedVote(b) == b.option \in Options

Abort(tasks, kind) == {t \in tasks : t.kind # kind}

Arm(tasks, kind, session, left) ==
  tasks \cup {[kind |-> kind, session |-> session, left |-> left]}

\* What the rows of chat_poll_votes add up to.
Counted == [o \in Options |-> Cardinality({v \in Voter : votes[v] = o})]

NoVotes == [v \in Voter |-> 0]

\* Mutant: the subtraction does not saturate.
LowerWrapping(n) == n - 1

\* saturating_sub
Lower(n) == IF n > 0 THEN n - 1 ELSE 0

----------------------------------------------------------------------------
(* Commands *)

ExpireType == [pomodoro |-> "ExpirePomodoro", poll |-> "ExpirePollResults"]

Command ==
  [type : {"StartPomodoro"}, secs : Durations \cup {0}]
    \cup [type : {"StopPomodoro", "StopPoll", "ClearPoll"}]
    \cup [type : {"StartPoll"}, secs : ResultsSecs \cup {0}]
    \cup [type : {"ApplyConfig"}, secs : ResultsSecs]
    \cup [type : {"Enqueue"}, ballot : Ballot]
    \cup [type : {"ExpirePomodoro", "ExpirePollResults"}, session : Nat]

Mailable == up /\ Len(mailbox) < MailboxSize

\* A route handler or a chat source calls the ChatHandle.
Send(c) ==
  /\ Mailable
  /\ sent < MaxCommands
  /\ sent' = sent + 1
  /\ mailbox' = Append(mailbox, c)
  /\ UNCHANGED <<durable, up, pomodoro, poll, pollResultsSecs, timers,
                 failures, crashes, history>>

OperateFocus ==
  \/ \E secs \in Durations \cup {0} : Send([type |-> "StartPomodoro", secs |-> secs])
  \/ Send([type |-> "StopPomodoro"])

OperatePoll ==
  \/ \E secs \in ResultsSecs \cup {0} : Send([type |-> "StartPoll", secs |-> secs])
  \/ Send([type |-> "StopPoll"])
  \/ Send([type |-> "ClearPoll"])

\* A platform delivers a ballot, possibly again.
Deliver == \E b \in Ballot : Send([type |-> "Enqueue", ballot |-> b])

\* The configuration is saved, then sent to the actor.
SaveConfig(secs) ==
  /\ Mailable
  /\ sent < MaxCommands
  /\ sent' = sent + 1
  /\ savedSecs' = secs
  /\ mailbox' = Append(mailbox, [type |-> "ApplyConfig", secs |-> secs])
  /\ UNCHANGED <<pomodoroRow, pollRow, votes, seen, up, pomodoro, poll,
                 pollResultsSecs, timers, failures, crashes, history>>

\* The sleep of a timer is over and its command finds a place in the mailbox.
TimerFires(t) ==
  /\ t.left = 0
  /\ Mailable
  /\ timers' = timers \ {t}
  /\ mailbox' = Append(mailbox, [type |-> ExpireType[t.kind], session |-> t.session])
  /\ UNCHANGED <<durable, up, pomodoro, poll, pollResultsSecs, sent,
                 failures, crashes, history>>

Tick ==
  /\ pomodoroRow' = [pomodoroRow EXCEPT !.left = Lower(@)]
  /\ pomodoro'    = [pomodoro EXCEPT !.left = Lower(@)]
  /\ pollRow'     = [pollRow EXCEPT !.left = Lower(@)]
  /\ poll'        = [poll EXCEPT !.left = Lower(@)]
  /\ timers'      = {[t EXCEPT !.left = Lower(@)] : t \in timers}
  /\ UNCHANGED <<votes, seen, savedSecs, up, mailbox, pollResultsSecs, sent,
                 failures, crashes, history>>

----------------------------------------------------------------------------
(* The rows.  Clearing a poll deletes its votes first. *)

SavePersistedPomodoro(p) == pomodoroRow' = p
ClearPersistedPomodoro   == pomodoroRow' = NoPomodoro

\* What start-up finds: an expired session is deleted.
LoadPersistedPomodoro == IF Expired(pomodoroRow) THEN NoPomodoro ELSE pomodoroRow

ClearPollVotes       == votes' = NoVotes
SavePersistedPoll(p) == pollRow' = p
ClearPersistedPoll   == ClearPollVotes /\ pollRow' = NoPoll

\* What start-up finds: results that were shown long enough are deleted.
LoadPersistedPoll ==
  IF Active(pollRow) \/ ShowingResults(pollRow) THEN pollRow ELSE NoPoll

----------------------------------------------------------------------------
(* Handlers: focus mode *)

Fails == failures < MaxFailures /\ failures' = failures + 1
Works == UNCHANGED failures

Ignore == Works /\ UNCHANGED <<focus, polling, seen, timers, history>>

\* Mutant: visible before durable.
StartPomodoroVisibleFirst(c) ==
  LET p == [session |-> sessions + 1, left |-> c.secs]
  IN  /\ ValidPomodoro(c.secs)
      /\ pomodoro' = p
      /\ timers' = Arm(Abort(timers, "pomodoro"), "pomodoro", p.session, c.secs)
      /\ sessions' = p.session
      /\ \/ Fails /\ UNCHANGED pomodoroRow
         \/ Works /\ SavePersistedPomodoro(p)
      /\ UNCHANGED <<polling, seen, torn, final>>

\* Mutant: the timer of the session it replaces keeps running.
StartPomodoroNoAbort(c) ==
  LET p == [session |-> sessions + 1, left |-> c.secs]
  IN  /\ ValidPomodoro(c.secs)
      /\ \/ Fails /\ UNCHANGED <<focus, timers, sessions>>
         \/ /\ Works
            /\ SavePersistedPomodoro(p)
            /\ pomodoro' = p
            /\ timers' = Arm(timers, "pomodoro", p.session, c.secs)
            /\ sessions' = p.session
      /\ UNCHANGED <<polling, seen, torn, final>>

\* start_pomodoro: saved first, visible afterwards.
StartPomodoro(c) ==
  LET p == [session |-> sessions + 1, left |-> c.secs]
  IN  /\ ValidPomodoro(c.secs)
      /\ \/ Fails /\ UNCHANGED <<focus, timers, sessions>>
         \/ /\ Works
            /\ SavePersistedPomodoro(p)
            /\ pomodoro' = p
            /\ timers' = Arm(Abort(timers, "pomodoro"), "pomodoro", p.session, c.secs)
            /\ sessions' = p.session
      /\ UNCHANGED <<polling, seen, torn, final>>

\* clear_pomodoro: the timer is gone even when the row stays.
ClearPomodoro ==
  /\ timers' = Abort(timers, "pomodoro")
  /\ \/ Fails /\ UNCHANGED focus
     \/ Works /\ ClearPersistedPomodoro /\ pomodoro' = NoPomodoro
  /\ UNCHANGED <<polling, seen, history>>

\* ExpirePomodoro clears a pomodoro that has NOT expired.
ExpirePomodoro == IF ActivePomodoro = NoPomodoro THEN Ignore ELSE ClearPomodoro

----------------------------------------------------------------------------
(* Handlers: the poll *)

\* start_poll: the results duration is set, the votes are cleared and the row
\* is saved before the poll is visible.
StartPoll(c) ==
  LET p == [NoPoll EXCEPT !.session = sessions + 1]
  IN  IF ActivePoll # NoPoll \/ ~ValidPoll(c.secs)
      THEN Ignore
      ELSE /\ pollResultsSecs' = c.secs
           /\ \/ /\ Fails
                 /\ UNCHANGED votes \/ ClearPollVotes
                 /\ UNCHANGED <<pollRow, poll, sessions, torn>>
              \/ /\ Works
                 /\ ClearPollVotes
                 /\ SavePersistedPoll(p) /\ poll' = p
                 /\ sessions' = p.session /\ torn' = FALSE
           /\ UNCHANGED <<focus, seen, timers, final>>

\* stop_poll: stopped in memory first; when the save fails no timer is armed.
StopPoll ==
  LET p == [poll EXCEPT !.stopped = TRUE, !.left = pollResultsSecs]
  IN  IF ~Active(poll)
      THEN Ignore
      ELSE /\ poll' = p
           /\ \/ Fails /\ UNCHANGED <<pollRow, timers, final>>
              \/ /\ Works
                 /\ SavePersistedPoll(p)
                 /\ timers' = Arm(Abort(timers, "poll"), "poll", p.session, p.left)
                 /\ final' = [session |-> p.session, tally |-> p.tally]
           /\ UNCHANGED <<votes, pollResultsSecs, focus, seen, sessions, torn>>

\* clear_poll: timer, votes, row, memory, in this order.
ClearPoll ==
  /\ timers' = Abort(timers, "poll")
  /\ \/ Fails /\ UNCHANGED <<votes, pollRow, poll, torn>>
     \/ Fails /\ ClearPollVotes /\ torn' = TRUE /\ UNCHANGED <<pollRow, poll>>
     \/ /\ Works
        /\ ClearPersistedPoll /\ poll' = NoPoll /\ torn' = FALSE
  /\ UNCHANGED <<pollResultsSecs, focus, seen, sessions, final>>

\* Mutant: any poll is cleared.
ExpireAnyPoll == IF poll = NoPoll THEN Ignore ELSE ClearPoll

\* ExpirePollResults clears a stopped poll, whichever poll its timer was for.
ExpirePollResults == IF poll.stopped THEN ClearPoll ELSE Ignore

\* Mutant: the previous vote of the author stays counted.
RecountAddOnly(p, previous, option) == [p EXCEPT !.tally[option] = @ + 1]

\* The tally after the author of `previous` (0: none) votes for `option`; the
\* subtraction saturates.
Recount(p, previous, option) ==
  LET less == [o \in Options |-> IF o = previous THEN Lower(p.tally[o]) ELSE p.tally[o]]
  IN  [p EXCEPT !.tally = [less EXCEPT ![option] = @ + 1]]

\* record_poll_vote commits the claim and the vote; the tally is saved after.
Vote(b) ==
  LET counted == Recount(poll, votes[b.voter], b.option)
  IN  /\ b \notin seen /\ Active(poll) /\ ParsedVote(b)
      /\ seen' = seen \cup {b}
      /\ votes' = [votes EXCEPT ![b.voter] = b.option]
      /\ poll' = counted
      /\ \/ Works /\ SavePersistedPoll(counted)
         \/ Fails /\ UNCHANGED pollRow
      /\ UNCHANGED <<focus, pollResultsSecs, timers, history>>

\* Without an active poll, or when it names no option, a ballot is a chat
\* message like any other.
IntoInbox(b) ==
  /\ b \notin seen /\ ~(Active(poll) /\ ParsedVote(b))
  /\ Works
  /\ seen' = seen \cup {b}
  /\ UNCHANGED <<focus, polling, timers, history>>

\* handle_enqueue for a message that no automation consumes.
Enqueue(b) ==
  \/ b \in seen /\ Ignore
  \/ b \notin seen /\ Fails /\ UNCHANGED <<focus, polling, seen, timers, history>>
  \/ Vote(b)
  \/ IntoInbox(b)

\* handle_apply_config keeps the duration of an active poll.
ApplyConfig(c) ==
  /\ Works
  /\ pollResultsSecs' = IF Active(poll) THEN pollResultsSecs ELSE c.secs
  /\ UNCHANGED <<focus, votes, pollRow, poll, seen, timers, history>>

\* ChatActor::run
Handle(c) ==
  \/ c.type = "StartPomodoro"     /\ StartPomodoro(c)
  \/ c.type = "StartPomodoro"     /\ ~ValidPomodoro(c.secs) /\ Ignore
  \/ c.type = "StopPomodoro"      /\ ClearPomodoro
  \/ c.type = "ExpirePomodoro"    /\ ExpirePomodoro
  \/ c.type = "StartPoll"         /\ StartPoll(c)
  \/ c.type = "StopPoll"          /\ StopPoll
  \/ c.type = "ClearPoll"         /\ ClearPoll
  \/ c.type = "ExpirePollResults" /\ ExpirePollResults
  \/ c.type = "Enqueue"           /\ Enqueue(c.ballot)
  \/ c.type = "ApplyConfig"       /\ ApplyConfig(c)

Receive ==
  /\ up /\ mailbox # << >>
  /\ mailbox' = Tail(mailbox)
  /\ Handle(Head(mailbox))
  /\ UNCHANGED <<savedSecs, up, sent, crashes>>

----------------------------------------------------------------------------
(* The process *)

Crash ==
  /\ up /\ crashes < MaxCrashes
  /\ crashes' = crashes + 1
  /\ up' = FALSE
  /\ mailbox' = << >> /\ timers' = {}
  /\ pomodoro' = NoPomodoro /\ poll' = NoPoll
  /\ torn' = (pollRow # NoPoll /\ pollRow.tally # Counted)
  /\ UNCHANGED <<durable, pollResultsSecs, sent, failures, sessions, final>>

\* Mutant: only the pomodoro's timer is armed again.
RearmFocusOnly(p, q) ==
  IF p = NoPomodoro THEN {} ELSE Arm({}, "pomodoro", p.session, p.left)

\* The timers of what was restored.
Rearm(p, q) ==
  (IF p = NoPomodoro THEN {} ELSE Arm({}, "pomodoro", p.session, p.left))
    \cup (IF q.stopped THEN Arm({}, "poll", q.session, q.left) ELSE {})

\* What becomes of a loaded row: it is shown, or the last of its time passes before
\* the clock is read again for remaining_ms, and the row stays with nothing shown.
Restorable(loaded, nothing) ==
  {[shown |-> loaded, row |-> loaded]}
    \cup (IF loaded.left = 1
          THEN {[shown |-> nothing, row |-> [loaded EXCEPT !.left = 0]]} ELSE {})

\* load_persisted_pomodoro and load_persisted_poll delete what expired while
\* the process was down; the rest is restored and its timers are armed again.
Start ==
  \E p \in Restorable(LoadPersistedPomodoro, NoPomodoro), q \in Restorable(LoadPersistedPoll, NoPoll) :
      /\ ~up /\ up' = TRUE
      /\ pomodoroRow' = p.row /\ pomodoro' = p.shown
      /\ pollRow' = q.row /\ poll' = q.shown
      /\ votes' = IF LoadPersistedPoll = NoPoll /\ pollRow # NoPoll THEN NoVotes ELSE votes
      /\ timers' = Rearm(p.shown, q.shown)
      /\ pollResultsSecs' = savedSecs
      /\ UNCHANGED <<seen, savedSecs, mailbox, sent, failures, crashes, history>>

Init ==
  /\ pomodoroRow = NoPomodoro /\ pollRow = NoPoll /\ votes = NoVotes /\ seen = {}
  /\ savedSecs \in ResultsSecs
  /\ up = FALSE /\ mailbox = << >> /\ pomodoro = NoPomodoro /\ poll = NoPoll
  /\ pollResultsSecs = savedSecs /\ timers = {}
  /\ sessions = 0 /\ sent = 0 /\ failures = 0 /\ crashes = 0
  /\ torn = FALSE /\ final = [session |-> 0, tally |-> NoPoll.tally]

Fire == \E t \in timers : TimerFires(t)

Next ==
  \/ OperateFocus \/ OperatePoll \/ Deliver
  \/ \E secs \in ResultsSecs : SaveConfig(secs)
  \/ Fire
  \/ Tick
  \/ Receive
  \/ Crash
  \/ Start

\* The actor task runs, time passes, a timer that is due gets the next place
\* in the mailbox (senders queue in order) and the service manager restarts
\* the process.  Nobody has to send a command.
Fairness == WF_vars(Receive) /\ WF_vars(Tick) /\ WF_vars(Fire) /\ WF_vars(Start)

Spec == Init /\ [][Next]_vars /\ Fairness

----------------------------------------------------------------------------
(* Properties *)

TypeOK ==
  /\ pomodoroRow \in Pomodoro /\ pomodoro \in Pomodoro
  /\ pollRow \in Poll /\ poll \in Poll
  /\ votes \in [Voter -> Options \cup {0}]
  /\ seen \subseteq Ballot
  /\ savedSecs \in ResultsSecs /\ pollResultsSecs \in ResultsSecs
  /\ up \in BOOLEAN
  /\ mailbox \in Seq(Command)
  /\ timers \subseteq Task
  /\ sessions \in Nat /\ sent \in Nat /\ failures \in Nat /\ crashes \in Nat
  /\ torn \in BOOLEAN
  /\ final \in [session : Nat, tally : [Options -> Nat]]

\* Focus mode is never visible without being durable, nor gone without being
\* gone from its row: whatever fails, a restart restores what was shown.  The row
\* of a session that ran out during a start-up stays; no restart shows it.
FocusDurable ==
  up => pomodoro = pomodoroRow \/ (pomodoro = NoPomodoro /\ Expired(pomodoroRow))

\* No timer other than that of the current focus session is alive, and neither
\* it nor the command it sent can meet the session before its end.
OwnExpiryIsLate ==
  /\ \A t \in timers : t.kind = "pomodoro" =>
        t.session = pomodoro.session /\ t.left = pomodoro.left
  /\ \A i \in 1..Len(mailbox) :
        /\ mailbox[i].type = "ExpirePomodoro"
        /\ mailbox[i].session = pomodoro.session
        => Expired(pomodoro)

\* The tally on the overlay is what the table of votes adds up to, through
\* changed votes, redelivered ballots, failed saves and new polls, as long as
\* no crash or failed clear has separated the two.
TallyMatchesVotes ==
  up /\ ~torn /\ (Active(poll) \/ ShowingResults(poll)) => poll.tally = Counted

\* When StopPoll has been answered the poll is over for good: neither a later
\* ballot nor a failure nor a restart re-opens it or changes its tally.
StoppedPollIsFinal ==
  \A p \in {poll, pollRow} :
    p # NoPoll /\ p.session = final.session => p.stopped /\ p.tally = final.tally

\* An active poll is only ever stopped or cleared by its operator: no expiry
\* left over from an earlier poll and no second StartPoll takes it away.
ActivePollKept ==
  [][up /\ up' /\ Active(poll) =>
       \/ poll'.session = poll.session
       \/ Head(mailbox).type = "ClearPoll"]_vars

\* A configuration change does not alter how long the results of a poll that
\* collects votes will be shown (while the process lives).
ResultsDurationKept ==
  [][up /\ up' /\ Active(poll) /\ Active(poll') => pollResultsSecs' = pollResultsSecs]_vars

\* The life of a poll: active, stopped, gone, and never a step back.
PollOnlyMovesForward == []StoppedPollIsFinal /\ ActivePollKept /\ ResultsDurationKept

\* The results of a stopped poll leave the database in the end, also when the
\* process is restarted while they are shown.  A failed statement can leave
\* them behind, and so can a start-up during which they run out: it shows nothing
\* and arms no timer (chat.rs:1457).
ResultsEventuallyCleared ==
  pollRow.stopped ~> (~pollRow.stopped \/ failures > 0 \/ (up /\ poll = NoPoll))
============================================================================
