--------------------------- MODULE ChatTimersProofs ---------------------------
(***************************************************************************)
(* Theorems about ChatTimers for every set of authors, options, ballots    *)
(* and durations, every size of the mailbox and every number of failures   *)
(* and crashes.                                                            *)
(***************************************************************************)
EXTENDS ChatTimers, FiniteSetTheorems, SequenceTheorems, TLAPS

----------------------------------------------------------------------------
(* The inductive invariant *)

\* Nothing but the tables survives a crash.
DownIsEmpty == ~up => mailbox = << >> /\ timers = {}

\* Numbers of sessions are given away one after the other, so whatever is left
\* over of an earlier session has another number than the next one.
FocusNumbered ==
  /\ pomodoro.session <= sessions /\ pomodoroRow.session <= sessions
  /\ \A i \in 1..Len(mailbox) : mailbox[i].type = "ExpirePomodoro" => mailbox[i].session <= sessions

PollsNumbered ==
  /\ final.session <= sessions
  /\ \A p \in {poll, pollRow} : p # NoPoll => p.session \in 1..sessions

\* While the process is down the tally to be restored is that of the votes.
RowMatchesVotes == ~up /\ ~torn /\ pollRow # NoPoll => pollRow.tally = Counted

\* Only those who have sent a ballot have voted.
FinitelyManyVotes == IsFiniteSet({v \in Voter : votes[v] # 0})

FocusInv == DownIsEmpty /\ FocusNumbered /\ FocusDurable /\ OwnExpiryIsLate

PollInv == PollsNumbered /\ RowMatchesVotes /\ FinitelyManyVotes /\ TallyMatchesVotes /\ StoppedPollIsFinal

IInv == TypeOK /\ FocusInv /\ PollInv

----------------------------------------------------------------------------
(* Types *)

LEMMA LowerNat == \A n \in Nat : Lower(n) \in Nat /\ Lower(n) <= n /\ (n = 0 => Lower(n) = 0)
BY DEF Lower

LEMMA Nothing == NoPomodoro \in Pomodoro /\ NoPoll \in Poll
BY DEF NoPomodoro, Pomodoro, NoPoll, Poll

\* What a command carries.
LEMMA CommandFields ==
  ASSUME NEW c \in Command
  PROVE  /\ c.type = "StartPomodoro" => c.secs \in Durations \cup {0}
         /\ c.type = "StartPoll" => c.secs \in ResultsSecs \cup {0}
         /\ c.type = "ApplyConfig" => c.secs \in ResultsSecs
         /\ c.type = "Enqueue" => c.ballot \in Ballot
         /\ c.type \in {"ExpirePomodoro", "ExpirePollResults"} => c.session \in Nat
BY DEF Command

LEMMA Commands ==
  /\ \A secs \in Durations \cup {0} : [type |-> "StartPomodoro", secs |-> secs] \in Command
  /\ \A secs \in ResultsSecs \cup {0} : [type |-> "StartPoll", secs |-> secs] \in Command
  /\ \A secs \in ResultsSecs : [type |-> "ApplyConfig", secs |-> secs] \in Command
  /\ \A b \in Ballot : [type |-> "Enqueue", ballot |-> b] \in Command
  /\ \A t \in {"StopPomodoro", "StopPoll", "ClearPoll"} : [type |-> t] \in Command
  /\ \A t \in Task : [type |-> ExpireType[t.kind], session |-> t.session] \in Command
BY DEF Command, Task, ExpireType

\* The first command, and what is left behind it.
LEMMA MailboxHead ==
  ASSUME mailbox \in Seq(Command), mailbox # << >>
  PROVE  /\ Head(mailbox) \in Command /\ Head(mailbox) = mailbox[1]
         /\ Tail(mailbox) \in Seq(Command)
         /\ Len(Tail(mailbox)) = Len(mailbox) - 1 /\ Len(mailbox) >= 1
         /\ \A i \in 1..Len(Tail(mailbox)) : Tail(mailbox)[i] = mailbox[i + 1]
BY HeadTailProperties

LEMMA MailboxAppend ==
  ASSUME mailbox \in Seq(Command), NEW c \in Command, mailbox' = Append(mailbox, c)
  PROVE  /\ mailbox' \in Seq(Command) /\ Len(mailbox') = Len(mailbox) + 1
         /\ \A i \in 1..Len(mailbox) : mailbox'[i] = mailbox[i]
         /\ mailbox'[Len(mailbox) + 1] = c
BY AppendProperties

LEMMA ArmedTasks ==
  ASSUME NEW tasks \in SUBSET Task, NEW kind \in {"pomodoro", "poll"}, NEW n \in Nat, NEW left \in Nat
  PROVE  Abort(tasks, kind) \subseteq Task /\ Arm(tasks, kind, n, left) \subseteq Task
BY DEF Abort, Arm, Task

LEMMA RecountType ==
  ASSUME NEW p \in Poll, NEW previous, NEW option \in Options
  PROVE  /\ Recount(p, previous, option) \in Poll
         /\ Recount(p, previous, option).session = p.session
         /\ Recount(p, previous, option).stopped = p.stopped
         /\ Recount(p, previous, option).left = p.left
<1> DEFINE less == [o \in Options |-> IF o = previous THEN Lower(p.tally[o]) ELSE p.tally[o]]
<1>1. less \in [Options -> Nat]
  BY LowerNat DEF Poll
<1>2. [less EXCEPT ![option] = @ + 1] \in [Options -> Nat]
  BY <1>1
<1>3. Recount(p, previous, option) = [p EXCEPT !.tally = [less EXCEPT ![option] = @ + 1]]
  BY DEF Recount
<1> HIDE DEF less
<1> QED BY <1>2, <1>3 DEF Poll

LEMMA SendType ==
  ASSUME TypeOK, NEW c \in Command, Send(c)
  PROVE  TypeOK'
BY MailboxAppend DEF TypeOK, Send, durable, history

LEMMA TickType ==
  ASSUME TypeOK, Tick
  PROVE  TypeOK'
<1>1. pomodoroRow' \in Pomodoro /\ pomodoro' \in Pomodoro
  BY LowerNat DEF TypeOK, Tick, Pomodoro
<1>2. pollRow' \in Poll /\ poll' \in Poll
  BY LowerNat DEF TypeOK, Tick, Poll
<1>3. timers' \subseteq Task
  <2>1. \A t \in Task : [t EXCEPT !.left = Lower(@)] \in Task
    BY LowerNat DEF Task
  <2> QED BY <2>1 DEF TypeOK, Tick
<1> QED BY <1>1, <1>2, <1>3 DEF TypeOK, Tick, history

LEMMA TimerFiresType ==
  ASSUME TypeOK, NEW t \in timers, TimerFires(t)
  PROVE  TypeOK'
<1>1. [type |-> ExpireType[t.kind], session |-> t.session] \in Command
  BY Commands DEF TypeOK
<1> QED BY <1>1, MailboxAppend DEF TypeOK, TimerFires, durable, history

\* The variables a handler changes.
HandledType ==
  /\ pomodoroRow \in Pomodoro /\ pomodoro \in Pomodoro
  /\ pollRow \in Poll /\ poll \in Poll
  /\ votes \in [Voter -> Options \cup {0}] /\ seen \subseteq Ballot
  /\ pollResultsSecs \in ResultsSecs
  /\ timers \subseteq Task
  /\ sessions \in Nat /\ failures \in Nat
  /\ torn \in BOOLEAN /\ final \in [session : Nat, tally : [Options -> Nat]]

LEMMA FailuresType == TypeOK /\ (Fails \/ Works) => failures' \in Nat
BY DEF TypeOK, Fails, Works

LEMMA StartPomodoroType ==
  ASSUME TypeOK, NEW c \in Command, c.type = "StartPomodoro", StartPomodoro(c)
  PROVE  HandledType'
<1> DEFINE p == [session |-> sessions + 1, left |-> c.secs]
<1>1. c.secs \in Nat
  BY DurationsAssumption DEF StartPomodoro, ValidPomodoro
<1>2. p \in Pomodoro
  BY <1>1 DEF TypeOK, Pomodoro
<1>3. Arm(Abort(timers, "pomodoro"), "pomodoro", p.session, c.secs) \subseteq Task
  BY <1>1, <1>2, ArmedTasks DEF TypeOK, Pomodoro
<1> QED BY <1>2, <1>3, FailuresType
        DEF StartPomodoro, SavePersistedPomodoro, HandledType, TypeOK, focus, polling, Pomodoro

LEMMA ClearPomodoroType ==
  ASSUME TypeOK, ClearPomodoro
  PROVE  HandledType'
BY Nothing, ArmedTasks, FailuresType
   DEF ClearPomodoro, ClearPersistedPomodoro, HandledType, TypeOK, focus, polling, history

LEMMA StartPollType ==
  ASSUME TypeOK, NEW c \in Command, c.type = "StartPoll", StartPoll(c), ActivePoll = NoPoll, ValidPoll(c.secs)
  PROVE  HandledType'
<1> DEFINE p == [NoPoll EXCEPT !.session = sessions + 1]
<1>1. p \in Poll /\ p.session \in Nat /\ c.secs \in ResultsSecs
  <2>1. NoPoll \in Poll /\ sessions + 1 \in Nat
    BY Nothing DEF TypeOK
  <2> QED BY <2>1 DEF Poll, ValidPoll
<1>2. NoVotes \in [Voter -> Options \cup {0}]
  BY DEF NoVotes
<1> HIDE DEF p
<1>3. /\ votes' \in {votes, NoVotes} /\ poll' \in {poll, p} /\ pollRow' \in {pollRow, p}
      /\ sessions' \in {sessions, p.session} /\ torn' \in {torn, FALSE}
      /\ pollResultsSecs' = c.secs /\ (Fails \/ Works) /\ UNCHANGED <<focus, seen, timers, final>>
  BY DEF StartPoll, SavePersistedPoll, ClearPollVotes, p
<1> QED BY <1>1, <1>2, <1>3, FailuresType DEF HandledType, TypeOK, focus

LEMMA StopPollType ==
  ASSUME TypeOK, StopPoll, Active(poll)
  PROVE  HandledType'
<1> DEFINE p == [poll EXCEPT !.stopped = TRUE, !.left = pollResultsSecs]
<1>1. pollResultsSecs \in Nat
  BY ResultsSecsAssumption DEF TypeOK
<1>2. p \in Poll
  BY <1>1 DEF TypeOK, Poll
<1>3. p.session \in Nat /\ p.left \in Nat /\ p.tally \in [Options -> Nat]
  BY <1>2 DEF Poll
<1>4. Arm(Abort(timers, "poll"), "poll", p.session, p.left) \subseteq Task
  BY <1>3, ArmedTasks DEF TypeOK
<1> HIDE DEF p
<1>5. /\ poll' = p /\ pollRow' \in {pollRow, p} /\ (Fails \/ Works)
      /\ timers' \in {timers, Arm(Abort(timers, "poll"), "poll", p.session, p.left)}
      /\ final' \in {final, [session |-> p.session, tally |-> p.tally]}
      /\ UNCHANGED <<votes, pollResultsSecs, focus, seen, sessions, torn>>
  BY DEF StopPoll, SavePersistedPoll, p
<1> QED BY <1>2, <1>3, <1>4, <1>5, FailuresType DEF HandledType, TypeOK, focus

LEMMA ClearPollType ==
  ASSUME TypeOK, ClearPoll
  PROVE  HandledType'
<1>1. NoVotes \in [Voter -> Options \cup {0}]
  BY DEF NoVotes
<1> QED BY <1>1, Nothing, ArmedTasks, FailuresType
        DEF ClearPoll, ClearPersistedPoll, ClearPollVotes, HandledType, TypeOK, focus

LEMMA IgnoreType ==
  ASSUME TypeOK, Ignore
  PROVE  HandledType'
BY FailuresType DEF Ignore, HandledType, TypeOK, focus, polling, history

LEMMA EnqueueType ==
  ASSUME TypeOK, NEW b \in Ballot, Enqueue(b)
  PROVE  HandledType'
<1>1. CASE Vote(b)
  <2>1. b.voter \in Voter /\ b.option \in Options
    BY <1>1, BallotAssumption DEF Vote, ParsedVote
  <2>2. Recount(poll, votes[b.voter], b.option) \in Poll
    BY <2>1, RecountType DEF TypeOK
  <2> QED BY <1>1, <2>1, <2>2, FailuresType
          DEF Vote, SavePersistedPoll, HandledType, TypeOK, focus, history
<1>2. CASE IntoInbox(b)
  BY <1>2, FailuresType DEF IntoInbox, HandledType, TypeOK, focus, polling, history
<1>3. CASE Fails /\ UNCHANGED <<focus, polling, seen, timers, history>>
  BY <1>3, FailuresType DEF HandledType, TypeOK, focus, polling, history
<1> QED BY <1>1, <1>2, <1>3, IgnoreType DEF Enqueue

LEMMA HandleType ==
  ASSUME TypeOK, NEW c \in Command, Handle(c)
  PROVE  HandledType'
<1>1. CASE c.type = "StartPomodoro" /\ StartPomodoro(c)
  BY <1>1, StartPomodoroType
<1>2. CASE ClearPomodoro
  BY <1>2, ClearPomodoroType
<1>3. CASE c.type = "StartPoll" /\ StartPoll(c)
  BY <1>3, StartPollType, IgnoreType DEF StartPoll
<1>4. CASE StopPoll
  BY <1>4, StopPollType, IgnoreType DEF StopPoll
<1>5. CASE ClearPoll
  BY <1>5, ClearPollType
<1>6. CASE c.type = "Enqueue" /\ Enqueue(c.ballot)
  BY <1>6, CommandFields, EnqueueType
<1>7. CASE c.type = "ApplyConfig" /\ ApplyConfig(c)
  <2>1. c.secs \in ResultsSecs
    BY <1>7, CommandFields
  <2> QED BY <1>7, <2>1, FailuresType DEF ApplyConfig, HandledType, TypeOK, focus, history
<1> QED BY <1>1, <1>2, <1>3, <1>4, <1>5, <1>6, <1>7, IgnoreType
        DEF Handle, ExpirePomodoro, ExpirePollResults

LEMMA ReceiveType ==
  ASSUME TypeOK, Receive
  PROVE  TypeOK'
<1>1. Head(mailbox) \in Command /\ mailbox' \in Seq(Command)
  BY MailboxHead DEF TypeOK, Receive
<1>2. HandledType'
  BY <1>1, HandleType DEF Receive
<1> QED BY <1>1, <1>2 DEF HandledType, TypeOK, Receive

\* The row after a start-up that shows p: p, or what is left of a row that ran out.
RowOf(row, rowAfter, p, nothing) ==
  rowAfter = p \/ (p = nothing /\ rowAfter = [row EXCEPT !.left = 0] /\ row # nothing)

\* What start-up restores.
Restored(p, q) ==
  /\ p \in {NoPomodoro, pomodoroRow} /\ q \in {NoPoll, pollRow}
  /\ ~up /\ up'
  /\ pomodoro' = p /\ RowOf(pomodoroRow, pomodoroRow', p, NoPomodoro)
  /\ poll' = q /\ RowOf(pollRow, pollRow', q, NoPoll)
  /\ votes' \in {votes, NoVotes} /\ (q = pollRow => votes' = votes)
  /\ timers' = Rearm(p, q)
  /\ pollResultsSecs' = savedSecs
  /\ UNCHANGED <<seen, savedSecs, mailbox, sent, failures, crashes, history>>

LEMMA StartRestores ==
  ASSUME Start
  PROVE  \E p, q : Restored(p, q)
<1>1. LoadPersistedPomodoro \in {NoPomodoro, pomodoroRow} /\ LoadPersistedPoll \in {NoPoll, pollRow}
  BY DEF LoadPersistedPomodoro, LoadPersistedPoll
<1>2. PICK p \in Restorable(LoadPersistedPomodoro, NoPomodoro),
           q \in Restorable(LoadPersistedPoll, NoPoll) :
        /\ ~up /\ up' = TRUE
        /\ pomodoroRow' = p.row /\ pomodoro' = p.shown
        /\ pollRow' = q.row /\ poll' = q.shown
        /\ votes' = IF LoadPersistedPoll = NoPoll /\ pollRow # NoPoll THEN NoVotes ELSE votes
        /\ timers' = Rearm(p.shown, q.shown)
        /\ pollResultsSecs' = savedSecs
        /\ UNCHANGED <<seen, savedSecs, mailbox, sent, failures, crashes, history>>
  BY DEF Start
<1>3. NoPomodoro.left = 0 /\ NoPoll.left = 0
  BY DEF NoPomodoro, NoPoll
<1>4. p.shown \in {NoPomodoro, pomodoroRow} /\ RowOf(pomodoroRow, p.row, p.shown, NoPomodoro)
  BY <1>1, <1>3 DEF Restorable, RowOf
<1>5. q.shown \in {NoPoll, pollRow} /\ RowOf(pollRow, q.row, q.shown, NoPoll)
  BY <1>1, <1>3 DEF Restorable, RowOf
<1>6. q.shown = pollRow => votes' = votes
  BY <1>1, <1>2, <1>3 DEF Restorable
<1>7. Restored(p.shown, q.shown)
  BY <1>2, <1>4, <1>5, <1>6 DEF Restored
<1> QED BY <1>7

LEMMA RearmType ==
  ASSUME NEW p \in Pomodoro, NEW q \in Poll
  PROVE  Rearm(p, q) \subseteq Task
BY DEF Rearm, Arm, Pomodoro, Poll, Task

LEMMA TypeStep == TypeOK /\ [Next]_vars => TypeOK'
<1> SUFFICES ASSUME TypeOK, [Next]_vars PROVE TypeOK'
  OBVIOUS
<1>1. CASE OperateFocus \/ OperatePoll \/ Deliver
  BY <1>1, Commands, SendType DEF OperateFocus, OperatePoll, Deliver
<1>2. ASSUME NEW secs \in ResultsSecs, SaveConfig(secs) PROVE TypeOK'
  BY <1>2, Commands, MailboxAppend DEF TypeOK, SaveConfig, history
<1>3. CASE Fire
  BY <1>3, TimerFiresType DEF Fire
<1>4. CASE Crash
  <2>1. torn' \in BOOLEAN
    BY <1>4 DEF Crash
  <2>2. mailbox' \in Seq(Command)
    BY <1>4 DEF Crash
  <2>3. timers' \subseteq Task /\ up' \in BOOLEAN
    BY <1>4 DEF Crash
  <2>4. crashes' \in Nat
    BY <1>4 DEF TypeOK, Crash
  <2> QED BY <1>4, <2>1, <2>2, <2>3, <2>4, Nothing DEF TypeOK, Crash, durable
<1>5. CASE Start
  <2>1. PICK p, q : Restored(p, q)
    BY <1>5, StartRestores
  <2>2. p \in Pomodoro /\ q \in Poll /\ NoVotes \in [Voter -> Options \cup {0}]
    BY <2>1, Nothing DEF Restored, TypeOK, NoVotes
  <2>3. pomodoroRow' \in Pomodoro
    BY <2>1, <2>2 DEF Restored, RowOf, TypeOK, Pomodoro
  <2>4. pollRow' \in Poll
    <3>1. pollRow \in Poll /\ RowOf(pollRow, pollRow', q, NoPoll)
      BY <2>1 DEF Restored, TypeOK
    <3>2. [pollRow EXCEPT !.left = 0] \in Poll
      BY <3>1 DEF Poll
    <3> QED BY <2>2, <3>1, <3>2 DEF RowOf
  <2> QED BY <2>1, <2>2, <2>3, <2>4, RearmType DEF Restored, TypeOK, history
<1>6. CASE UNCHANGED vars
  BY <1>6 DEF vars, durable, history, TypeOK
<1> QED BY <1>1, <1>2, <1>3, <1>4, <1>5, <1>6, TickType, ReceiveType DEF Next

----------------------------------------------------------------------------
(* Focus mode *)

\* A command enters the mailbox.
LEMMA SentKeepsFocus ==
  ASSUME TypeOK, FocusInv, up, NEW c \in Command, mailbox' = Append(mailbox, c),
         c.type = "ExpirePomodoro" =>
           c.session <= sessions /\ (c.session = pomodoro.session => Expired(pomodoro)),
         timers' \subseteq timers, UNCHANGED <<focus, sessions, up>>
  PROVE  FocusInv'
<1>1. /\ Len(mailbox') = Len(mailbox) + 1 /\ mailbox'[Len(mailbox) + 1] = c
      /\ \A i \in 1..Len(mailbox) : mailbox'[i] = mailbox[i]
      /\ Len(mailbox) \in Nat
  BY MailboxAppend DEF TypeOK
<1>2. \A i \in 1..Len(mailbox') : mailbox'[i] = c \/ (i \in 1..Len(mailbox) /\ mailbox'[i] = mailbox[i])
  BY <1>1
<1>3. FocusNumbered' /\ OwnExpiryIsLate'
  BY <1>2 DEF FocusInv, FocusNumbered, OwnExpiryIsLate, Expired, focus
<1> QED BY <1>3 DEF FocusInv, DownIsEmpty, FocusDurable, focus

LEMMA TimerFiresFocus ==
  ASSUME TypeOK, FocusInv, NEW t \in timers, TimerFires(t)
  PROVE  FocusInv'
<1> DEFINE c == [type |-> ExpireType[t.kind], session |-> t.session]
<1>1. t \in Task /\ c \in Command
  BY Commands DEF TypeOK
<1>2. c.type = "ExpirePomodoro" => t.kind = "pomodoro"
  BY <1>1 DEF ExpireType, Task
<1>3. t.kind = "pomodoro" => t.session = pomodoro.session /\ pomodoro.left = 0 /\ t.session <= sessions
  BY DEF TimerFires, FocusInv, OwnExpiryIsLate, FocusNumbered
<1> QED BY <1>1, <1>2, <1>3, SentKeepsFocus DEF TimerFires, Mailable, Expired, focus, durable, history

\* The actor takes a command and leaves focus mode alone.
LEMMA ReceivedKeepsFocus ==
  ASSUME TypeOK, FocusInv, mailbox # << >>, mailbox' = Tail(mailbox), up, UNCHANGED <<focus, up>>,
         sessions' \in Nat, sessions' >= sessions,
         \A t \in timers' : t.kind = "pomodoro" => t \in timers
  PROVE  FocusInv'
<1>1. \A i \in 1..Len(mailbox') : i + 1 \in 1..Len(mailbox) /\ mailbox'[i] = mailbox[i + 1]
  BY MailboxHead DEF TypeOK
<1>2. /\ pomodoro.session \in Nat /\ pomodoroRow.session \in Nat /\ sessions \in Nat
      /\ \A i \in 1..Len(mailbox) : mailbox[i].type = "ExpirePomodoro" => mailbox[i].session \in Nat
  BY CommandFields DEF TypeOK, Pomodoro
<1>3. FocusNumbered' /\ OwnExpiryIsLate'
  BY <1>1, <1>2 DEF FocusInv, FocusNumbered, OwnExpiryIsLate, Expired, focus
<1> QED BY <1>3 DEF FocusInv, DownIsEmpty, FocusDurable, focus

\* The next session meets timers and commands of earlier ones only.
LEMMA StartPomodoroFocus ==
  ASSUME TypeOK, FocusInv, mailbox # << >>, mailbox' = Tail(mailbox), up, UNCHANGED up,
         NEW c \in Command, c.type = "StartPomodoro", StartPomodoro(c)
  PROVE  FocusInv'
<1>1. CASE UNCHANGED <<focus, timers, sessions>>
  BY <1>1, ReceivedKeepsFocus DEF TypeOK
<1>2. CASE /\ pomodoroRow' = [session |-> sessions + 1, left |-> c.secs]
           /\ pomodoro' = [session |-> sessions + 1, left |-> c.secs]
           /\ timers' = Arm(Abort(timers, "pomodoro"), "pomodoro", sessions + 1, c.secs)
           /\ sessions' = sessions + 1
  <2>1. \A i \in 1..Len(mailbox') : i + 1 \in 1..Len(mailbox) /\ mailbox'[i] = mailbox[i + 1]
    BY MailboxHead DEF TypeOK
  <2>2. sessions \in Nat
    BY DEF TypeOK
  <2>3. \A i \in 1..Len(mailbox) : mailbox[i].type = "ExpirePomodoro" =>
          mailbox[i].session \in Nat /\ mailbox[i].session <= sessions
    BY CommandFields DEF TypeOK, FocusInv, FocusNumbered
  <2>4. FocusNumbered'
    BY <1>2, <2>1, <2>2, <2>3 DEF FocusNumbered
  <2>5. \A t \in timers' : t.kind = "pomodoro" => t.session = pomodoro'.session /\ t.left = pomodoro'.left
    BY <1>2 DEF Arm, Abort
  <2>6. \A i \in 1..Len(mailbox') : mailbox'[i].type = "ExpirePomodoro" => mailbox'[i].session # pomodoro'.session
    BY <1>2, <2>1, <2>2, <2>3
  <2>7. OwnExpiryIsLate'
    BY <2>5, <2>6 DEF OwnExpiryIsLate
  <2> QED BY <1>2, <2>4, <2>7 DEF FocusInv, DownIsEmpty, FocusDurable
<1> QED BY <1>1, <1>2 DEF StartPomodoro, SavePersistedPomodoro

LEMMA ClearPomodoroFocus ==
  ASSUME TypeOK, FocusInv, mailbox # << >>, mailbox' = Tail(mailbox), up, UNCHANGED up, ClearPomodoro
  PROVE  FocusInv'
<1>1. timers' \subseteq timers /\ (\A t \in timers' : t.kind # "pomodoro") /\ sessions' = sessions
  BY DEF ClearPomodoro, Abort, history
<1>2. CASE UNCHANGED focus
  BY <1>1, <1>2, ReceivedKeepsFocus DEF TypeOK
<1>3. CASE pomodoroRow' = NoPomodoro /\ pomodoro' = NoPomodoro
  <2>1. \A i \in 1..Len(mailbox') : i + 1 \in 1..Len(mailbox) /\ mailbox'[i] = mailbox[i + 1]
    BY MailboxHead DEF TypeOK
  <2>2. FocusNumbered'
    BY <1>1, <1>3, <2>1 DEF FocusInv, FocusNumbered, NoPomodoro, TypeOK
  <2>3. OwnExpiryIsLate'
    BY <1>1, <1>3 DEF OwnExpiryIsLate, Expired, NoPomodoro
  <2> QED BY <1>3, <2>2, <2>3 DEF FocusInv, DownIsEmpty, FocusDurable
<1> QED BY <1>2, <1>3 DEF ClearPomodoro, ClearPersistedPomodoro

LEMMA ReceiveFocus ==
  ASSUME TypeOK, FocusInv, Receive
  PROVE  FocusInv'
<1> DEFINE c == Head(mailbox)
<1>0. /\ mailbox # << >> /\ mailbox' = Tail(mailbox) /\ up /\ UNCHANGED up /\ c \in Command /\ Handle(c)
      /\ sessions \in Nat
  BY MailboxHead DEF TypeOK, Receive
<1> HIDE DEF c
<1>1. CASE c.type = "StartPomodoro" /\ StartPomodoro(c)
  BY <1>0, <1>1, StartPomodoroFocus
<1>2. CASE ClearPomodoro
  BY <1>0, <1>2, ClearPomodoroFocus
<1>3. CASE StartPoll(c) /\ ~Ignore
  <2>1. UNCHANGED <<focus, timers>> /\ sessions' \in {sessions, [NoPoll EXCEPT !.session = sessions + 1].session}
    BY <1>3 DEF StartPoll
  <2>2. sessions' \in {sessions, sessions + 1}
    BY <2>1 DEF NoPoll
  <2> QED BY <1>0, <2>1, <2>2, ReceivedKeepsFocus
<1>4. CASE StopPoll /\ ~Ignore
  <2>1. UNCHANGED <<focus, sessions>>
    BY <1>4 DEF StopPoll
  <2>2. \A t \in timers' : t.kind = "pomodoro" => t \in timers
    BY <1>4 DEF StopPoll, Arm, Abort
  <2> QED BY <1>0, <2>1, <2>2, ReceivedKeepsFocus
<1>5. CASE ClearPoll
  <2>1. UNCHANGED <<focus, sessions>> /\ timers' \subseteq timers
    BY <1>5 DEF ClearPoll, Abort
  <2> QED BY <1>0, <2>1, ReceivedKeepsFocus
<1>6. CASE UNCHANGED <<focus, timers, history>>
  BY <1>0, <1>6, ReceivedKeepsFocus DEF history
<1> QED BY <1>0, <1>1, <1>2, <1>3, <1>4, <1>5, <1>6
        DEF Handle, Ignore, ExpirePomodoro, ExpirePollResults, Enqueue, Vote, IntoInbox, ApplyConfig

LEMMA TickFocus ==
  ASSUME TypeOK, FocusInv, Tick
  PROVE  FocusInv'
<1>1. /\ pomodoro \in Pomodoro /\ pomodoroRow \in Pomodoro /\ timers \subseteq Task
      /\ pomodoro' = [pomodoro EXCEPT !.left = Lower(@)]
      /\ pomodoroRow' = [pomodoroRow EXCEPT !.left = Lower(@)]
      /\ timers' = {[t EXCEPT !.left = Lower(@)] : t \in timers}
      /\ UNCHANGED <<mailbox, up, sessions>>
  BY DEF TypeOK, Tick, history
<1>2. /\ pomodoro'.session = pomodoro.session /\ pomodoro'.left = Lower(pomodoro.left)
      /\ pomodoroRow'.session = pomodoroRow.session
      /\ Expired(pomodoro) => Expired(pomodoro)'
  BY <1>1, LowerNat DEF Pomodoro, Expired
<1>3. \A u \in timers' : \E t \in timers :
        u.kind = t.kind /\ u.session = t.session /\ u.left = Lower(t.left)
  BY <1>1 DEF Task
<1>4. FocusNumbered'
  BY <1>1, <1>2 DEF FocusInv, FocusNumbered
<1>5. OwnExpiryIsLate'
  BY <1>1, <1>2, <1>3 DEF FocusInv, OwnExpiryIsLate
<1>6. /\ pomodoro = pomodoroRow => pomodoro' = pomodoroRow'
      /\ pomodoro = NoPomodoro => pomodoro' = NoPomodoro
      /\ Expired(pomodoroRow) => Expired(pomodoroRow)'
  BY <1>1, LowerNat DEF Pomodoro, Expired, NoPomodoro, Lower
<1>7. DownIsEmpty' /\ FocusDurable'
  BY <1>1, <1>6 DEF FocusInv, DownIsEmpty, FocusDurable
<1> QED BY <1>4, <1>5, <1>7 DEF FocusInv

LEMMA StartFocus ==
  ASSUME TypeOK, FocusInv, Start
  PROVE  FocusInv'
<1>1. PICK p, q : Restored(p, q)
  BY StartRestores
<1>2. up' /\ mailbox' = << >> /\ pomodoro' = p /\ sessions' = sessions
  BY <1>1 DEF Restored, FocusInv, DownIsEmpty, history
<1>3. p.session <= sessions /\ pomodoroRow'.session <= sessions
  BY <1>1 DEF Restored, RowOf, FocusInv, FocusNumbered, NoPomodoro, TypeOK, Pomodoro
<1>4. pomodoroRow' = p \/ (p = NoPomodoro /\ Expired(pomodoroRow)')
  BY <1>1 DEF Restored, RowOf, Expired, TypeOK, Pomodoro
<1>5. \A t \in timers' : t.kind = "pomodoro" => t.session = p.session /\ t.left = p.left
  BY <1>1 DEF Restored, Rearm, Arm
<1> QED BY <1>2, <1>3, <1>4, <1>5 DEF FocusInv, DownIsEmpty, FocusNumbered, FocusDurable, OwnExpiryIsLate

LEMMA FocusStep == TypeOK /\ FocusInv /\ [Next]_vars => FocusInv'
<1> SUFFICES ASSUME TypeOK, FocusInv, [Next]_vars PROVE FocusInv'
  OBVIOUS
<1>1. CASE OperateFocus \/ OperatePoll \/ Deliver
  <2>1. PICK c \in Command : c.type # "ExpirePomodoro" /\ Send(c)
    BY <1>1, Commands DEF OperateFocus, OperatePoll, Deliver
  <2> QED BY <2>1, SentKeepsFocus DEF Send, Mailable, durable, focus, history
<1>2. ASSUME NEW secs \in ResultsSecs, SaveConfig(secs) PROVE FocusInv'
  <2>1. [type |-> "ApplyConfig", secs |-> secs] \in Command
    BY Commands
  <2> QED BY <1>2, <2>1, SentKeepsFocus DEF SaveConfig, Mailable, focus, history
<1>3. CASE Fire
  BY <1>3, TimerFiresFocus DEF Fire
<1>4. CASE Crash
  <2>1. /\ ~up' /\ mailbox' = << >> /\ timers' = {} /\ pomodoro' = NoPomodoro
        /\ UNCHANGED <<pomodoroRow, sessions>>
    BY <1>4 DEF Crash, durable
  <2> QED BY <2>1 DEF FocusInv, DownIsEmpty, FocusNumbered, FocusDurable, OwnExpiryIsLate, Expired,
                      NoPomodoro, TypeOK
<1>5. CASE UNCHANGED vars
  BY <1>5 DEF vars, durable, history, FocusInv, DownIsEmpty, FocusNumbered, FocusDurable,
              OwnExpiryIsLate, Expired
<1> QED BY <1>1, <1>2, <1>3, <1>4, <1>5, TickFocus, ReceiveFocus, StartFocus DEF Next

----------------------------------------------------------------------------
(* The votes and what they add up to *)

VotersOf(option) == {v \in Voter : votes[v] = option}

LEMMA VotersFinite ==
  ASSUME TypeOK, FinitelyManyVotes, NEW option \in Options
  PROVE  IsFiniteSet(VotersOf(option)) /\ Counted[option] = Cardinality(VotersOf(option))
<1>1. option # 0
  BY OptionsAssumption
<1>2. VotersOf(option) \subseteq {v \in Voter : votes[v] # 0}
  BY <1>1 DEF VotersOf
<1> QED BY <1>2, FS_Subset DEF FinitelyManyVotes, Counted, VotersOf

LEMMA NobodyVoted ==
  ASSUME votes' = NoVotes
  PROVE  Counted' = NoPoll.tally /\ FinitelyManyVotes'
<1>1. \A o \in Options : {v \in Voter : votes'[v] = o} = {}
  BY OptionsAssumption DEF NoVotes
<1>2. \A o \in Options : Cardinality({v \in Voter : votes'[v] = o}) = 0
  BY <1>1, FS_EmptySet
<1>3. Counted' = NoPoll.tally
  BY <1>2 DEF Counted, NoPoll
<1>4. {v \in Voter : votes'[v] # 0} = {}
  BY DEF NoVotes
<1> QED BY <1>3, <1>4, FS_EmptySet DEF FinitelyManyVotes

\* A changed vote moves from one count to the other, a repeated one stays.
LEMMA RecountCounts ==
  ASSUME TypeOK, FinitelyManyVotes, NEW v \in Voter, NEW o \in Options,
         votes' = [votes EXCEPT ![v] = o]
  PROVE  /\ FinitelyManyVotes'
         /\ poll.tally = Counted => Recount(poll, votes[v], o).tally = Counted'
<1> DEFINE previous == votes[v]
           New(x)   == {w \in Voter : votes'[w] = x}
<1>1. votes \in [Voter -> Options \cup {0}] /\ o # 0 /\ 0 \notin Options
  BY OptionsAssumption DEF TypeOK
<1>2. FinitelyManyVotes'
  <2>1. {w \in Voter : votes'[w] # 0} = {w \in Voter : votes[w] # 0} \cup {v}
    BY <1>1
  <2> QED BY <2>1, FS_AddElement DEF FinitelyManyVotes
<1>3. ASSUME NEW x \in Options, x # o, x # previous
      PROVE  Cardinality(New(x)) = Counted[x]
  <2>1. New(x) = VotersOf(x)
    BY <1>1, <1>3 DEF VotersOf
  <2> QED BY <2>1, VotersFinite
<1>4. ASSUME previous \in Options, previous # o
      PROVE  Cardinality(New(previous)) = Lower(Counted[previous])
  <2>1. New(previous) = VotersOf(previous) \ {v} /\ v \in VotersOf(previous)
    BY <1>1, <1>4 DEF VotersOf
  <2>2. IsFiniteSet(VotersOf(previous)) /\ Counted[previous] = Cardinality(VotersOf(previous))
    BY <1>4, VotersFinite
  <2>3. Cardinality(New(previous)) = Cardinality(VotersOf(previous)) - 1
    BY <2>1, <2>2, FS_RemoveElement
  <2>4. Cardinality(New(previous)) \in Nat /\ Cardinality(VotersOf(previous)) \in Nat
    BY <2>1, <2>2, FS_CardinalityType, FS_RemoveElement
  <2> HIDE DEF New, previous
  <2> QED BY <2>2, <2>3, <2>4 DEF Lower
<1>5. CASE previous # o
  <2>1. Cardinality(New(o)) = Counted[o] + 1
    <3>1. New(o) = VotersOf(o) \cup {v} /\ v \notin VotersOf(o)
      BY <1>1, <1>5 DEF VotersOf
    <3> QED BY <3>1, VotersFinite, FS_AddElement
  <2>2. ASSUME poll.tally = Counted, NEW x \in Options
        PROVE  Recount(poll, previous, o).tally[x] = Cardinality(New(x))
    BY <1>3, <1>4, <1>5, <2>1, <2>2 DEF Recount, TypeOK, Poll
  <2>3. Recount(poll, previous, o) \in Poll
    BY RecountType DEF TypeOK
  <2> QED BY <1>2, <2>2, <2>3 DEF Counted, Poll
<1>6. CASE previous = o
  <2>1. votes' = votes
    BY <1>1, <1>6
  <2>2. Counted[o] \in Nat \ {0}
    <3>1. v \in VotersOf(o)
      BY <1>6 DEF VotersOf
    <3>2. IsFiniteSet(VotersOf(o)) /\ Counted[o] = Cardinality(VotersOf(o))
      BY VotersFinite
    <3>3. Cardinality(VotersOf(o)) \in Nat /\ Cardinality(VotersOf(o)) # 0
      BY <3>1, <3>2, FS_CardinalityType, FS_EmptySet
    <3> QED BY <3>2, <3>3
  <2>3. ASSUME poll.tally = Counted, NEW x \in Options
        PROVE  Recount(poll, previous, o).tally[x] = Counted[x]
    <3>1. Counted[x] \in Nat
      BY VotersFinite, FS_CardinalityType
    <3> QED BY <1>6, <2>2, <2>3, <3>1, SMTT(30) DEF Recount, TypeOK, Poll, Lower
  <2>4. Recount(poll, previous, o) \in Poll
    BY RecountType DEF TypeOK
  <2>5. Counted' = Counted
    BY <2>1 DEF Counted
  <2> QED BY <1>2, <2>3, <2>4, <2>5 DEF Counted, Poll
<1> QED BY <1>5, <1>6

----------------------------------------------------------------------------
(* The poll *)

LEMMA PollKept ==
  ASSUME TypeOK, PollInv, UNCHANGED <<up, poll, pollRow, votes, torn, final>>,
         sessions' \in Nat, sessions' >= sessions
  PROVE  PollInv'
<1>1. PollsNumbered'
  BY DEF TypeOK, Poll, PollInv, PollsNumbered
<1>2. RowMatchesVotes' /\ FinitelyManyVotes' /\ TallyMatchesVotes'
  BY DEF PollInv, RowMatchesVotes, FinitelyManyVotes, TallyMatchesVotes, Counted, Active, ShowingResults
<1>3. StoppedPollIsFinal'
  BY DEF PollInv, StoppedPollIsFinal
<1> QED BY <1>1, <1>2, <1>3 DEF PollInv

\* The next poll has a number of its own and no votes.
LEMMA StartPollPoll ==
  ASSUME TypeOK, PollInv, up, UNCHANGED up, NEW c \in Command, StartPoll(c), ActivePoll = NoPoll,
         ValidPoll(c.secs)
  PROVE  PollInv'
<1> DEFINE p == [NoPoll EXCEPT !.session = sessions + 1]
<1>1. /\ p.session = sessions + 1 /\ ~p.stopped /\ p.tally = NoPoll.tally /\ sessions \in Nat
      /\ final.session \in Nat
  BY DEF NoPoll, TypeOK
<1>2. ~Active(poll) /\ ~ShowingResults(poll)
  BY DEF ActivePoll, Active, ShowingResults
<1> HIDE DEF p
<1>3. CASE votes' \in {votes, NoVotes} /\ UNCHANGED <<pollRow, poll, sessions, torn, final>>
  <2>1. PollsNumbered' /\ StoppedPollIsFinal'
    BY <1>3 DEF PollInv, PollsNumbered, StoppedPollIsFinal
  <2>2. TallyMatchesVotes' /\ RowMatchesVotes'
    BY <1>2, <1>3 DEF TallyMatchesVotes, RowMatchesVotes, Active, ShowingResults
  <2>3. FinitelyManyVotes'
    BY <1>3, NobodyVoted DEF PollInv, FinitelyManyVotes
  <2> QED BY <2>1, <2>2, <2>3 DEF PollInv
<1>4. CASE /\ votes' = NoVotes /\ pollRow' = p /\ poll' = p
           /\ sessions' = p.session /\ torn' = FALSE /\ final' = final
  <2>1. PollsNumbered'
    BY <1>1, <1>4 DEF PollInv, PollsNumbered
  <2>2. StoppedPollIsFinal'
    BY <1>1, <1>4 DEF PollInv, PollsNumbered, StoppedPollIsFinal
  <2>3. TallyMatchesVotes' /\ RowMatchesVotes' /\ FinitelyManyVotes'
    BY <1>1, <1>4, NobodyVoted DEF TallyMatchesVotes, RowMatchesVotes
  <2> QED BY <2>1, <2>2, <2>3 DEF PollInv
<1> QED BY <1>3, <1>4 DEF StartPoll, SavePersistedPoll, ClearPollVotes, p

LEMMA StopPollPoll ==
  ASSUME TypeOK, PollInv, up, UNCHANGED up, StopPoll, Active(poll)
  PROVE  PollInv'
<1> DEFINE p == [poll EXCEPT !.stopped = TRUE, !.left = pollResultsSecs]
<1>1. p.session = poll.session /\ p.tally = poll.tally /\ p.stopped
  BY DEF TypeOK, Poll
<1>2. poll # NoPoll /\ poll.session \in 1..sessions /\ poll.session # final.session
  BY DEF PollInv, PollsNumbered, StoppedPollIsFinal, Active
<1> HIDE DEF p
<1>3. /\ poll' = p /\ UNCHANGED <<votes, sessions, torn>>
      /\ \/ UNCHANGED <<pollRow, final>>
         \/ pollRow' = p /\ final' = [session |-> p.session, tally |-> p.tally]
  BY DEF StopPoll, SavePersistedPoll, p
<1>4. PollsNumbered'
  BY <1>1, <1>2, <1>3 DEF PollInv, PollsNumbered
<1>5. StoppedPollIsFinal'
  BY <1>1, <1>2, <1>3 DEF PollInv, StoppedPollIsFinal
<1>6. TallyMatchesVotes' /\ RowMatchesVotes' /\ FinitelyManyVotes'
  BY <1>1, <1>3 DEF PollInv, TallyMatchesVotes, RowMatchesVotes, FinitelyManyVotes, Counted
<1> QED BY <1>4, <1>5, <1>6 DEF PollInv

LEMMA ClearPollPoll ==
  ASSUME TypeOK, PollInv, up, UNCHANGED up, ClearPoll
  PROVE  PollInv'
<1>1. UNCHANGED <<sessions, final>> /\ sessions \in Nat
  BY DEF ClearPoll, TypeOK
<1>2. CASE UNCHANGED <<votes, pollRow, poll, torn>>
  BY <1>1, <1>2, PollKept
<1>3. CASE votes' = NoVotes /\ torn' = TRUE /\ UNCHANGED <<pollRow, poll>>
  BY <1>1, <1>3, NobodyVoted
     DEF PollInv, PollsNumbered, RowMatchesVotes, TallyMatchesVotes, StoppedPollIsFinal
<1>4. CASE votes' = NoVotes /\ pollRow' = NoPoll /\ poll' = NoPoll /\ torn' = FALSE
  BY <1>1, <1>4, NobodyVoted
     DEF PollInv, PollsNumbered, RowMatchesVotes, TallyMatchesVotes, StoppedPollIsFinal, Active,
         ShowingResults
<1> QED BY <1>2, <1>3, <1>4 DEF ClearPoll, ClearPersistedPoll, ClearPollVotes

LEMMA VotePoll ==
  ASSUME TypeOK, PollInv, up, UNCHANGED up, NEW b \in Ballot, Vote(b)
  PROVE  PollInv'
<1> DEFINE counted == Recount(poll, votes[b.voter], b.option)
<1>1. b.voter \in Voter /\ b.option \in Options
  BY BallotAssumption DEF Vote, ParsedVote
<1>2. counted.session = poll.session /\ counted.stopped = poll.stopped
  BY <1>1, RecountType DEF TypeOK
<1>3. /\ poll # NoPoll /\ ~poll.stopped /\ poll.session \in 1..sessions
      /\ poll.session # final.session
  BY DEF Vote, PollInv, PollsNumbered, StoppedPollIsFinal, Active
<1>4. /\ FinitelyManyVotes'
      /\ poll.tally = Counted => counted.tally = Counted'
  BY <1>1, RecountCounts DEF Vote, PollInv
<1> HIDE DEF counted
<1>5. poll' = counted /\ pollRow' \in {pollRow, counted} /\ UNCHANGED <<sessions, torn, final>>
  BY DEF Vote, SavePersistedPoll, history, counted
<1>6. PollsNumbered'
  BY <1>2, <1>3, <1>5 DEF PollInv, PollsNumbered
<1>7. StoppedPollIsFinal'
  BY <1>2, <1>3, <1>5 DEF PollInv, StoppedPollIsFinal
<1>8. TallyMatchesVotes' /\ RowMatchesVotes'
  BY <1>3, <1>4, <1>5 DEF PollInv, TallyMatchesVotes, RowMatchesVotes, Active
<1> QED BY <1>4, <1>6, <1>7, <1>8 DEF PollInv

LEMMA ReceivePoll ==
  ASSUME TypeOK, PollInv, Receive
  PROVE  PollInv'
<1> DEFINE c == Head(mailbox)
<1>0. up /\ UNCHANGED up /\ c \in Command /\ Handle(c) /\ sessions \in Nat
  BY MailboxHead DEF TypeOK, Receive
<1> HIDE DEF c
<1>1. CASE StartPoll(c) /\ ActivePoll = NoPoll /\ ValidPoll(c.secs)
  BY <1>0, <1>1, StartPollPoll
<1>2. CASE StopPoll /\ Active(poll)
  BY <1>0, <1>2, StopPollPoll
<1>3. CASE ClearPoll
  BY <1>0, <1>3, ClearPollPoll
<1>4. CASE c.type = "Enqueue" /\ Vote(c.ballot)
  BY <1>0, <1>4, CommandFields, VotePoll
<1>5. CASE StartPomodoro(c)
  <2>1. UNCHANGED <<polling, torn, final>> /\ sessions' \in {sessions, sessions + 1}
    BY <1>5 DEF StartPomodoro
  <2> QED BY <1>0, <2>1, PollKept DEF polling
<1>6. CASE UNCHANGED <<poll, pollRow, votes, history>>
  BY <1>0, <1>6, PollKept DEF history
<1> QED BY <1>0, <1>1, <1>2, <1>3, <1>4, <1>5, <1>6
        DEF Handle, Ignore, ClearPomodoro, ExpirePomodoro, StartPoll, StopPoll, ExpirePollResults,
            Enqueue, IntoInbox, ApplyConfig, polling

LEMMA TickPoll ==
  ASSUME TypeOK, PollInv, Tick
  PROVE  PollInv'
<1> DEFINE Ticked(p) == [p EXCEPT !.left = Lower(@)]
<1>1. /\ poll' = Ticked(poll) /\ pollRow' = Ticked(pollRow)
      /\ UNCHANGED <<up, votes, sessions, torn, final>>
  BY DEF Tick, history
<1>2. \A p \in Poll : /\ Ticked(p) \in Poll /\ Ticked(p).session = p.session
                      /\ Ticked(p).tally = p.tally /\ Ticked(p).stopped = p.stopped
                      /\ Ticked(p).left = Lower(p.left)
  BY LowerNat DEF Poll
<1>3. Ticked(NoPoll) = NoPoll
  <2>1. NoPoll \in Poll /\ NoPoll.left = 0 /\ Lower(0) = 0
    BY Nothing DEF NoPoll, Lower
  <2> QED BY <2>1 DEF Poll
<1>4. \A p \in Poll : /\ Ticked(p) # NoPoll => p # NoPoll
                      /\ Active(Ticked(p)) \/ ShowingResults(Ticked(p)) => Active(p) \/ ShowingResults(p)
  <2> SUFFICES ASSUME NEW p \in Poll
               PROVE  /\ Ticked(p) # NoPoll => p # NoPoll
                      /\ Active(Ticked(p)) \/ ShowingResults(Ticked(p)) => Active(p) \/ ShowingResults(p)
    OBVIOUS
  <2>1. Ticked(p).stopped = p.stopped /\ Ticked(p).left = Lower(p.left) /\ p.left \in Nat
    BY <1>2 DEF Poll
  <2>2. Ticked(p) # NoPoll => p # NoPoll
    BY <1>3
  <2> HIDE DEF Ticked
  <2>3. Ticked(p).left > 0 => p.left > 0
    BY <2>1 DEF Lower
  <2> QED BY <2>1, <2>2, <2>3 DEF Active, ShowingResults
<1>5. poll \in Poll /\ pollRow \in Poll
  BY DEF TypeOK
<1> HIDE DEF Ticked
<1>6. PollsNumbered' /\ StoppedPollIsFinal'
  BY <1>1, <1>2, <1>4, <1>5 DEF PollInv, PollsNumbered, StoppedPollIsFinal
<1>7. Counted' = Counted
  BY <1>1 DEF Counted
<1>8. RowMatchesVotes' /\ TallyMatchesVotes' /\ FinitelyManyVotes'
  BY <1>1, <1>2, <1>4, <1>5, <1>7 DEF PollInv, RowMatchesVotes, TallyMatchesVotes, FinitelyManyVotes
<1> QED BY <1>6, <1>8 DEF PollInv

LEMMA CrashPoll ==
  ASSUME TypeOK, PollInv, Crash
  PROVE  PollInv'
<1>1. /\ ~up' /\ poll' = NoPoll /\ torn' = (pollRow # NoPoll /\ pollRow.tally # Counted)
      /\ UNCHANGED <<pollRow, votes, sessions, final>>
  BY DEF Crash, durable
<1>2. PollsNumbered' /\ StoppedPollIsFinal'
  BY <1>1 DEF PollInv, PollsNumbered, StoppedPollIsFinal
<1>3. FinitelyManyVotes' /\ TallyMatchesVotes'
  BY <1>1 DEF PollInv, FinitelyManyVotes, TallyMatchesVotes
<1>4. Counted' = Counted
  BY <1>1 DEF Counted
<1>5. RowMatchesVotes'
  BY <1>1, <1>4 DEF RowMatchesVotes
<1> QED BY <1>2, <1>3, <1>5 DEF PollInv

LEMMA StartsPoll ==
  ASSUME TypeOK, PollInv, Start
  PROVE  PollInv'
<1>1. PICK p, q : Restored(p, q)
  BY StartRestores
<1>2. /\ q \in {NoPoll, pollRow} /\ ~up /\ up' /\ poll' = q
      /\ votes' \in {votes, NoVotes} /\ (q = pollRow => votes' = votes)
      /\ UNCHANGED <<sessions, torn, final>>
  BY <1>1 DEF Restored, history
<1>3. \/ pollRow' = q
      \/ /\ q = NoPoll /\ pollRow # NoPoll
         /\ pollRow'.session = pollRow.session /\ pollRow'.tally = pollRow.tally
         /\ pollRow'.stopped = pollRow.stopped
  BY <1>1 DEF Restored, RowOf, TypeOK, Poll
<1>4. PollsNumbered' /\ StoppedPollIsFinal'
  BY <1>2, <1>3 DEF PollInv, PollsNumbered, StoppedPollIsFinal
<1>5. RowMatchesVotes'
  BY <1>2 DEF RowMatchesVotes
<1>6. FinitelyManyVotes'
  BY <1>2, NobodyVoted DEF PollInv, FinitelyManyVotes
<1>7. TallyMatchesVotes'
  <2>1. votes' = votes => Counted' = Counted
    BY DEF Counted
  <2> QED BY <1>2, <2>1 DEF PollInv, RowMatchesVotes, TallyMatchesVotes, Active, ShowingResults
<1> QED BY <1>4, <1>5, <1>6, <1>7 DEF PollInv

LEMMA PollStep == TypeOK /\ PollInv /\ [Next]_vars => PollInv'
<1> SUFFICES ASSUME TypeOK, PollInv, [Next]_vars PROVE PollInv'
  OBVIOUS
<1>0. sessions \in Nat
  BY DEF TypeOK
<1>1. CASE UNCHANGED <<durable, up, poll, history>>
  BY <1>0, <1>1, PollKept DEF durable, history
<1>2. CASE \E secs \in ResultsSecs : SaveConfig(secs)
  BY <1>0, <1>2, PollKept DEF SaveConfig, history
<1> QED BY <1>1, <1>2, TickPoll, ReceivePoll, CrashPoll, StartsPoll
        DEF Next, OperateFocus, OperatePoll, Deliver, Send, Fire, TimerFires, vars

----------------------------------------------------------------------------
(* The theorems *)

LEMMA InitialInvariant == Init => IInv
<1> SUFFICES ASSUME Init PROVE IInv
  OBVIOUS
<1>1. NoVotes \in [Voter -> Options \cup {0}] /\ NoPoll.tally \in [Options -> Nat]
  BY DEF NoVotes, NoPoll
<1>2. mailbox \in Seq(Command)
  BY DEF Init
<1>3. TypeOK
  BY <1>1, <1>2, Nothing DEF Init, TypeOK
<1>4. FocusInv
  BY DEF Init, FocusInv, DownIsEmpty, FocusNumbered, FocusDurable, OwnExpiryIsLate, NoPomodoro
<1>5. FinitelyManyVotes
  <2>1. {v \in Voter : votes[v] # 0} = {}
    BY DEF Init, NoVotes
  <2> QED BY <2>1, FS_EmptySet DEF FinitelyManyVotes
<1>6. PollInv
  BY <1>5 DEF Init, PollInv, PollsNumbered, RowMatchesVotes, TallyMatchesVotes, StoppedPollIsFinal
<1> QED BY <1>3, <1>4, <1>6 DEF IInv

LEMMA InductiveInvariant == IInv /\ [Next]_vars => IInv'
BY TypeStep, FocusStep, PollStep DEF IInv

THEOREM AlwaysIInv == Spec => []IInv
BY InitialInvariant, InductiveInvariant, PTL DEF Spec

\* The rows, the copies in memory, the timers and the commands on their way have the
\* types of the code (ChatState, ChatCommand).
THEOREM TimersTypeCorrect == Spec => []TypeOK
<1>1. IInv => TypeOK
  BY DEF IInv
<1> QED BY <1>1, AlwaysIInv, PTL

\* Focus mode is shown exactly as a restart would restore it, whatever statement
\* fails (start_pomodoro, clear_pomodoro).
THEOREM FocusIsDurable == Spec => []FocusDurable
<1>1. IInv => FocusDurable
  BY DEF IInv, FocusInv
<1> QED BY <1>1, AlwaysIInv, PTL

\* The timer of a focus session, and the command it has sent, never meet the session
\* before its end (start_pomodoro, ExpirePomodoro).
THEOREM OwnExpiriesAreLate == Spec => []OwnExpiryIsLate
<1>1. IInv => OwnExpiryIsLate
  BY DEF IInv, FocusInv
<1> QED BY <1>1, AlwaysIInv, PTL

\* The tally that is shown is the number of rows for each option, whoever changes
\* or repeats a vote (record_poll_vote, handle_enqueue).
THEOREM TalliesMatchVotes == Spec => []TallyMatchesVotes
<1>1. IInv => TallyMatchesVotes
  BY DEF IInv, PollInv
<1> QED BY <1>1, AlwaysIInv, PTL

\* What a step does to an active poll.
LEMMA ActivePollStep ==
  ASSUME IInv, [Next]_vars, up, up', Active(poll)
  PROVE  /\ poll'.session = poll.session \/ Head(mailbox).type = "ClearPoll"
         /\ Active(poll') => pollResultsSecs' = pollResultsSecs
<1>1. CASE Tick
  BY <1>1 DEF Tick, IInv, TypeOK, Poll
<1>2. CASE Receive
  <2> DEFINE c == Head(mailbox)
  <2>1. c \in Command /\ Handle(c)
    BY <1>2, MailboxHead DEF IInv, TypeOK, Receive
  <2>2. ActivePoll # NoPoll /\ ~poll.stopped /\ poll \in Poll
    BY DEF ActivePoll, Active, IInv, TypeOK
  <2> HIDE DEF c
  <2>3. CASE c.type = "ClearPoll" /\ ClearPoll
    BY <2>3 DEF ClearPoll, c
  <2>4. CASE StopPoll
    BY <2>2, <2>4 DEF StopPoll, Ignore, polling, Poll
  <2>5. CASE c.type = "Enqueue" /\ Vote(c.ballot)
    <3>1. c.ballot.option \in Options
      BY <2>5 DEF Vote, ParsedVote
    <3> QED BY <2>2, <2>5, <3>1, RecountType DEF Vote
  <2>6. CASE UNCHANGED <<poll, pollResultsSecs>>
    BY <2>6
  <2> QED BY <2>1, <2>2, <2>3, <2>4, <2>5, <2>6
          DEF Handle, Ignore, StartPomodoro, ClearPomodoro, ExpirePomodoro, StartPoll,
              ExpirePollResults, Enqueue, IntoInbox, ApplyConfig, polling
<1>3. CASE UNCHANGED <<poll, pollResultsSecs>>
  BY <1>3
<1> QED BY <1>1, <1>2, <1>3
        DEF Next, OperateFocus, OperatePoll, Deliver, Send, SaveConfig, Fire, TimerFires, Crash, Start, vars

\* An active poll ends by its operator only, what was stopped stays stopped with its
\* tally, through failures and restarts, and the duration of its results is settled
\* while it is active (start_poll, stop_poll, ExpirePollResults, handle_apply_config).
THEOREM PollsOnlyMoveForward == Spec => PollOnlyMovesForward
<1>1. IInv => StoppedPollIsFinal
  BY DEF IInv, PollInv
<1>2. IInv /\ [Next]_vars =>
        [up /\ up' /\ Active(poll) =>
           \/ poll'.session = poll.session
           \/ Head(mailbox).type = "ClearPoll"]_vars
  BY ActivePollStep
<1>3. IInv /\ [Next]_vars =>
        [up /\ up' /\ Active(poll) /\ Active(poll') => pollResultsSecs' = pollResultsSecs]_vars
  BY ActivePollStep
<1> QED BY <1>1, <1>2, <1>3, AlwaysIInv, PTL
        DEF Spec, PollOnlyMovesForward, ActivePollKept, ResultsDurationKept
=============================================================================
