---------------------------- MODULE Automations ----------------------------
(***************************************************************************)
(* Chat automations (src/src/chat/automations/): the rules, the data and   *)
(* the execution records in SQLite, and the way of one platform message    *)
(* through ChatActor::handle_enqueue: duplicate check, scripts while the   *)
(* stream is live, alerts, and the inbox (or poll) behind them; with the   *)
(* media library that alerts refer to.                                     *)
(*                                                                         *)
(* The scripts of one message run in a transaction of their own.  The      *)
(* inbox is written by a later one, so the process may stop in between.    *)
(* What a script computes is left out; how its run may end, and what is    *)
(* made of it, is not (Evaluation).  A vote in an active poll is taken out *)
(* of the inbox by the same step that would have filled it (ChatTimers).   *)
(***************************************************************************)
EXTENDS Integers, FiniteSets

CONSTANTS
  Message,       \* platform identities (source, external_id)
  Identified,    \* those whose author has an account id on the platform
  Rule,          \* automation ids, handed out in ascending order
  Uploader,      \* HTTP requests that upload a file
  File,          \* names of media files
  MediaLimit,    \* 100
  RuleLimit,     \* 64
  MaxDeliveries, \* bound: deliveries, repeated ones included
  MaxEdits,      \* bound: changes of rules, of the stream status and of the library
  MaxFaults      \* bound: failed transactions and crashes

ASSUME RuleAssumption   == Rule \subseteq Nat
ASSUME AuthorAssumption == Identified \subseteq Message
ASSUME UploaderAssumption == IsFiniteSet(Uploader)
ASSUME LimitsAssumption == MediaLimit \in Nat \ {0} /\ RuleLimit \in Nat \ {0}
ASSUME BoundsAssumption == MaxDeliveries \in Nat /\ MaxEdits \in Nat /\ MaxFaults \in Nat

VARIABLES
  \* SQLite
  rules,       \* chat_automations: a function from ids to definitions
  nextRule,
  data,        \* chat_automation_data: how often the effects of m are in the data of r
  viewers,     \* the pairs <<r, m>> that have written data of the author of m
  runs,        \* chat_automation_runs: how often m succeeded and failed under r
  seen,        \* chat_seen
  inbox,       \* messages that reached the inbox or the poll
  library,     \* automation_media
  \* the process
  live,        \* the stream status is Live
  current,     \* the message the actor is handling
  upload,      \* what each uploader has found when it listed the library
  \* history
  published,   \* alerts sent to the overlays
  cutOff,      \* messages that were stopped between their scripts and the inbox
  offlineRuns, \* messages whose scripts committed since the stream went offline
  deliveries, edits, faults

ruleTables == <<rules, nextRule, data, viewers>>
vars == <<ruleTables, runs, seen, inbox, library, live, current, upload,
          published, cutOff, offlineRuns, deliveries, edits, faults>>

Definition == [enabled : BOOLEAN, consume : BOOLEAN]
Draft      == [name : {"given", "blank"}, pattern : {"regex", "invalid"},
               script : {"compiles", "invalid"}, definition : Definition]
Outcome    == [ok : Nat, failed : Nat]

\* An alert is the set of media files it refers to (none: text alone).  A run
\* throws when the script does, when it exceeds a limit of the engine and when
\* it shows an invalid alert or one too many.
Alert      == SUBSET File
Throws     == [ends |-> "throws"]
Returns    == [ends : {"text", "unit", "other"}, viewer : BOOLEAN,
               alerts : {{}} \cup {{a} : a \in Alert}]
Evaluation == {Throws} \cup {e \in Returns : e.ends # "text" => e.alerts = {} /\ ~e.viewer}

\* The actor between two awaits of handle_enqueue.
Idle == [stage |-> "idle"]
Handling ==
  {Idle} \cup [stage : {"checked", "inbox"}, msg : Message]
         \cup [stage : {"committed"}, msg : Message, alerts : SUBSET (Rule \X Message),
               consumed : BOOLEAN]

NoUpload == [stage |-> "idle"]
Uploading == {NoUpload} \cup [stage : {"listed"}, name : File]

----------------------------------------------------------------------------
(* The rules, changed through the actor's mailbox *)

Edit == edits < MaxEdits /\ edits' = edits + 1

OtherThanRules == <<runs, seen, inbox, library, live, current, upload, published,
                    cutOff, offlineRuns, deliveries, faults>>

\* runtime::validate
Valid(draft) == draft.name = "given" /\ draft.pattern = "regex" /\ draft.script = "compiles"

\* save, with and without an id; what is not valid is not saved.
SaveAutomation ==
  /\ current = Idle /\ Edit
  /\ \E d \in {draft.definition : draft \in {x \in Draft : Valid(x)}} :
       \/ /\ Cardinality(DOMAIN rules) < RuleLimit
          /\ nextRule \in Rule
          /\ rules' = [r \in DOMAIN rules \cup {nextRule} |->
                         IF r = nextRule THEN d ELSE rules[r]]
          /\ nextRule' = nextRule + 1
       \/ \E r \in DOMAIN rules :
            /\ rules' = [rules EXCEPT ![r] = d]
            /\ UNCHANGED nextRule
  /\ UNCHANGED <<data, viewers, OtherThanRules>>

\* set_enabled
ToggleAutomation ==
  /\ current = Idle /\ Edit
  /\ \E r \in DOMAIN rules, e \in BOOLEAN : rules' = [rules EXCEPT ![r].enabled = e]
  /\ UNCHANGED <<nextRule, data, viewers, OtherThanRules>>

\* delete: the rule and its data; the execution records stay.
DeleteAutomation ==
  /\ current = Idle /\ Edit
  /\ \E r \in DOMAIN rules :
       /\ rules' = [s \in DOMAIN rules \ {r} |-> rules[s]]
       /\ data' = [p \in DOMAIN data |-> IF p[1] = r THEN 0 ELSE data[p]]
       /\ viewers' = {p \in viewers : p[1] # r}
  /\ UNCHANGED <<nextRule, OtherThanRules>>

----------------------------------------------------------------------------
(* A message *)

Ran(r, m) == runs[<<r, m>>].ok + runs[<<r, m>>].failed > 0

\* Mutant: only a success counts as processed.
ProcessedWell(m) == \E r \in Rule : runs[<<r, m>>].ok > 0

\* was_processed
Processed(m) == \E r \in Rule : Ran(r, m)

\* Mutant: the status is not consulted.
DeliverAlways(m) ==
  /\ current = Idle
  /\ deliveries < MaxDeliveries
  /\ deliveries' = deliveries + 1
  /\ current' = IF m \in seen \/ Processed(m)
                THEN Idle
                ELSE [stage |-> "checked", msg |-> m]
  /\ UNCHANGED <<ruleTables, runs, seen, inbox, library, live, upload, published,
                 cutOff, offlineRuns, edits, faults>>

\* A platform delivers m, maybe for the second time; handle_enqueue answers
\* Duplicate at once (the message is known or was executed) or reads the status.
Deliver(m) ==
  /\ current = Idle
  /\ deliveries < MaxDeliveries
  /\ deliveries' = deliveries + 1
  /\ current' = IF m \in seen \/ Processed(m)
                THEN Idle
                ELSE [stage |-> IF live THEN "checked" ELSE "inbox", msg |-> m]
  /\ UNCHANGED <<ruleTables, runs, seen, inbox, library, live, upload, published,
                 cutOff, offlineRuns, edits, faults>>

Executed(ok, failing, m) ==
  [p \in DOMAIN runs |->
     CASE p[2] = m /\ p[1] \in ok      -> [runs[p] EXCEPT !.ok = @ + 1]
       [] p[2] = m /\ p[1] \in failing -> [runs[p] EXCEPT !.failed = @ + 1]
       [] OTHER                        -> runs[p]]

\* Mutant: what a failed script has not written is undone.
AppliedUndone(ok, m) ==
  [p \in DOMAIN data |->
     IF p[2] = m THEN IF p[1] \in ok THEN data[p] + 1 ELSE data[p] - 1 ELSE data[p]]

\* Mutant: the data is saved before the alerts of the script are validated.
AppliedUnvalidated(ok, m) ==
  [p \in DOMAIN data |-> IF p[2] = m /\ p[1] \in DOMAIN rules THEN data[p] + 1 ELSE data[p]]

\* The data after the scripts in ok have succeeded on m.
Applied(ok, m) == [p \in DOMAIN data |-> IF p[2] = m /\ p[1] \in ok THEN data[p] + 1 ELSE data[p]]

\* Mutant: the option of a failed script counts as well.
ConsumedByAny(ok, matching) == \E r \in matching : rules[r].consume

Consumed(ok, matching) == \E r \in ok : rules[r].consume

Enabled == {r \in DOMAIN rules : rules[r].enabled}

\* evaluate: a result that is no string, or data written for an author without
\* an account id, is an error as well.
Evaluated(e, m) == e.ends \in {"text", "unit"} /\ (e.viewer => m \in Identified)

\* validate_media, against the library of this moment.
MediaThere(alerts) == UNION alerts \subseteq library

\* The outcome of process: what is left to do once it is committed.
Committed(evaluation, ok, m) ==
  [stage |-> "committed", msg |-> m,
   alerts |-> {<<r, m>> : r \in {q \in ok : evaluation[q].alerts # {}}},
   consumed |-> Consumed(ok, DOMAIN evaluation)]

\* process: all scripts in one transaction.
Process ==
  /\ current.stage = "checked"
  /\ \E matching \in SUBSET Enabled : \E evaluation \in [matching -> Evaluation] :
       LET m  == current.msg
           ok == {r \in matching : /\ Evaluated(evaluation[r], m)
                                   /\ MediaThere(evaluation[r].alerts)}
       IN  /\ runs' = Executed(ok, matching \ ok, m)
           /\ data' = Applied(ok, m)
           /\ viewers' = viewers \cup {<<r, m>> : r \in {q \in ok : evaluation[q].viewer}}
           /\ offlineRuns' = IF live \/ matching = {} THEN offlineRuns ELSE offlineRuns \cup {m}
           /\ current' = Committed(evaluation, ok, m)
  /\ UNCHANGED <<rules, nextRule, seen, inbox, library, live, upload, published,
                 cutOff, deliveries, edits, faults>>

Fault == faults < MaxFaults /\ faults' = faults + 1

\* The transaction of the scripts fails: nothing of it remains and the source
\* is told so.
ProcessFails ==
  /\ current.stage = "checked" /\ Fault
  /\ current' = Idle
  /\ UNCHANGED <<ruleTables, runs, seen, inbox, library, live, upload, published,
                 cutOff, offlineRuns, deliveries, edits>>

\* After the commit the alerts are broadcast; a consumed message is accepted
\* here, the others go on to the inbox.
Publish ==
  /\ current.stage = "committed"
  /\ published' = published \cup current.alerts
  /\ current' = IF current.consumed THEN Idle ELSE [stage |-> "inbox", msg |-> current.msg]
  /\ UNCHANGED <<ruleTables, runs, seen, inbox, library, live, upload, cutOff,
                 offlineRuns, deliveries, edits, faults>>

\* enqueue or record_poll_vote: the claim and the message commit together.
IntoInbox ==
  /\ current.stage = "inbox"
  /\ seen' = seen \cup {current.msg}
  /\ inbox' = inbox \cup {current.msg}
  /\ current' = Idle
  /\ UNCHANGED <<ruleTables, runs, library, live, upload, published, cutOff,
                 offlineRuns, deliveries, edits, faults>>

\* History: the message in hand goes no further, after its scripts were executed.
CutOff ==
  cutOff' = cutOff \cup {m \in Message : /\ current.stage \in {"committed", "inbox"}
                                       /\ current.msg = m /\ Processed(m)}

\* ... or they fail; the error goes to the source, which drops the message.
IntoInboxFails ==
  /\ current.stage = "inbox" /\ Fault
  /\ current' = Idle /\ CutOff
  /\ UNCHANGED <<ruleTables, runs, seen, inbox, library, live, upload, published,
                 offlineRuns, deliveries, edits>>

\* trim_seen forgets old claims.
TrimSeen ==
  /\ current = Idle /\ Edit
  /\ \E m \in seen : seen' = seen \ {m}
  /\ UNCHANGED <<ruleTables, runs, inbox, library, live, current, upload, published,
                 cutOff, offlineRuns, deliveries, faults>>

\* The stream actor changes the status at any moment.
StatusChanges ==
  /\ Edit
  /\ live' = ~live
  /\ offlineRuns' = {}
  /\ UNCHANGED <<ruleTables, runs, seen, inbox, library, current, upload, published,
                 cutOff, deliveries, faults>>

\* The process stops between any two steps and starts again, offline.
Restart ==
  /\ Fault
  /\ current' = Idle /\ CutOff
  /\ live' = FALSE
  /\ offlineRuns' = {}
  /\ upload' = [u \in Uploader |-> NoUpload]
  /\ UNCHANGED <<ruleTables, runs, seen, inbox, library, published, deliveries, edits>>

----------------------------------------------------------------------------
(* The media library *)

OtherThanMedia == <<ruleTables, runs, seen, inbox, live, current, published,
                    cutOff, offlineRuns, deliveries, faults>>

\* Mutant: the number of files is not checked.
UploadListsUnlimited(u) ==
  /\ upload[u] = NoUpload /\ Edit
  /\ \E f \in File \ library : upload' = [upload EXCEPT ![u] = [stage |-> "listed", name |-> f]]
  /\ UNCHANGED <<library, OtherThanMedia>>

\* upload reads the library and finds the name free and a place left.
UploadLists(u) ==
  /\ upload[u] = NoUpload /\ Edit
  /\ Cardinality(library) < MediaLimit
  /\ \E f \in File \ library : upload' = [upload EXCEPT ![u] = [stage |-> "listed", name |-> f]]
  /\ UNCHANGED <<library, OtherThanMedia>>

\* The insert fails when the name, a primary key, has been taken since.
UploadInserts(u) ==
  /\ upload[u].stage = "listed"
  /\ library' = library \cup {upload[u].name}
  /\ upload' = [upload EXCEPT ![u] = NoUpload]
  /\ UNCHANGED <<edits, OtherThanMedia>>

DeleteMedia ==
  /\ Edit
  /\ \E f \in library : library' = library \ {f}
  /\ UNCHANGED <<upload, OtherThanMedia>>

----------------------------------------------------------------------------

Init ==
  /\ rules = << >> /\ nextRule = 1
  /\ data = [p \in Rule \X Message |-> 0] /\ viewers = {}
  /\ runs = [p \in Rule \X Message |-> [ok |-> 0, failed |-> 0]]
  /\ seen = {} /\ inbox = {} /\ library = {}
  /\ live = FALSE /\ current = Idle /\ upload = [u \in Uploader |-> NoUpload]
  /\ published = {} /\ cutOff = {} /\ offlineRuns = {}
  /\ deliveries = 0 /\ edits = 0 /\ faults = 0

Next ==
  \/ SaveAutomation \/ ToggleAutomation \/ DeleteAutomation
  \/ \E m \in Message : Deliver(m)
  \/ Process \/ ProcessFails \/ Publish \/ IntoInbox \/ IntoInboxFails
  \/ TrimSeen \/ StatusChanges \/ Restart
  \/ \E u \in Uploader : UploadLists(u) \/ UploadInserts(u)
  \/ DeleteMedia

Spec == Init /\ [][Next]_vars

----------------------------------------------------------------------------
(* Properties *)

TypeOK ==
  /\ DOMAIN rules \subseteq Rule /\ rules \in [DOMAIN rules -> Definition]
  /\ nextRule \in Nat /\ viewers \subseteq Rule \X Message
  /\ data \in [Rule \X Message -> Nat] /\ runs \in [Rule \X Message -> Outcome]
  /\ seen \subseteq Message /\ inbox \subseteq Message /\ library \subseteq File
  /\ live \in BOOLEAN /\ current \in Handling /\ upload \in [Uploader -> Uploading]
  /\ published \subseteq Rule \X Message
  /\ cutOff \subseteq Message /\ offlineRuns \subseteq Message
  /\ deliveries \in Nat /\ edits \in Nat /\ faults \in Nat

\* No rule executes the same message twice: not after a restart, not after the
\* inbox has forgotten its claim, not when the rule failed the first time or
\* has been edited, disabled or deleted since.
ExecutedOnce == \A p \in Rule \X Message : runs[p].ok + runs[p].failed <= 1

\* The data of a rule holds the effects of exactly the messages it is recorded
\* to have succeeded on, those of an author only where there is an account to
\* file them under; a deleted rule has no data of either kind.
DataMatchesRuns ==
  /\ \A p \in Rule \X Message :
       data[p] = IF p[1] \in DOMAIN rules THEN runs[p].ok ELSE 0
  /\ \A p \in viewers : data[p] > 0 /\ p[2] \in Identified

\* An overlay never plays an alert of an execution that was not committed.
AlertsCommitted == \A p \in published : runs[p].ok > 0

\* A message whose scripts have all failed is in the inbox or the poll, unless it was
\* stopped on its way there, by a failed insert or a crash, after its scripts had been
\* recorded: a redelivery then finds it executed, and it stays hidden.
FailuresHideNothing ==
  \A m \in Message :
    Processed(m) => \/ m \in inbox
                    \/ \E r \in Rule : runs[<<r, m>>].ok > 0
                    \/ m \in cutOff
                    \/ current # Idle /\ current.msg = m

\* What the outside sees of a script was committed before: an alert by its success,
\* and a message kept out of the inbox by a success as well, but for those cut off.
EffectsCommitted == AlertsCommitted /\ FailuresHideNothing

\* The status is read before the scripts run: once the stream is over, only the
\* message being handled may still run scripts.
ScriptsEndWithStream == ~live => Cardinality(offlineRuns) <= 1

\* Uploads that overlap pass the check of the limit together, each of them
\* adding at most one file too many.
LibraryOvershoot ==
  Cardinality(library) < MediaLimit + Cardinality(Uploader)
============================================================================
