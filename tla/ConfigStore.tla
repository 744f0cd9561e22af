---------------------------- MODULE ConfigStore ----------------------------
(***************************************************************************)
(* The configuration (src/src/config.rs, src/src/server/state.rs): one row *)
(* in SQLite, the watch channel every component reads, the lock that takes *)
(* updates one at a time, the cache of the JSON export, and what a request *)
(* does once its update is saved: it sends the chat settings to the chat   *)
(* actor, or has changed the Kick subscription before.                     *)
(*                                                                         *)
(* Requests run concurrently and hold no lock but update_lock.  Secrets    *)
(* are represented by the stream keys of the targets: a key entered on a   *)
(* page is named after the target (name and URL) it was entered for.       *)
(***************************************************************************)
EXTENDS Integers, Sequences, FiniteSets

CONSTANTS
  Request,      \* concurrent HTTP requests
  Name,         \* targets by name and URL
  Flag,         \* switches of the dashboard
  Value,        \* what an operator enters into a field
  Refused,      \* those of them that the rules for their field refuse
  Forms,        \* the forms of the settings page that are submitted
  Stored,       \* configurations the process is started with
  MaxTargets,   \* MAX_TARGET_COUNT
  MaxRequests,  \* bound: requests in one behaviour
  MaxFaults     \* bound: failures and crashes

VARIABLES
  saved,      \* app_config in SQLite
  current,    \* the watch channel
  lock,       \* the request that holds update_lock, or "free"
  cache,      \* export_json_cache
  file,       \* the export an operator has downloaded last
  actorChat,  \* the chat settings the chat actor has applied last
  remote,     \* the chat subscriptions at Kick
  request,    \* what the requests, and the task of AppHandle::new, are doing
  \* history
  lateExport, \* an export rendered before the last save entered the cache after it
  kickUpset,  \* a toggle of the Kick webhook met a failure or another toggle, or an
              \* update of the settings changed the channel or the flag
  applyUpset, \* sending the chat settings to the actor failed or overlapped
  requests, faults

shared  == <<saved, current, lock, cache, file, actorChat, remote>>
history == <<lateExport, kickUpset, applyUpset>>
vars    == <<shared, request, history, requests, faults>>

----------------------------------------------------------------------------
(* The configuration, section by section.  Of the fields with one and the  *)
(* same rule there is one: a field with a default value, an optional one,  *)
(* a secret.                                                               *)

Boot  == "boot"   \* the task of AppHandle::new
Blank == "blank"  \* the name of a new target, whose URL is empty
None  == "none"
FileKey == "key in the file"   \* a stream key an operator has written into a file
Standard == "standard"

Entered == Value \cup {None}
Setting == Value \cup {Standard}

Selector == {"live chat", "video", "channel"}

ServerSettings       == [address : Setting, srt : BOOLEAN, key : Entered]
NotificationSettings == [webhook : Entered, message : Setting]
WebAuthSettings      == [username : Entered, password : Entered, overlay : Entered]

ChatSettings ==
  [flags : [Flag -> BOOLEAN], capacity : Setting, adaptive : BOOLEAN,
   selectors : SUBSET Selector, apiKey : Entered,
   client : Entered, secret : Entered, channel : Entered]

Target  == [name : Name \cup {Blank}, key : Name \cup {None, FileKey}, enabled : BOOLEAN]
Targets == UNION {[1..n -> Target] : n \in 0..MaxTargets}

Config == [server : ServerSettings, notifications : NotificationSettings,
           webAuth : WebAuthSettings, chat : ChatSettings, targets : Targets]

Sections == {"server", "notifications", "webAuth", "chat", "targets"}

\* AppConfig::default
Default ==
  [server        |-> [address |-> Standard, srt |-> FALSE, key |-> None],
   notifications |-> [webhook |-> None, message |-> Standard],
   webAuth       |-> [username |-> None, password |-> None, overlay |-> None],
   chat          |-> [flags |-> [f \in Flag |-> f = "queueMode"], capacity |-> Standard,
                      adaptive |-> TRUE, selectors |-> {}, apiKey |-> None,
                      client |-> None, secret |-> None, channel |-> None],
   targets       |-> <<>>]

\* redacted
Redacted(c) ==
  [c EXCEPT !.server.key = None, !.notifications.webhook = None,
            !.webAuth.password = None, !.webAuth.overlay = None,
            !.chat.apiKey = None, !.chat.client = None, !.chat.secret = None,
            !.targets = [i \in DOMAIN @ |-> [@[i] EXCEPT !.key = None]]]

NoFile == [none |-> TRUE]

Idle == [stage |-> "idle"]

----------------------------------------------------------------------------
(* validate *)

\* The rules for the single fields: the range of a number, the characters of a name
\* or key, and for a URL its scheme and an address that is not a private one.
Acceptable(values) == values \cap Refused = {}

ValidServer(server) == Acceptable({server.address, server.key})

ValidNotifications(notifications) == Acceptable({notifications.webhook})

\* A name and a password, or neither; once there is a password, no form removes it.
ValidWebAuth(auth) ==
  /\ auth.username = None <=> auth.password = None
  /\ Acceptable({auth.username, auth.password, auth.overlay})

\* One selector of the YouTube chat at most; the Kick webhook needs its credentials.
ValidChat(chat) ==
  /\ Acceptable({chat.capacity, chat.channel})
  /\ Cardinality(chat.selectors) <= 1
  /\ "kick" \in Flag /\ chat.flags["kick"] => None \notin {chat.client, chat.secret, chat.channel}

\* Mutant: the limit is checked before the new target is counted.
ValidTargetsBefore(targets) ==
  /\ Len(targets) <= MaxTargets + 1
  /\ \A i \in DOMAIN targets : targets[i].enabled => targets[i].name # Blank

\* Enabled targets need a URL, and there is a limit on targets.
ValidTargets(targets) ==
  /\ Len(targets) <= MaxTargets
  /\ \A i \in DOMAIN targets : targets[i].enabled => targets[i].name # Blank

Valid(c) ==
  /\ ValidServer(c.server) /\ ValidNotifications(c.notifications) /\ ValidWebAuth(c.webAuth)
  /\ ValidChat(c.chat) /\ ValidTargets(c.targets)

----------------------------------------------------------------------------
(* What an update makes of the configuration in force *)

SetFlag(c, flag, value) == [c EXCEPT !.chat.flags[flag] = value]

\* A form: the sections the page shows, and the button.
ServerForm        == [address : Entered, srt : BOOLEAN, key : Entered]
NotificationsForm == [webhook : Entered, clearWebhook : BOOLEAN, message : Entered]
WebAuthForm       == WebAuthSettings
ChatForm ==
  [flags : UNION {[F -> BOOLEAN] : F \in SUBSET (Flag \ {"queueMode"})},
   capacity : Entered, adaptive : BOOLEAN, selectors : SUBSET Selector,
   apiKey : Entered, clearApiKey : BOOLEAN,
   client : Entered, secret : Entered, clearSecret : BOOLEAN, channel : Entered]

\* A field left empty keeps its value ...
Kept(entered, old) == IF entered = None THEN old ELSE entered

\* ... a secret as well, unless it is cleared.
UpdatedSecret(entered, clear, old) == IF clear THEN None ELSE Kept(entered, old)

MergeServer(old, form) ==
  [address |-> Kept(form.address, old.address), srt |-> form.srt, key |-> Kept(form.key, old.key)]

MergeNotifications(old, form) ==
  [webhook |-> UpdatedSecret(form.webhook, form.clearWebhook, old.webhook),
   message |-> Kept(form.message, old.message)]

MergeWebAuth(old, form) ==
  [username |-> form.username,
   password |-> Kept(form.password, old.password),
   overlay  |-> Kept(form.overlay, old.overlay)]

MergeChat(old, form) ==
  [flags     |-> [f \in Flag |-> IF f \in DOMAIN form.flags THEN form.flags[f] ELSE old.flags[f]],
   capacity  |-> Kept(form.capacity, old.capacity),
   adaptive  |-> form.adaptive,
   selectors |-> form.selectors,
   apiKey    |-> UpdatedSecret(form.apiKey, form.clearApiKey, old.apiKey),
   client    |-> form.client,
   secret    |-> UpdatedSecret(form.secret, form.clearSecret, old.secret),
   channel   |-> form.channel]

\* merge_targets: the target at a position of the page gets the key of the target
\* that has this position now, unless a key was entered.
MergeTargets(targets, form) ==
  [i \in DOMAIN form |->
     IF form[i].key = None THEN [form[i] EXCEPT !.key = targets[i].key] ELSE form[i]]

\* apply_action
ApplyAction(targets, action) ==
  CASE action.type = "add"    -> Append(targets, [name |-> Blank, key |-> None, enabled |-> FALSE])
    [] action.type = "remove" -> [i \in 1..Len(targets) - 1 |->
                                    targets[IF i < action.index THEN i ELSE i + 1]]
    [] action.type = "save"   -> targets

\* parse_address
Readable(address) == address \notin Refused

\* An address that cannot be read, and a position the targets no longer have, is an
\* error of the whole form.
Mergeable(c, form) ==
  /\ "server" \in DOMAIN form => Readable(form.server.address)
  /\ "targets" \in DOMAIN form =>
       /\ Len(form.targets) <= Len(c.targets)
       /\ form.action.type = "remove" => form.action.index <= Len(form.targets)

\* merge_form
MergeForm(c, form) ==
  LET Section(s, merged) == IF s \in DOMAIN form THEN merged ELSE c[s]
  IN  [server        |-> Section("server", MergeServer(c.server, form.server)),
       notifications |-> Section("notifications", MergeNotifications(c.notifications, form.notifications)),
       webAuth       |-> Section("webAuth", MergeWebAuth(c.webAuth, form.webAuth)),
       chat          |-> Section("chat", MergeChat(c.chat, form.chat)),
       targets       |-> Section("targets", ApplyAction(MergeTargets(c.targets, form.targets), form.action))]

\* set_target_enabled: by name, or by the position on the page.
SetTargetEnabled(targets, index, name, value) ==
  LET named == {i \in DOMAIN targets : targets[i].name = name}
      hit   == IF named = {} THEN index ELSE CHOOSE i \in named : \A j \in named : i <= j
  IN  [targets EXCEPT ![hit].enabled = value]

\* Mutant: the keys are restored by position.
RestoreKeysByPosition(targets, imported) ==
  [i \in DOMAIN imported |->
     IF imported[i].key # None \/ i \notin DOMAIN targets THEN imported[i]
     ELSE [imported[i] EXCEPT !.key = targets[i].key]]

\* A target without a key gets that of the first target with its name and URL.
RestoreKeys(targets, imported) ==
  [i \in DOMAIN imported |->
     LET same == {j \in DOMAIN targets : targets[j].name = imported[i].name}
     IN  IF imported[i].key # None \/ same = {} THEN imported[i]
         ELSE [imported[i] EXCEPT
                 !.key = targets[CHOOSE j \in same : \A k \in same : j <= k].key]]

\* restore_redacted_secrets
RestoreSecrets(c, imported) ==
  [imported EXCEPT
     !.server.key = Kept(@, c.server.key),
     !.notifications.webhook = Kept(@, c.notifications.webhook),
     !.webAuth.password = Kept(@, c.webAuth.password),
     !.webAuth.overlay = Kept(@, c.webAuth.overlay),
     !.chat.apiKey = Kept(@, c.chat.apiKey),
     !.chat.client = Kept(@, c.chat.client),
     !.chat.secret = Kept(@, c.chat.secret),
     !.targets = RestoreKeys(c.targets, @)]

ASSUME FlagAssumption   == Flag \subseteq {"queueMode", "polling", "x", "kick"}
ASSUME BoundsAssumption == MaxTargets \in Nat /\ MaxRequests \in Nat /\ MaxFaults \in Nat
ASSUME ValueAssumption  == Refused \subseteq Value /\ {None, Standard} \cap Value = {}
ASSUME CallerAssumption == Boot \notin Request /\ "free" \notin Request
ASSUME StoredAssumption == \A c \in Stored : c \in Config /\ Valid(c)
ASSUME FormsAssumption  ==
  \A form \in Forms :
    /\ DOMAIN form \subseteq Sections \ {"targets"}
    /\ "server" \in DOMAIN form => form.server \in ServerForm
    /\ "notifications" \in DOMAIN form => form.notifications \in NotificationsForm
    /\ "webAuth" \in DOMAIN form => form.webAuth \in WebAuthForm
    /\ "chat" \in DOMAIN form => form.chat \in ChatForm

----------------------------------------------------------------------------
(* Requests *)

Begin(r, local) ==
  /\ request[r] = Idle
  /\ requests < MaxRequests
  /\ requests' = requests + 1
  /\ request' = [request EXCEPT ![r] = local]

\* An update waits for update_lock; `op` is what it will do under it.
Waiting(op) == [stage |-> "lock", op |-> op]

ToggleFlag(r) ==
  /\ \E f \in Flag \ {"kick"}, v \in BOOLEAN :
       Begin(r, Waiting([type |-> "flag", flag |-> f, value |-> v]))
  /\ UNCHANGED <<shared, history, faults>>

SaveSettings(r) ==
  /\ \E form \in Forms : Begin(r, Waiting([type |-> "form", form |-> form]))
  /\ UNCHANGED <<shared, history, faults>>

\* The operator looks at a page; whatever is submitted from it refers to what it
\* showed.
OpenTargets(r) ==
  /\ Begin(r, [stage |-> "page", page |-> Redacted(current).targets])
  /\ UNCHANGED <<shared, history, faults>>

Submit(r, op) ==
  /\ request[r].stage = "page"
  /\ request' = [request EXCEPT ![r] = Waiting(op)]
  /\ UNCHANGED <<shared, history, requests, faults>>

TargetsForm(page, action) == [type |-> "form", form |-> [targets |-> page, action |-> action]]

\* One click on Save, Add or Remove; a blank target may have been filled in.
SubmitTargets(r) ==
  LET page == request[r].page
      Actions == {[type |-> "save"], [type |-> "add"]}
                   \cup {[type |-> "remove", index |-> i] : i \in DOMAIN page}
  IN  /\ request[r].stage = "page"
      /\ \/ \E a \in Actions : Submit(r, TargetsForm(page, a))
         \/ \E i \in DOMAIN page, n \in Name :
              /\ page[i].name = Blank
              /\ Submit(r, TargetsForm([page EXCEPT ![i] = [name |-> n, key |-> n, enabled |-> TRUE]],
                                       [type |-> "save"]))

SwitchTarget(r) ==
  /\ request[r].stage = "page"
  /\ \E i \in DOMAIN request[r].page :
       Submit(r, [type |-> "switch", index |-> i, name |-> request[r].page[i].name,
                  value |-> ~request[r].page[i].enabled])

\* The targets an operator may have made of those in a file: others, one of them twice
\* or not at all, or one with a key.
Edited(targets) ==
  {targets} \cup {<<[name |-> n, key |-> None, enabled |-> TRUE]>> : n \in Name}
    \cup {<<targets[i], targets[j]>> : i \in DOMAIN targets, j \in DOMAIN targets}
    \cup {[targets EXCEPT ![i].key = FileKey] : i \in DOMAIN targets}

\* The downloaded file comes back: as it was, with its targets edited, or without one
\* of its sections.
FilesFrom(export) ==
  {[s \in Sections \ {"chat"} |-> export[s]]}
    \cup {[export EXCEPT !.targets = ts] : ts \in Edited(export.targets)}

ImportFile(r) ==
  /\ file # NoFile
  /\ \E config \in FilesFrom(file) : Begin(r, Waiting([type |-> "import", config |-> config]))
  /\ UNCHANGED <<shared, history, faults>>

----------------------------------------------------------------------------
(* Updates *)

\* A file without one of the sections is refused.
Complete(config) == DOMAIN config = Sections

\* What the operation makes of c; {} when it is refused.
Updated(c, op) ==
  CASE op.type \in {"flag", "kick"} -> {SetFlag(c, op.flag, op.value)}
    [] op.type = "form" -> IF Mergeable(c, op.form) THEN {MergeForm(c, op.form)} ELSE {}
    [] op.type = "switch" ->
         IF op.index \in DOMAIN c.targets \/ \E i \in DOMAIN c.targets : c.targets[i].name = op.name
         THEN {[c EXCEPT !.targets = SetTargetEnabled(@, op.index, op.name, op.value)]} ELSE {}
    [] op.type = "import" -> IF Complete(op.config) THEN {RestoreSecrets(c, op.config)} ELSE {}

\* Mutant: nobody waits for the lock.
LockWithoutWaiting(r) ==
  /\ request[r].stage = "lock"
  /\ \E u \in Updated(current, request[r].op) :
       /\ Valid(u) /\ u # current
       /\ lock' = r
       /\ request' = [request EXCEPT ![r] = [stage |-> "saving", op |-> @.op, updated |-> u]]
  /\ UNCHANGED <<saved, current, cache, file, actorChat, remote, history, requests, faults>>

\* Under the lock the update is made from the configuration in force, validated
\* and compared; an update that is refused or changes nothing ends here.
Lock(r) ==
  /\ request[r].stage = "lock" /\ lock = "free"
  /\ LET updates == {u \in Updated(current, request[r].op) : Valid(u) /\ u # current}
     IN  IF updates = {}
         THEN /\ request' = [request EXCEPT ![r] = Idle]
              /\ kickUpset' = (kickUpset \/ request[r].op.type = "kick")
              /\ UNCHANGED lock
         ELSE \E u \in updates :
              /\ lock' = r
              /\ request' = [request EXCEPT ![r] = [stage |-> "saving", op |-> @.op, updated |-> u]]
              /\ UNCHANGED kickUpset
  /\ UNCHANGED <<saved, current, cache, file, actorChat, remote,
                 lateExport, applyUpset, requests, faults>>

Fault == faults < MaxFaults /\ faults' = faults + 1

\* validate looks up the host of every URL of the configuration, of those too that the
\* update leaves alone: without an answer the update is refused, whatever it is.
LookupFails(r) ==
  /\ request[r].stage = "lock" /\ lock = "free" /\ Fault
  /\ request' = [request EXCEPT ![r] = Idle]
  /\ kickUpset' = (kickUpset \/ request[r].op.type = "kick")
  /\ UNCHANGED <<shared, lateExport, applyUpset, requests>>

\* What decides where the webhook of Kick is delivered.
KickSettings(chat) == <<"kick" \in Flag /\ chat.flags["kick"], chat.channel>>

Save(r) ==
  /\ request[r].stage = "saving"
  /\ saved' = request[r].updated
  /\ request' = [request EXCEPT ![r].stage = "saved"]
  /\ kickUpset' = (kickUpset \/ (/\ request[r].op.type # "kick"
                                 /\ KickSettings(saved'.chat) # KickSettings(saved.chat)))
  /\ UNCHANGED <<current, lock, cache, file, actorChat, remote,
                 lateExport, applyUpset, requests, faults>>

\* Mutant: the error is only logged.
SaveFailsUnnoticed(r) ==
  /\ request[r].stage = "saving" /\ Fault
  /\ request' = [request EXCEPT ![r].stage = "saved"]
  /\ UNCHANGED <<shared, history, requests>>

SaveFails(r) ==
  /\ request[r].stage = "saving" /\ Fault
  /\ lock' = "free"
  /\ request' = [request EXCEPT ![r] = Idle]
  /\ kickUpset' = (kickUpset \/ request[r].op.type = "kick")
  /\ UNCHANGED <<saved, current, cache, file, actorChat, remote, lateExport, applyUpset, requests>>

\* Mutant: the cache stays.
KeepCache(r) ==
  /\ request[r].stage = "saved"
  /\ request' = [request EXCEPT ![r].stage = "emptied"]
  /\ UNCHANGED <<shared, history, requests, faults>>

EmptyCache(r) ==
  /\ request[r].stage = "saved"
  /\ cache' = NoFile /\ lateExport' = FALSE
  /\ request' = [request EXCEPT ![r].stage = "emptied"]
  /\ UNCHANGED <<saved, current, lock, file, actorChat, remote,
                 kickUpset, applyUpset, requests, faults>>

\* What a request still has to do when its update is published: send the chat
\* settings of this very update (toggles), or those in force at a later moment.
AfterUpdate(op, updated) ==
  CASE op.type = "flag" /\ op.flag = "queueMode" -> [stage |-> "apply", how |-> "all", chat |-> updated.chat]
    [] op.type = "flag" /\ op.flag = "polling"   -> [stage |-> "apply", how |-> "youtube", chat |-> updated.chat]
    [] op.type \in {"form", "import"} /\ updated.chat # current.chat -> [stage |-> "reread"]
    [] OTHER -> Idle

Applying == {r \in Request : request[r].stage \in {"reread", "apply"}}

\* send_replace; update_lock is released.
PublishConfig(r) ==
  /\ request[r].stage = "emptied"
  /\ current' = request[r].updated
  /\ lock' = "free"
  /\ request' = [request EXCEPT ![r] = AfterUpdate(@.op, @.updated)]
  /\ applyUpset' = (applyUpset \/ Applying # {})
  /\ UNCHANGED <<saved, cache, file, actorChat, remote, lateExport, kickUpset, requests, faults>>

\* apply_chat_config reads the configuration again.
Reread(r) ==
  /\ request[r].stage = "reread"
  /\ request' = [request EXCEPT ![r] = [stage |-> "apply", how |-> "all", chat |-> current.chat]]
  /\ UNCHANGED <<shared, history, requests, faults>>

\* The actor handles the ApplyConfig or SetYouTubePolling of the request.
Apply(r) ==
  /\ request[r].stage = "apply"
  /\ LET chat == request[r].chat
     IN  actorChat' = IF request[r].how = "all" THEN chat
                      ELSE [actorChat EXCEPT !.selectors = chat.selectors, !.adaptive = chat.adaptive,
                                             !.flags["polling"] = chat.flags["polling"]]
  /\ request' = [request EXCEPT ![r] = Idle]
  /\ UNCHANGED <<saved, current, lock, cache, file, remote, history, requests, faults>>

\* ... or fails to: the request is answered with an error, the update stays.
ApplyFails(r) ==
  /\ request[r].stage = "apply" /\ Fault
  /\ request' = [request EXCEPT ![r] = Idle]
  /\ applyUpset' = TRUE
  /\ UNCHANGED <<shared, lateExport, kickUpset, requests>>

----------------------------------------------------------------------------
(* The export *)

\* export_json, cached: the file is handed out.
Export(r) ==
  /\ cache # NoFile
  /\ Begin(r, Idle)
  /\ file' = cache
  /\ UNCHANGED <<saved, current, lock, cache, actorChat, remote, history, faults>>

\* Not cached: the configuration is read and rendered without any lock ...
RenderExport(r) ==
  /\ cache = NoFile
  /\ Begin(r, [stage |-> "rendered", json |-> Redacted(current)])
  /\ UNCHANGED <<shared, history, faults>>

\* ... and enters the cache, unless another export has come first.
CacheExport(r) ==
  /\ request[r].stage = "rendered"
  /\ cache' = IF cache = NoFile THEN request[r].json ELSE cache
  /\ file' = cache'
  /\ lateExport' = (lateExport \/ lock # "free" \/ request[r].json # Redacted(current))
  /\ request' = [request EXCEPT ![r] = Idle]
  /\ UNCHANGED <<saved, current, lock, actorChat, remote, kickUpset, applyUpset, requests, faults>>

----------------------------------------------------------------------------
(* The Kick webhook *)

Caller == Request \cup {Boot}

AtKick == {"list", "create", "delete"}

\* Toggles of the webhook, the task of AppHandle::new included, that have not ended.
TogglingKick == {r \in Caller : \/ request[r].stage \in AtKick
                                \/ request[r].stage \in {"lock", "saving", "saved", "emptied"}
                                   /\ request[r].op.type = "kick"}

\* The credentials and the channel are those of the moment the toggle begins.
CallKick(value, chat) == [stage |-> "list", value |-> value, channel |-> chat.channel]

Credentials(chat) == None \notin {chat.client, chat.secret, chat.channel}

\* set_kick_webhook does nothing when the flag has this value, and nothing without
\* credentials.
ToggleKick(r) ==
  /\ "kick" \in Flag /\ Credentials(current.chat)
  /\ \E v \in BOOLEAN :
       /\ current.chat.flags["kick"] # v
       /\ Begin(r, CallKick(v, current.chat))
  /\ kickUpset' = (kickUpset \/ TogglingKick # {})
  /\ UNCHANGED <<shared, lateExport, applyUpset, faults>>

\* With the subscription in place, the flag is saved like any other.
KickDone(r, value) ==
  IF r = Boot THEN Idle ELSE Waiting([type |-> "kick", flag |-> "kick", value |-> value])

Subscriptions(channel) == {s \in remote : s.channel = channel}

\* list_subscriptions, after the access token and the channel's id.
ListSubscriptions(r) ==
  /\ request[r].stage = "list"
  /\ LET found == Subscriptions(request[r].channel)
     IN  request' = [request EXCEPT ![r] =
           CASE @.value /\ found = {}  -> [stage |-> "create", channel |-> @.channel]
             [] ~@.value /\ found # {} -> [stage |-> "delete", found |-> found]
             [] OTHER -> KickDone(r, @.value)]
  /\ UNCHANGED <<shared, history, requests, faults>>

\* Mutant: what Kick answers is not looked at.
CreateSubscriptionUnchecked(r) ==
  /\ request[r].stage = "create"
  /\ remote' \in {remote, remote \cup {[channel |-> request[r].channel, id |-> r]}}
  /\ request' = [request EXCEPT ![r] = KickDone(r, TRUE)]
  /\ UNCHANGED <<saved, current, lock, cache, file, actorChat, history, requests, faults>>

CreateSubscription(r) ==
  /\ request[r].stage = "create"
  /\ remote' = remote \cup {[channel |-> request[r].channel, id |-> r]}
  /\ request' = [request EXCEPT ![r] = KickDone(r, TRUE)]
  /\ UNCHANGED <<saved, current, lock, cache, file, actorChat, history, requests, faults>>

DeleteSubscriptions(r) ==
  /\ request[r].stage = "delete"
  /\ remote' = remote \ request[r].found
  /\ request' = [request EXCEPT ![r] = KickDone(r, FALSE)]
  /\ UNCHANGED <<saved, current, lock, cache, file, actorChat, history, requests, faults>>

\* Kick answers with an error, or not at all, whether it has done what it was asked
\* for or not.
KickFails(r) ==
  /\ request[r].stage \in AtKick /\ Fault
  /\ LET done == CASE request[r].stage = "list"   -> remote
                   [] request[r].stage = "create" -> remote \cup {[channel |-> request[r].channel, id |-> r]}
                   [] request[r].stage = "delete" -> remote \ request[r].found
     IN  remote' \in {remote, done}
  /\ kickUpset' = (kickUpset \/ (r # Boot /\ remote' # remote))
  /\ request' = [request EXCEPT ![r] = Idle]
  /\ UNCHANGED <<saved, current, lock, cache, file, actorChat, lateExport, applyUpset, requests>>

----------------------------------------------------------------------------
(* The process *)

\* What AppHandle::new starts with this configuration: the webhook is restored when
\* it is on.
Started(c) ==
  [r \in Caller |-> IF r = Boot /\ "kick" \in Flag /\ c.chat.flags["kick"]
                    THEN CallKick(TRUE, c.chat) ELSE Idle]

\* The process stops at any moment and starts from what was saved; AppHandle::new
\* sends the chat settings to the actor.
Restart ==
  /\ Fault
  /\ current' = saved /\ lock' = "free" /\ cache' = NoFile /\ lateExport' = FALSE
  /\ actorChat' = saved.chat /\ applyUpset' = FALSE
  /\ request' = Started(saved)
  /\ kickUpset' = (kickUpset \/ TogglingKick \ {Boot} # {})
  /\ UNCHANGED <<saved, file, remote, requests>>

\* What the database holds: a configuration, or nothing, and then the default one is
\* saved.  Kick has kept the subscription of a webhook that is on.
Init ==
  /\ saved \in Stored \cup {Default} /\ current = saved /\ lock = "free"
  /\ cache = NoFile /\ file = NoFile
  /\ actorChat = saved.chat
  /\ remote = IF "kick" \in Flag /\ saved.chat.flags["kick"]
              THEN {[channel |-> saved.chat.channel, id |-> Boot]} ELSE {}
  /\ request = Started(saved)
  /\ lateExport = FALSE /\ kickUpset = FALSE /\ applyUpset = FALSE
  /\ requests = 0 /\ faults = 0

Next ==
  \/ \E r \in Request :
       \/ ToggleFlag(r) \/ SaveSettings(r) \/ OpenTargets(r) \/ SubmitTargets(r)
       \/ SwitchTarget(r) \/ ImportFile(r)
       \/ Lock(r) \/ LookupFails(r) \/ Save(r) \/ SaveFails(r) \/ EmptyCache(r) \/ PublishConfig(r)
       \/ Reread(r) \/ Apply(r) \/ ApplyFails(r)
       \/ Export(r) \/ RenderExport(r) \/ CacheExport(r) \/ ToggleKick(r)
  \/ \E r \in Caller :
       ListSubscriptions(r) \/ CreateSubscription(r) \/ DeleteSubscriptions(r) \/ KickFails(r)
  \/ Restart

Spec == Init /\ [][Next]_vars

----------------------------------------------------------------------------
(* Properties *)

Files == {NoFile} \cup Config

Subscription == [channel : Value, id : Caller]

Operation ==
  [type : {"flag", "kick"}, flag : Flag, value : BOOLEAN]
    \cup [type : {"form"}, form : Forms]
    \cup [type : {"form"},
          form : [targets : Targets,
                  action : [type : {"save", "add"}] \cup [type : {"remove"}, index : 1..MaxTargets]]]
    \cup [type : {"switch"}, index : 1..MaxTargets, name : Name \cup {Blank}, value : BOOLEAN]

\* The file of an import is what the operator makes of it, with any number of targets.
IsOperation(op) == IF op.type = "import" THEN op.config.targets \in Seq(Target) ELSE op \in Operation

IsLocal(local) ==
  CASE local.stage \in {"idle", "reread"} -> TRUE
    [] local.stage = "page"     -> local.page \in Targets
    [] local.stage = "lock"     -> IsOperation(local.op)
    [] local.stage \in {"saving", "saved", "emptied"} ->
         IsOperation(local.op) /\ local.updated \in Config /\ Valid(local.updated)
    [] local.stage = "apply"    -> local.how \in {"all", "youtube"} /\ local.chat \in ChatSettings
    [] local.stage = "rendered" -> local.json \in Config
    [] local.stage = "list"     -> local.value \in BOOLEAN /\ local.channel \in Value
    [] local.stage = "create"   -> local.channel \in Value
    [] local.stage = "delete"   -> local.found \subseteq Subscription
    [] OTHER -> FALSE

TypeOK ==
  /\ saved \in Config /\ current \in Config
  /\ lock \in Request \cup {"free"}
  /\ cache \in Files /\ file \in Files
  /\ actorChat \in ChatSettings
  /\ remote \subseteq Subscription
  /\ DOMAIN request = Caller /\ \A r \in Caller : IsLocal(request[r])
  /\ lateExport \in BOOLEAN /\ kickUpset \in BOOLEAN /\ applyUpset \in BOOLEAN
  /\ requests \in Nat /\ faults \in Nat

\* The sections, and the switches, an operation is there to change.
Writes(op, section) ==
  CASE op.type = "import" -> TRUE
    [] op.type = "form"   -> section \in DOMAIN op.form
    [] op.type = "switch" -> section = "targets"
    [] OTHER              -> section = "chat"

Sets(op, flag) ==
  CASE op.type = "import"           -> TRUE
    [] op.type \in {"flag", "kick"} -> flag = op.flag
    [] op.type = "form"             -> "chat" \in DOMAIN op.form /\ flag \in DOMAIN op.form.chat.flags
    [] OTHER                        -> FALSE

\* Requests that overlap do not undo each other: what is written to the database
\* differs from what is there only in the part the writing request was made for.
UpdatesSerialised ==
  [][saved' # saved =>
       \E r \in Request :
         LET op == request[r].op
         IN  /\ request[r].stage = "saving"
             /\ \A s \in Sections : saved'[s] # saved[s] => Writes(op, s)
             /\ \A f \in Flag : saved'.chat.flags[f] # saved.chat.flags[f] => Sets(op, f)]_vars

\* What the chat actor makes use of.
UsedByActor(chat) ==
  <<chat.capacity, chat.selectors, chat.adaptive,
    [f \in Flag \cap {"queueMode", "polling"} |-> chat.flags[f]]>>

\* An update is all or nothing: whenever none is under way, what the components
\* read is what a restart would find, after a failed save as well; and it reaches the
\* chat actor, unless sending it there failed or overlapped with another update.
UpdateAllOrNothing ==
  lock = "free" =>
    /\ current = saved
    /\ Applying = {} /\ ~applyUpset => UsedByActor(actorChat) = UsedByActor(current.chat)

SecretsOf(c) ==
  [key |-> c.server.key, webhook |-> c.notifications.webhook, password |-> c.webAuth.password,
   overlay |-> c.webAuth.overlay, apiKey |-> c.chat.apiKey, client |-> c.chat.client,
   secret |-> c.chat.secret]

\* The secrets a form asks to remove.
Cleared(form) ==
  {s \in {"webhook", "apiKey", "secret", "client"} :
     \/ s = "webhook" /\ "notifications" \in DOMAIN form /\ form.notifications.clearWebhook
     \/ s = "apiKey" /\ "chat" \in DOMAIN form /\ form.chat.clearApiKey
     \/ s = "secret" /\ "chat" \in DOMAIN form /\ form.chat.clearSecret
     \/ s = "client" /\ "chat" \in DOMAIN form /\ form.chat.client = None}

\* The keys of imported targets: the one in the file, or else that of a target with the
\* same name there is.
KeysRestored(targets, imported, restored) ==
  \A i \in DOMAIN restored :
    LET same == {j \in DOMAIN targets : targets[j].name = restored[i].name}
    IN  CASE imported[i].key # None -> restored[i].key = imported[i].key
          [] imported[i].key = None /\ same = {} -> restored[i].key = None
          [] OTHER -> \E j \in same : restored[i].key = targets[j].key

\* No update loses a secret unless its form asks for that, although neither the pages
\* nor the exported file show any; and of a file whose targets were reordered, added or
\* removed by hand, no target without a key in the file gets the key of another one,
\* while a key in the file stays.
SecretsKept ==
  [][saved' # saved =>
       \E r \in Request :
         LET op == request[r].op
             before == SecretsOf(saved)
             after  == SecretsOf(saved')
         IN  /\ request[r].stage = "saving"
             /\ \A s \in DOMAIN before : before[s] # None /\ after[s] = None
                                         => op.type = "form" /\ s \in Cleared(op.form)
             /\ op.type = "import" => KeysRestored(saved.targets, op.config.targets, saved'.targets)]_vars

\* The exported file shows the configuration in force, unless an export that had
\* read it before the last save entered the cache after that save emptied it.
ExportStaleOnlyByOverlap == cache # NoFile /\ ~lateExport => cache = Redacted(current)

\* Kick delivers the chat of the channel exactly when the flag says so, as long as no
\* toggle of it met a failure, another toggle, or an update that changed the channel
\* or the flag itself.
KickFlagTrue ==
  TogglingKick = {} /\ ~kickUpset /\ "kick" \in Flag
    => (Subscriptions(current.chat.channel) # {} <=> current.chat.flags["kick"])
============================================================================
