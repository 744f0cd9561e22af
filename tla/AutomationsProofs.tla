--------------------------- MODULE AutomationsProofs ---------------------------
(***************************************************************************)
(* Theorems about Automations for every set of messages, rules and files,  *)
(* every finite set of uploaders and every limit of the library.           *)
(***************************************************************************)
EXTENDS Automations, FiniteSetTheorems, TLAPS

----------------------------------------------------------------------------
(* The inductive invariant *)

NoRun == [ok |-> 0, failed |-> 0]

\* An id that has not been given away names no rule and no execution, so a new
\* rule starts with neither.
IdsAreFresh ==
  /\ \A r \in DOMAIN rules : r < nextRule
  /\ \A p \in Rule \X Message : p[1] >= nextRule => runs[p] = NoRun

\* The scripts are about to run on a message they have not run on.
CheckedIsNew == current.stage = "checked" => ~Processed(current.msg)

\* Behind a commit there is nothing but recorded successes.
CommitIsRecorded ==
  current.stage = "committed" =>
    /\ \A p \in current.alerts : runs[p].ok > 0
    /\ current.consumed => \E r \in Rule : runs[<<r, current.msg>>].ok > 0

\* After the one message whose scripts may run offline none is being handled.
LastOfTheStream ==
  \/ offlineRuns = {}
  \/ ~live /\ current.stage # "checked" /\ \E m \in Message : offlineRuns = {m}

Listed == {u \in Uploader : upload[u].stage = "listed"}

\* A file still to be inserted has its uploader.
RoomForListed ==
  /\ IsFiniteSet(library)
  /\ Cardinality(library) + Cardinality(Listed) <= MediaLimit - 1 + Cardinality(Uploader)

IInv ==
  /\ TypeOK /\ IdsAreFresh /\ CheckedIsNew /\ CommitIsRecorded
  /\ ExecutedOnce /\ DataMatchesRuns /\ EffectsCommitted
  /\ LastOfTheStream /\ RoomForListed

\* What a step has left alone keeps its part of the invariant.
TablesPart  == IdsAreFresh /\ ExecutedOnce /\ DataMatchesRuns
MessagePart == CheckedIsNew /\ CommitIsRecorded /\ EffectsCommitted

LEMMA TablesKept ==
  ASSUME TablesPart, UNCHANGED <<ruleTables, runs>>
  PROVE  TablesPart'
BY DEF TablesPart, IdsAreFresh, NoRun, ExecutedOnce, DataMatchesRuns, ruleTables

LEMMA MessageKept ==
  ASSUME MessagePart, UNCHANGED <<runs, inbox, current, published, cutOff>>
  PROVE  MessagePart'
BY DEF MessagePart, CheckedIsNew, Processed, Ran, CommitIsRecorded,
       EffectsCommitted, AlertsCommitted, FailuresHideNothing

LEMMA LastKept ==
  ASSUME LastOfTheStream, UNCHANGED <<live, offlineRuns>>,
         current'.stage # "checked" \/ live \/ UNCHANGED current
  PROVE  LastOfTheStream'
BY DEF LastOfTheStream

LEMMA RoomKept ==
  ASSUME RoomForListed, UNCHANGED <<library, upload>>
  PROVE  RoomForListed'
BY DEF RoomForListed, Listed

----------------------------------------------------------------------------
(* What Process does, without the runs of the scripts: the rules in ok have  *)
(* succeeded, those in writes wrote data of the author, those in shown an    *)
(* alert.                                                                    *)

Processing(matching, ok, writes, shown, hides, m) ==
  /\ shown \cup writes \subseteq ok /\ ok \subseteq matching /\ matching \subseteq DOMAIN rules
  /\ current.msg = m
  /\ runs' = Executed(ok, matching \ ok, m)
  /\ data' = Applied(ok, m)
  /\ viewers' = viewers \cup {<<r, m>> : r \in writes}
  /\ writes # {} => m \in Identified
  /\ offlineRuns' = IF live \/ matching = {} THEN offlineRuns ELSE offlineRuns \cup {m}
  /\ current' = [stage |-> "committed", msg |-> m,
                 alerts |-> {<<r, m>> : r \in shown}, consumed |-> hides]
  /\ hides => ok # {}

LEMMA ProcessIsProcessing ==
  ASSUME TypeOK, Process
  PROVE  \E matching, ok, writes, shown \in SUBSET Rule, hides \in BOOLEAN, m \in Message :
           Processing(matching, ok, writes, shown, hides, m)
<1>0. PICK matching \in SUBSET Enabled : \E evaluation \in [matching -> Evaluation] :
        LET m  == current.msg
            ok == {r \in matching : /\ Evaluated(evaluation[r], m)
                                    /\ MediaThere(evaluation[r].alerts)}
        IN  /\ runs' = Executed(ok, matching \ ok, m)
            /\ data' = Applied(ok, m)
            /\ viewers' = viewers \cup {<<r, m>> : r \in {q \in ok : evaluation[q].viewer}}
            /\ offlineRuns' = IF live \/ matching = {} THEN offlineRuns
                              ELSE offlineRuns \cup {m}
            /\ current' = Committed(evaluation, ok, m)
  BY DEF Process
<1>1. PICK evaluation \in [matching -> Evaluation] :
        LET m  == current.msg
            ok == {r \in matching : /\ Evaluated(evaluation[r], m)
                                    /\ MediaThere(evaluation[r].alerts)}
        IN  /\ runs' = Executed(ok, matching \ ok, m)
            /\ data' = Applied(ok, m)
            /\ viewers' = viewers \cup {<<r, m>> : r \in {q \in ok : evaluation[q].viewer}}
            /\ offlineRuns' = IF live \/ matching = {} THEN offlineRuns
                              ELSE offlineRuns \cup {m}
            /\ current' = Committed(evaluation, ok, m)
  BY <1>0
<1> DEFINE m      == current.msg
           ok     == {r \in matching : /\ Evaluated(evaluation[r], m)
                                       /\ MediaThere(evaluation[r].alerts)}
           writes == {q \in ok : evaluation[q].viewer}
           shown  == {q \in ok : evaluation[q].alerts # {}}
           hides  == Consumed(ok, DOMAIN evaluation)
<1>2. m \in Message
  <2>1. current.stage = "checked" /\ current \in Handling
    BY DEF Process, TypeOK
  <2> QED BY <2>1 DEF Handling, Idle
<1>3. /\ shown \cup writes \subseteq ok /\ ok \subseteq matching
      /\ matching \subseteq DOMAIN rules /\ matching \subseteq Rule
  BY DEF Enabled, TypeOK
<1>4. writes # {} => m \in Identified
  <2>1. ASSUME NEW q \in writes PROVE m \in Identified
    BY <2>1 DEF Evaluated
  <2> QED BY <2>1
<1>5. hides \in BOOLEAN /\ (hides => ok # {})
  BY DEF Consumed
<1>6. Processing(matching, ok, writes, shown, hides, m)
  BY <1>1, <1>3, <1>4, <1>5 DEF Processing, Committed
<1> QED BY <1>2, <1>3, <1>5, <1>6

----------------------------------------------------------------------------
(* Typing *)

LEMMA TypeStep ==
  ASSUME TypeOK, [Next]_vars
  PROVE  TypeOK'
<1> USE DEF TypeOK
<1>1. CASE SaveAutomation
  BY <1>1, RuleAssumption DEF SaveAutomation, Edit, OtherThanRules, Draft, Definition
<1>2. CASE ToggleAutomation
  BY <1>2 DEF ToggleAutomation, Edit, OtherThanRules, Definition
<1>3. CASE DeleteAutomation
  BY <1>3 DEF DeleteAutomation, Edit, OtherThanRules
<1>4. ASSUME NEW m \in Message, Deliver(m) PROVE TypeOK'
  BY <1>4 DEF Deliver, ruleTables, Handling, Idle
<1>5. CASE Process
  <2>1. PICK matching, ok, writes, shown \in SUBSET Rule, hides \in BOOLEAN, m \in Message :
          Processing(matching, ok, writes, shown, hides, m)
    BY <1>5, ProcessIsProcessing
  <2>2. runs' \in [Rule \X Message -> Outcome]
    BY <2>1 DEF Processing, Executed, Outcome
  <2>3. data' \in [Rule \X Message -> Nat]
    BY <2>1 DEF Processing, Applied
  <2>4. current' \in Handling
    BY <2>1 DEF Processing, Handling
  <2>5. viewers' \subseteq Rule \X Message /\ offlineRuns' \subseteq Message
    BY <2>1 DEF Processing
  <2> QED BY <1>5, <2>2, <2>3, <2>4, <2>5 DEF Process
<1>6. CASE ProcessFails
  BY <1>6 DEF ProcessFails, Fault, ruleTables, Handling, Idle
<1>7. CASE Publish
  BY <1>7 DEF Publish, ruleTables, Handling, Idle
<1>8. CASE IntoInbox
  BY <1>8 DEF IntoInbox, ruleTables, Handling, Idle
<1>9. CASE IntoInboxFails
  BY <1>9 DEF IntoInboxFails, CutOff, Fault, ruleTables, Handling, Idle
<1>10. CASE TrimSeen
  BY <1>10 DEF TrimSeen, Edit, ruleTables
<1>11. CASE StatusChanges
  BY <1>11 DEF StatusChanges, Edit, ruleTables
<1>12. CASE Restart
  <2>1. upload' \in [Uploader -> Uploading] /\ current' \in Handling
    BY <1>12 DEF Restart, Handling, Idle, Uploading, NoUpload
  <2>2. /\ UNCHANGED <<rules, nextRule, data, viewers, runs, seen, inbox, library>>
        /\ UNCHANGED <<published, deliveries, edits>> /\ cutOff' \subseteq Message
        /\ live' = FALSE /\ offlineRuns' = {} /\ faults' = faults + 1
    BY <1>12 DEF Restart, CutOff, Fault, ruleTables
  <2>3. /\ DOMAIN rules' \subseteq Rule /\ rules' \in [DOMAIN rules' -> Definition]
        /\ nextRule' \in Nat /\ viewers' \subseteq Rule \X Message
        /\ data' \in [Rule \X Message -> Nat] /\ runs' \in [Rule \X Message -> Outcome]
    BY <2>2
  <2>4. /\ seen' \subseteq Message /\ inbox' \subseteq Message /\ library' \subseteq File
        /\ published' \subseteq Rule \X Message /\ cutOff' \subseteq Message
        /\ deliveries' \in Nat /\ edits' \in Nat /\ faults' \in Nat
    BY <2>2
  <2> QED BY <2>1, <2>2, <2>3, <2>4
<1>13. ASSUME NEW u \in Uploader, UploadLists(u) PROVE TypeOK'
  BY <1>13 DEF UploadLists, Edit, OtherThanMedia, ruleTables, Uploading, NoUpload
<1>14. ASSUME NEW u \in Uploader, UploadInserts(u) PROVE TypeOK'
  BY <1>14 DEF UploadInserts, OtherThanMedia, ruleTables, Uploading, NoUpload
<1>15. CASE DeleteMedia
  BY <1>15 DEF DeleteMedia, Edit, OtherThanMedia, ruleTables
<1>16. CASE UNCHANGED vars
  BY <1>16 DEF vars, ruleTables
<1> QED
  BY <1>1, <1>2, <1>3, <1>4, <1>5, <1>6, <1>7, <1>8, <1>9, <1>10, <1>11, <1>12,
     <1>13, <1>14, <1>15, <1>16 DEF Next

LEMMA InitTyped == Init => TypeOK
<1> SUFFICES ASSUME Init PROVE TypeOK
  OBVIOUS
<1>1. DOMAIN rules \subseteq Rule /\ rules \in [DOMAIN rules -> Definition]
  BY DEF Init
<1>2. /\ data \in [Rule \X Message -> Nat] /\ runs \in [Rule \X Message -> Outcome]
      /\ nextRule \in Nat /\ viewers \subseteq Rule \X Message
  BY DEF Init, Outcome
<1>3. live \in BOOLEAN /\ current \in Handling /\ upload \in [Uploader -> Uploading]
  BY DEF Init, Handling, Idle, Uploading, NoUpload
<1> QED BY <1>1, <1>2, <1>3 DEF Init, TypeOK

\* Every table, the actor's state and the uploads stay well typed (automations/mod.rs).
THEOREM AutomationsTypeCorrect == Spec => []TypeOK
BY InitTyped, TypeStep, PTL DEF Spec

----------------------------------------------------------------------------
(* The scripts of a message *)

\* A message about to run its scripts has no record under any rule.
LEMMA NewHasNoRun ==
  ASSUME TypeOK, current.stage = "checked", CheckedIsNew, NEW r \in Rule
  PROVE  runs[<<r, current.msg>>] = NoRun
<1>1. current.msg \in Message
  BY DEF TypeOK, Handling, Idle
<1>2. runs[<<r, current.msg>>] \in Outcome
  BY <1>1 DEF TypeOK
<1>3. ~(runs[<<r, current.msg>>].ok + runs[<<r, current.msg>>].failed > 0)
  BY DEF CheckedIsNew, Processed, Ran
<1> QED BY <1>2, <1>3 DEF Outcome, NoRun

LEMMA ProcessTables ==
  ASSUME TypeOK, TablesPart, CheckedIsNew, Process
  PROVE  TablesPart'
<1>1. PICK matching, ok, writes, shown \in SUBSET Rule, hides \in BOOLEAN, m \in Message :
        Processing(matching, ok, writes, shown, hides, m)
  BY ProcessIsProcessing
<1>2. UNCHANGED <<rules, nextRule>> /\ current.stage = "checked" /\ current.msg = m
  BY <1>1 DEF Process, Processing
<1>3. \A r \in Rule : runs[<<r, m>>] = NoRun
  BY <1>2, NewHasNoRun
<1>4. \A p \in Rule \X Message :
        /\ p[2] = m /\ p[1] \in ok => runs'[p] = [ok |-> 1, failed |-> 0]
        /\ p[2] = m /\ p[1] \in matching \ ok => runs'[p] = [ok |-> 0, failed |-> 1]
        /\ ~(p[2] = m /\ p[1] \in matching) => runs'[p] = runs[p]
  <2> TAKE p \in Rule \X Message
  <2>1. p \in DOMAIN runs /\ (p[2] = m => runs[p] = NoRun)
    BY <1>3 DEF TypeOK
  <2>2. ok \subseteq matching
    BY <1>1 DEF Processing
  <2>3. runs'[p] = CASE p[2] = m /\ p[1] \in ok -> [runs[p] EXCEPT !.ok = @ + 1]
                     [] p[2] = m /\ p[1] \in matching \ ok -> [runs[p] EXCEPT !.failed = @ + 1]
                     [] OTHER -> runs[p]
    BY <1>1, <2>1 DEF Processing, Executed
  <2> QED BY <2>1, <2>2, <2>3 DEF NoRun
<1>5. IdsAreFresh'
  <2>1. \A r \in matching : r < nextRule
    BY <1>1 DEF TablesPart, IdsAreFresh, Processing
  <2>2. ASSUME NEW p \in Rule \X Message, p[1] >= nextRule PROVE runs'[p] = NoRun
    <3>1. p[1] \notin matching
      BY <2>1, <2>2, RuleAssumption DEF TypeOK
    <3> QED BY <1>4, <2>2, <3>1 DEF TablesPart, IdsAreFresh
  <2> QED BY <1>2, <2>2 DEF TablesPart, IdsAreFresh
<1>6. ExecutedOnce'
  <2>1. ASSUME NEW p \in Rule \X Message PROVE runs'[p].ok + runs'[p].failed <= 1
    <3>1. CASE p[2] = m /\ p[1] \in matching
      <4>1. runs'[p] \in {[ok |-> 1, failed |-> 0], [ok |-> 0, failed |-> 1]}
        BY <1>4, <3>1
      <4> QED BY <4>1
    <3>2. CASE ~(p[2] = m /\ p[1] \in matching)
      BY <1>4, <3>2 DEF TablesPart, ExecutedOnce
    <3> QED BY <3>1, <3>2
  <2> QED BY <2>1 DEF ExecutedOnce
<1>7. \A p \in Rule \X Message :
        data'[p] = IF p[2] = m /\ p[1] \in ok THEN data[p] + 1 ELSE data[p]
  BY <1>1 DEF Processing, Applied, TypeOK
<1>8. ok \subseteq DOMAIN rules /\ ok \subseteq matching /\ writes \subseteq ok
  BY <1>1 DEF Processing
<1>9. ASSUME NEW p \in Rule \X Message
      PROVE  data'[p] = IF p[1] \in DOMAIN rules THEN runs'[p].ok ELSE 0
  <2>1. data[p] = IF p[1] \in DOMAIN rules THEN runs[p].ok ELSE 0
    BY DEF TablesPart, DataMatchesRuns
  <2>2. CASE p[2] = m /\ p[1] \in ok
    BY <1>3, <1>4, <1>7, <1>8, <2>1, <2>2 DEF NoRun
  <2>3. CASE p[2] = m /\ p[1] \in matching \ ok
    BY <1>3, <1>4, <1>7, <1>8, <2>1, <2>3 DEF NoRun
  <2>4. CASE ~(p[2] = m /\ p[1] \in matching)
    BY <1>4, <1>7, <1>8, <2>1, <2>4
  <2> QED BY <2>2, <2>3, <2>4
<1>10. ASSUME NEW p \in viewers' PROVE data'[p] > 0 /\ p[2] \in Identified
  <2>1. CASE p \in viewers
    <3>1. p \in Rule \X Message /\ data[p] > 0 /\ p[2] \in Identified /\ data[p] \in Nat
      BY <2>1 DEF TablesPart, DataMatchesRuns, TypeOK
    <3> QED BY <1>7, <3>1
  <2>2. CASE p \notin viewers
    <3>1. PICK r \in writes : p = <<r, m>>
      BY <1>1, <2>2, <1>10 DEF Processing
    <3>2. p \in Rule \X Message /\ data[p] \in Nat
      BY <3>1 DEF TypeOK
    <3> QED BY <1>1, <1>7, <1>8, <3>1, <3>2 DEF Processing
  <2> QED BY <2>1, <2>2
<1> QED BY <1>2, <1>5, <1>6, <1>9, <1>10 DEF TablesPart, DataMatchesRuns

LEMMA ProcessMessage ==
  ASSUME TypeOK, MessagePart, Process
  PROVE  MessagePart'
<1>1. PICK matching, ok, writes, shown \in SUBSET Rule, hides \in BOOLEAN, m \in Message :
        Processing(matching, ok, writes, shown, hides, m)
  BY ProcessIsProcessing
<1>2. UNCHANGED <<inbox, published, cutOff>>
  BY DEF Process
<1>3. \A p \in Rule \X Message : runs[p].ok > 0 => runs'[p].ok > 0
  <2> TAKE p \in Rule \X Message
  <2>1. runs[p] \in Outcome
    BY DEF TypeOK
  <2>2. runs'[p] = CASE p[2] = m /\ p[1] \in ok -> [runs[p] EXCEPT !.ok = @ + 1]
                     [] p[2] = m /\ p[1] \in matching \ ok -> [runs[p] EXCEPT !.failed = @ + 1]
                     [] OTHER -> runs[p]
    BY <1>1 DEF Processing, Executed, TypeOK
  <2> QED BY <2>1, <2>2 DEF Outcome
<1>4. \A r \in ok : runs'[<<r, m>>].ok > 0
  <2> TAKE r \in ok
  <2>1. runs[<<r, m>>] \in Outcome /\ <<r, m>> \in DOMAIN runs
    BY DEF TypeOK
  <2>2. runs'[<<r, m>>] = [runs[<<r, m>>] EXCEPT !.ok = @ + 1]
    BY <1>1, <2>1 DEF Processing, Executed
  <2> QED BY <2>1, <2>2 DEF Outcome
<1>5. current' = [stage |-> "committed", msg |-> m,
                  alerts |-> {<<r, m>> : r \in shown}, consumed |-> hides]
      /\ shown \subseteq ok /\ (hides => ok # {})
  BY <1>1 DEF Processing
<1>6. CheckedIsNew'
  BY <1>5 DEF CheckedIsNew
<1>7. CommitIsRecorded'
  <2>1. \A p \in current'.alerts : runs'[p].ok > 0
    BY <1>4, <1>5
  <2>2. current'.consumed => \E r \in Rule : runs'[<<r, current'.msg>>].ok > 0
    BY <1>4, <1>5
  <2> QED BY <2>1, <2>2 DEF CommitIsRecorded
<1>8. AlertsCommitted'
  BY <1>2, <1>3 DEF MessagePart, EffectsCommitted, AlertsCommitted, TypeOK
<1>9. FailuresHideNothing'
  <2> SUFFICES ASSUME NEW x \in Message, Processed(x)', x # m
               PROVE  x \in inbox \/ (\E r \in Rule : runs'[<<r, x>>].ok > 0) \/ x \in cutOff
    BY <1>2, <1>5 DEF FailuresHideNothing, Idle
  <2>1. \A r \in Rule : runs'[<<r, x>>] = runs[<<r, x>>]
    BY <1>1 DEF Processing, Executed, TypeOK
  <2>2. Processed(x) /\ current.msg # x
    BY <1>1, <2>1 DEF Processed, Ran, Processing
  <2> QED BY <2>1, <2>2 DEF MessagePart, EffectsCommitted, FailuresHideNothing
<1> QED BY <1>6, <1>7, <1>8, <1>9 DEF MessagePart, EffectsCommitted

----------------------------------------------------------------------------
(* The other actions *)

LEMMA SaveTables ==
  ASSUME TypeOK, TablesPart, SaveAutomation
  PROVE  TablesPart'
<1>1. UNCHANGED <<data, viewers, runs>>
  BY DEF SaveAutomation, OtherThanRules
<1>2. CASE DOMAIN rules' = DOMAIN rules /\ nextRule' = nextRule
  BY <1>1, <1>2 DEF TablesPart, IdsAreFresh, ExecutedOnce, DataMatchesRuns
<1>3. CASE /\ nextRule \in Rule /\ DOMAIN rules' = DOMAIN rules \cup {nextRule}
           /\ nextRule' = nextRule + 1
  <2>1. \A r \in DOMAIN rules : r \in Nat /\ r < nextRule
    BY RuleAssumption DEF TypeOK, TablesPart, IdsAreFresh
  <2>2. \A p \in Rule \X Message :
          p[1] \in Nat /\ (p[1] >= nextRule => runs[p] = NoRun)
    BY RuleAssumption DEF TablesPart, IdsAreFresh
  <2>3. IdsAreFresh'
    BY <1>1, <1>3, <2>1, <2>2 DEF IdsAreFresh, TypeOK
  <2>4. ASSUME NEW p \in Rule \X Message
        PROVE  data[p] = IF p[1] \in DOMAIN rules' THEN runs[p].ok ELSE 0
    <3>1. data[p] = IF p[1] \in DOMAIN rules THEN runs[p].ok ELSE 0
      BY DEF TablesPart, DataMatchesRuns
    <3>2. CASE p[1] = nextRule
      BY <1>3, <2>1, <2>2, <3>1, <3>2 DEF NoRun
    <3>3. CASE p[1] # nextRule
      BY <1>3, <3>1, <3>3
    <3> QED BY <3>2, <3>3
  <2> QED BY <1>1, <2>3, <2>4 DEF TablesPart, ExecutedOnce, DataMatchesRuns
<1> QED BY <1>2, <1>3 DEF SaveAutomation

LEMMA DeleteTables ==
  ASSUME TypeOK, TablesPart, DeleteAutomation
  PROVE  TablesPart'
<1>1. PICK r \in DOMAIN rules :
        /\ rules' = [s \in DOMAIN rules \ {r} |-> rules[s]]
        /\ data' = [p \in DOMAIN data |-> IF p[1] = r THEN 0 ELSE data[p]]
        /\ viewers' = {p \in viewers : p[1] # r}
  BY DEF DeleteAutomation
<1>2. UNCHANGED <<nextRule, runs>>
  BY DEF DeleteAutomation, OtherThanRules
<1>3. IdsAreFresh' /\ ExecutedOnce'
  BY <1>1, <1>2 DEF TablesPart, IdsAreFresh, ExecutedOnce
<1>4. \A p \in Rule \X Message : data'[p] = IF p[1] = r THEN 0 ELSE data[p]
  BY <1>1 DEF TypeOK
<1>5. \A p \in Rule \X Message :
        data'[p] = IF p[1] \in DOMAIN rules' THEN runs'[p].ok ELSE 0
  BY <1>1, <1>2, <1>4 DEF TablesPart, DataMatchesRuns
<1>6. \A p \in viewers' : data'[p] > 0 /\ p[2] \in Identified
  BY <1>1, <1>4 DEF TablesPart, DataMatchesRuns, TypeOK
<1> QED BY <1>3, <1>5, <1>6 DEF TablesPart, DataMatchesRuns

\* The tables change in these three steps only.
LEMMA TablesStep ==
  ASSUME TypeOK, TablesPart, CheckedIsNew, [Next]_vars
  PROVE  TablesPart'
<1>1. CASE SaveAutomation
  BY <1>1, SaveTables
<1>2. CASE ToggleAutomation
  <2>1. DOMAIN rules' = DOMAIN rules /\ UNCHANGED <<nextRule, data, viewers, runs>>
    BY <1>2 DEF ToggleAutomation, OtherThanRules
  <2> QED BY <2>1 DEF TablesPart, IdsAreFresh, ExecutedOnce, DataMatchesRuns
<1>3. CASE DeleteAutomation
  BY <1>3, DeleteTables
<1>4. CASE Process
  BY <1>4, ProcessTables
<1>5. CASE ~(SaveAutomation \/ ToggleAutomation \/ DeleteAutomation \/ Process)
  <2>1. UNCHANGED <<ruleTables, runs>>
    BY <1>5 DEF Next, Deliver, ProcessFails, Publish, IntoInbox, IntoInboxFails, TrimSeen,
       StatusChanges, Restart, UploadLists, UploadInserts, DeleteMedia, OtherThanMedia, vars
  <2> QED BY <2>1, TablesKept
<1> QED BY <1>1, <1>2, <1>3, <1>4, <1>5

LEMMA MessageStep ==
  ASSUME TypeOK, MessagePart, [Next]_vars
  PROVE  MessagePart'
<1> USE DEF MessagePart, EffectsCommitted
<1>1. ASSUME NEW m \in Message, Deliver(m) PROVE MessagePart'
  <2>1. UNCHANGED <<runs, inbox, published, cutOff>>
    BY <1>1 DEF Deliver, ruleTables
  <2>2. current'.stage # "committed" /\ (current'.stage = "checked" => ~Processed(m) /\ current'.msg = m)
    BY <1>1 DEF Deliver, Idle
  <2>3. current = Idle
    BY <1>1 DEF Deliver
  <2> QED BY <2>1, <2>2, <2>3 DEF CheckedIsNew, Processed, Ran, CommitIsRecorded,
          AlertsCommitted, FailuresHideNothing
<1>2. CASE Process
  BY <1>2, ProcessMessage
<1>3. CASE Publish
  <2>1. /\ current.stage = "committed" /\ UNCHANGED <<runs, inbox, cutOff>>
        /\ published' = published \cup current.alerts
        /\ current' = IF current.consumed THEN Idle ELSE [stage |-> "inbox", msg |-> current.msg]
    BY <1>3 DEF Publish, ruleTables
  <2>2. AlertsCommitted'
    BY <2>1 DEF CommitIsRecorded, AlertsCommitted
  <2>3. FailuresHideNothing'
    <3> SUFFICES ASSUME NEW m \in Message, Processed(m), current.msg = m, current.consumed
                 PROVE  \E r \in Rule : runs[<<r, m>>].ok > 0
      BY <2>1 DEF FailuresHideNothing, Processed, Ran, Idle
    <3> QED BY <2>1 DEF CommitIsRecorded
  <2>4. current'.stage \in {"idle", "inbox"}
    BY <2>1 DEF Idle
  <2> QED BY <2>2, <2>3, <2>4 DEF CheckedIsNew, CommitIsRecorded
<1>4. CASE IntoInbox
  <2>1. /\ UNCHANGED <<runs, published, cutOff>> /\ current' = Idle
        /\ inbox' = inbox \cup {current.msg}
    BY <1>4 DEF IntoInbox, ruleTables
  <2> QED BY <2>1 DEF CheckedIsNew, CommitIsRecorded, AlertsCommitted, FailuresHideNothing,
          Processed, Ran, Idle
<1>5. CASE ProcessFails \/ IntoInboxFails \/ Restart
  <2>1. UNCHANGED <<runs, inbox, published>> /\ current' = Idle
    BY <1>5 DEF ProcessFails, IntoInboxFails, Restart, ruleTables
  <2>2. cutOff \subseteq cutOff'
    BY <1>5 DEF ProcessFails, IntoInboxFails, Restart, CutOff
  <2>3. ASSUME NEW m \in Message, Processed(m), current # Idle, current.msg = m
        PROVE  m \in cutOff'
    <3>1. current.stage \in {"committed", "inbox"}
      BY <2>3 DEF TypeOK, Handling, CheckedIsNew
    <3>2. cutOff' = cutOff \cup {x \in Message : current.msg = x /\ Processed(x)}
      BY <1>5, <3>1 DEF ProcessFails, IntoInboxFails, Restart, CutOff
    <3> QED BY <2>3, <3>2
  <2>4. FailuresHideNothing'
    BY <2>1, <2>2, <2>3 DEF FailuresHideNothing, Processed, Ran
  <2> QED BY <2>1, <2>4 DEF CheckedIsNew, CommitIsRecorded, AlertsCommitted, Idle
<1>6. CASE SaveAutomation \/ ToggleAutomation \/ DeleteAutomation \/ TrimSeen \/ StatusChanges
           \/ (\E u \in Uploader : UploadLists(u) \/ UploadInserts(u)) \/ DeleteMedia
           \/ UNCHANGED vars
  <2>1. UNCHANGED <<runs, inbox, current, published, cutOff>>
    BY <1>6 DEF SaveAutomation, ToggleAutomation, DeleteAutomation, OtherThanRules, TrimSeen,
       StatusChanges, UploadLists, UploadInserts, DeleteMedia, OtherThanMedia, ruleTables, vars
  <2> QED BY <2>1, MessageKept
<1> QED BY <1>1, <1>2, <1>3, <1>4, <1>5, <1>6 DEF Next

LEMMA LastStep ==
  ASSUME TypeOK, LastOfTheStream, [Next]_vars
  PROVE  LastOfTheStream'
<1>1. ASSUME NEW m \in Message, Deliver(m) PROVE LastOfTheStream'
  <2>1. UNCHANGED <<live, offlineRuns>> /\ (current'.stage = "checked" => live)
    BY <1>1 DEF Deliver, Idle
  <2> QED BY <2>1, LastKept
<1>2. CASE Process
  <2>1. PICK matching, ok, writes, shown \in SUBSET Rule, hides \in BOOLEAN, m \in Message :
          Processing(matching, ok, writes, shown, hides, m)
    BY <1>2, ProcessIsProcessing
  <2>2. offlineRuns = {} /\ current'.stage = "committed" /\ UNCHANGED live
        /\ offlineRuns' = IF live \/ matching = {} THEN offlineRuns ELSE offlineRuns \cup {m}
    BY <1>2, <2>1 DEF Process, Processing, LastOfTheStream
  <2>3. live => offlineRuns' = {}
    BY <2>2
  <2>4. ~live => offlineRuns' = {} \/ offlineRuns' = {m}
    BY <2>2
  <2> QED BY <2>2, <2>3, <2>4 DEF LastOfTheStream
<1>3. CASE ProcessFails \/ Publish \/ IntoInbox \/ IntoInboxFails
  <2>1. UNCHANGED <<live, offlineRuns>> /\ current'.stage \in {"idle", "inbox"}
    BY <1>3 DEF ProcessFails, Publish, IntoInbox, IntoInboxFails, Idle
  <2> QED BY <2>1, LastKept
<1>4. CASE StatusChanges \/ Restart
  BY <1>4 DEF StatusChanges, Restart, LastOfTheStream
<1>5. CASE SaveAutomation \/ ToggleAutomation \/ DeleteAutomation \/ TrimSeen
           \/ (\E u \in Uploader : UploadLists(u) \/ UploadInserts(u)) \/ DeleteMedia
           \/ UNCHANGED vars
  <2>1. UNCHANGED <<live, offlineRuns, current>>
    BY <1>5 DEF SaveAutomation, ToggleAutomation, DeleteAutomation, OtherThanRules, TrimSeen,
       UploadLists, UploadInserts, DeleteMedia, OtherThanMedia, ruleTables, vars
  <2> QED BY <2>1, LastKept
<1> QED BY <1>1, <1>2, <1>3, <1>4, <1>5 DEF Next

----------------------------------------------------------------------------
(* The library *)

LEMMA CountOfListed ==
  ASSUME NEW S \in SUBSET Uploader
  PROVE  IsFiniteSet(S) /\ Cardinality(S) \in Nat /\ Cardinality(S) <= Cardinality(Uploader)
         /\ Cardinality(Uploader) \in Nat
BY UploaderAssumption, FS_Subset, FS_CardinalityType

\* The sum of two numbers, when one gives way to the other.
LEMMA Sums ==
  /\ \A x, l, n, c \in Int : x < n /\ l <= c => x + l <= n - 1 + c
  /\ \A x, y, l, k, b \in Int : x + l <= b /\ y <= x + 1 /\ k = l - 1 => y + k <= b
  /\ \A x, y, l, b \in Int : x + l <= b /\ y <= x => y + l <= b
  /\ \A x, l, n, c \in Int : x + l <= n - 1 + c /\ l >= 0 => x < n + c
OBVIOUS

LEMMA RoomStep ==
  ASSUME TypeOK, RoomForListed, [Next]_vars
  PROVE  RoomForListed'
<1> DEFINE bound == MediaLimit - 1 + Cardinality(Uploader)
<1>1. /\ IsFiniteSet(library) /\ Cardinality(library) \in Nat
      /\ Cardinality(library) + Cardinality(Listed) <= bound
      /\ MediaLimit \in Nat /\ MediaLimit >= 1 /\ bound \in Int
      /\ Cardinality(Uploader) \in Nat
  BY FS_CardinalityType, CountOfListed, LimitsAssumption DEF RoomForListed
<1>2. Listed \in SUBSET Uploader /\ Listed' \in SUBSET Uploader
  BY DEF Listed
<1>3. /\ IsFiniteSet(Listed) /\ Cardinality(Listed) \in Nat
      /\ IsFiniteSet(Listed') /\ Cardinality(Listed') \in Nat
      /\ Cardinality(Listed') <= Cardinality(Uploader)
  BY <1>2, CountOfListed
<1>4. ASSUME NEW u \in Uploader, UploadLists(u) PROVE RoomForListed'
  <2>1. UNCHANGED library /\ Cardinality(library) < MediaLimit
    BY <1>4 DEF UploadLists
  <2> QED BY <1>1, <1>3, <2>1, Sums DEF RoomForListed
<1>5. ASSUME NEW u \in Uploader, UploadInserts(u) PROVE RoomForListed'
  <2>1. /\ u \in Listed /\ library' = library \cup {upload[u].name}
        /\ upload' = [upload EXCEPT ![u] = NoUpload]
    BY <1>5 DEF UploadInserts, Listed
  <2>2. Listed' = Listed \ {u}
    BY <2>1 DEF Listed, NoUpload, TypeOK
  <2>3. Cardinality(Listed') = Cardinality(Listed) - 1
    BY <1>3, <2>1, <2>2, FS_RemoveElement
  <2>4. IsFiniteSet(library') /\ Cardinality(library') <= Cardinality(library) + 1
        /\ Cardinality(library') \in Nat
    <3>1. /\ IsFiniteSet(library')
          /\ Cardinality(library') = IF upload[u].name \in library THEN Cardinality(library)
                                     ELSE Cardinality(library) + 1
      BY <1>1, <2>1, FS_AddElement
    <3>2. Cardinality(library') \in Nat
      BY <3>1, FS_CardinalityType
    <3> QED BY <1>1, <3>1, <3>2
  <2>5. Cardinality(library') + Cardinality(Listed') <= bound
    BY <1>1, <1>3, <2>3, <2>4, Sums
  <2> QED BY <2>4, <2>5 DEF RoomForListed
<1>6. CASE DeleteMedia
  <2>1. PICK f \in library : library' = library \ {f}
    BY <1>6 DEF DeleteMedia
  <2>2. UNCHANGED upload /\ Listed' = Listed
    BY <1>6 DEF DeleteMedia, Listed
  <2>3. IsFiniteSet(library') /\ Cardinality(library') <= Cardinality(library)
        /\ Cardinality(library') \in Nat
    <3>1. IsFiniteSet(library') /\ Cardinality(library') = Cardinality(library) - 1
      BY <1>1, <2>1, FS_RemoveElement
    <3>2. Cardinality(library') \in Nat
      BY <3>1, FS_CardinalityType
    <3> QED BY <1>1, <3>1, <3>2
  <2>4. Cardinality(library') + Cardinality(Listed) <= bound
    BY <1>1, <1>3, <2>3, Sums
  <2> QED BY <2>2, <2>3, <2>4 DEF RoomForListed
<1>7. CASE Restart
  <2>1. UNCHANGED library /\ Listed' = {}
    BY <1>7 DEF Restart, Listed, NoUpload
  <2>2. Cardinality(Listed') = 0
    BY <2>1, FS_EmptySet
  <2>3. Cardinality(library) + 0 <= bound
    BY <1>1, <1>3
  <2> QED BY <1>1, <2>1, <2>2, <2>3 DEF RoomForListed
<1>8. CASE ~(DeleteMedia \/ Restart \/ \E u \in Uploader : UploadLists(u) \/ UploadInserts(u))
  <2>1. UNCHANGED <<library, upload>>
    BY <1>8 DEF Next, SaveAutomation, ToggleAutomation, DeleteAutomation, OtherThanRules,
       Deliver, Process, ProcessFails, Publish, IntoInbox, IntoInboxFails, TrimSeen,
       StatusChanges, vars
  <2> QED BY <2>1, RoomKept
<1> QED BY <1>4, <1>5, <1>6, <1>7, <1>8

----------------------------------------------------------------------------
(* The theorems *)

LEMMA InitialInvariant == Init => IInv
<1> SUFFICES ASSUME Init PROVE IInv
  OBVIOUS
<1>1. IdsAreFresh /\ ExecutedOnce
  BY DEF Init, IdsAreFresh, NoRun, ExecutedOnce
<1>2. DataMatchesRuns
  BY DEF Init, DataMatchesRuns
<1>3. CheckedIsNew /\ CommitIsRecorded /\ AlertsCommitted /\ LastOfTheStream
  BY DEF Init, Idle, CheckedIsNew, CommitIsRecorded, AlertsCommitted, LastOfTheStream
<1>5. FailuresHideNothing
  <2>1. ASSUME NEW m \in Message, NEW r \in Rule PROVE ~Ran(r, m)
    <3>1. runs[<<r, m>>] = [ok |-> 0, failed |-> 0]
      BY DEF Init
    <3> QED BY <3>1 DEF Ran
  <2> QED BY <2>1 DEF FailuresHideNothing, Processed
<1>4. RoomForListed
  <2>1. library = {} /\ Listed = {}
    BY DEF Init, Listed, NoUpload
  <2> QED BY <2>1, FS_EmptySet, CountOfListed, LimitsAssumption DEF RoomForListed
<1> QED BY <1>1, <1>2, <1>3, <1>4, <1>5, InitTyped DEF IInv, EffectsCommitted

LEMMA InductiveInvariant == IInv /\ [Next]_vars => IInv'
<1> SUFFICES ASSUME IInv, [Next]_vars PROVE IInv'
  OBVIOUS
<1>1. TypeOK /\ TablesPart /\ MessagePart /\ CheckedIsNew /\ LastOfTheStream /\ RoomForListed
  BY DEF IInv, TablesPart, MessagePart
<1>2. TypeOK' /\ TablesPart' /\ MessagePart' /\ LastOfTheStream' /\ RoomForListed'
  BY <1>1, TypeStep, TablesStep, MessageStep, LastStep, RoomStep
<1> QED BY <1>2 DEF IInv, TablesPart, MessagePart

THEOREM AlwaysIInv == Spec => []IInv
BY InitialInvariant, InductiveInvariant, PTL DEF Spec

\* Whatever happens to the rule, the claim or the process, no automation runs twice
\* on the same message (process, was_processed).
THEOREM EveryRuleExecutesOnce == Spec => []ExecutedOnce
<1>1. IInv => ExecutedOnce
  BY DEF IInv
<1> QED BY <1>1, AlwaysIInv, PTL

\* The saved data of the rules and the execution records never part (process, delete).
THEOREM DataAlwaysMatchesRuns == Spec => []DataMatchesRuns
<1>1. IInv => DataMatchesRuns
  BY DEF IInv
<1> QED BY <1>1, AlwaysIInv, PTL

\* No alert without a committed success, and no message kept out of the inbox by its
\* scripts without one, except where a failed insert or a crash came between the two
\* transactions (handle_enqueue, process, was_processed).
THEOREM EffectsAlwaysCommitted == Spec => []EffectsCommitted
<1>1. IInv => EffectsCommitted
  BY DEF IInv
<1> QED BY <1>1, AlwaysIInv, PTL

\* After the end of a stream at most the message in hand still runs scripts
\* (handle_enqueue reads the status once).
THEOREM ScriptsAlwaysEndWithStream == Spec => []ScriptsEndWithStream
<1>1. IInv => ScriptsEndWithStream
  <2>1. Cardinality({}) = 0 /\ \A m : Cardinality({m}) = 1
    BY FS_EmptySet, FS_Singleton
  <2>2. ASSUME LastOfTheStream PROVE Cardinality(offlineRuns) <= 1
    <3>1. offlineRuns = {} \/ \E m \in Message : offlineRuns = {m}
      BY <2>2 DEF LastOfTheStream
    <3>2. Cardinality(offlineRuns) \in {0, 1}
      BY <2>1, <3>1
    <3> QED BY <3>2
  <2> QED BY <2>2 DEF IInv, ScriptsEndWithStream
<1> QED BY <1>1, AlwaysIInv, PTL

\* However many uploads overlap, each brings at most one file too many (upload).
THEOREM OvershootBounded == Spec => []LibraryOvershoot
<1>1. IInv => LibraryOvershoot
  <2> SUFFICES ASSUME IInv PROVE LibraryOvershoot
    OBVIOUS
  <2>1. /\ Cardinality(library) \in Nat /\ MediaLimit \in Nat
        /\ Cardinality(library) + Cardinality(Listed) <= MediaLimit - 1 + Cardinality(Uploader)
    BY FS_CardinalityType, LimitsAssumption DEF IInv, RoomForListed
  <2>2. Listed \in SUBSET Uploader
    BY DEF Listed
  <2>3. /\ Cardinality(Listed) \in Nat /\ Cardinality(Uploader) \in Nat
        /\ Cardinality(Listed) >= 0
    BY <2>2, CountOfListed
  <2> QED BY <2>1, <2>3, Sums DEF LibraryOvershoot
<1> QED BY <1>1, AlwaysIInv, PTL
================================================================================
