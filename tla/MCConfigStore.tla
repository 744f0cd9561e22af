---------------------------- MODULE MCConfigStore ----------------------------
(* A small instance of ConfigStore: an installation with a password, a       *)
(* Discord webhook and Kick credentials, and five ways to fill in a form.    *)
EXTENDS ConfigStore, TLC

CONSTANTS v1, v2, bad

MCFlag == {"queueMode", "polling", "kick"}

Installed(kick, targets) ==
  [Default EXCEPT !.notifications.webhook = v1,
                  !.webAuth = [username |-> v1, password |-> v1, overlay |-> None],
                  !.chat.flags["kick"] = kick, !.chat.selectors = {"channel"},
                  !.chat.client = v1, !.chat.secret = v1, !.chat.channel = v1,
                  !.targets = targets]

On(n) == [name |-> n, key |-> n, enabled |-> TRUE]

MCStored == {Installed(k, ts) : k \in BOOLEAN,
                                ts \in {<<On(m), On(n)>> : m \in Name, n \in Name}
                                         \ {<<On(n), On(n)>> : n \in Name}}

\* The chat section with nothing entered.
ChatPage == [flags |-> <<>>, capacity |-> None, adaptive |-> FALSE, selectors |-> {"channel"},
             apiKey |-> None, clearApiKey |-> FALSE, client |-> v1, secret |-> None,
             clearSecret |-> FALSE, channel |-> v1]

MCForms ==
  {[chat |-> [ChatPage EXCEPT !.capacity = v2]],
   [chat |-> [ChatPage EXCEPT !.channel = v2, !.selectors = {"video", "channel"}]],
   [chat |-> [ChatPage EXCEPT !.channel = v2]],
   [chat |-> [ChatPage EXCEPT !.clearSecret = TRUE]],
   [webAuth |-> [username |-> None, password |-> None, overlay |-> None],
    server |-> [address |-> None, srt |-> TRUE, key |-> None]],
   [server |-> [address |-> v2, srt |-> FALSE, key |-> v2],
    notifications |-> [webhook |-> None, clearWebhook |-> TRUE, message |-> None]],
   [server |-> [address |-> bad, srt |-> FALSE, key |-> None]]}

Symmetry == Permutations(Request) \cup Permutations(Name)
==============================================================================
