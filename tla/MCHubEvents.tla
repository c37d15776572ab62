---------------------------- MODULE MCHubEvents ----------------------------
(* Small instances of HubEvents for TLC; its constants are model values and    *)
(* numbers given in the configurations.                                        *)
EXTENDS HubEvents
CONSTANTS c1, k1, k2, x, blank

\* One prompt with subscriptions, the bridge and any delay; or two prompts whose
\* hints and answers race over HTTP, within two seconds and without subscribers.
OnePrompt == lapse /\ cmd[k2].at = "new" /\ cmd[k1].text \in {x, Nothing}

TwoPrompts ==
  /\ ~ lapse /\ ~ bridge
  /\ \A c \in Conns, a \in Agents : epoch[c][a] = 0
  /\ cmd[k1].conn \in {c1, Nothing} /\ cmd[k1].text \in {x, Nothing}
  /\ cmd[k2].at # "new" => cmd[k1].at # "new"

RaceSpec == Init /\ [][Next /\ (OnePrompt \/ TwoPrompts)']_vars /\ Fairness
=============================================================================
