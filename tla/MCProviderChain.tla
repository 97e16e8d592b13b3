--------------------------- MODULE MCProviderChain ---------------------------
(* The three providers in the code's order.  Time is scaled: the timeout   *)
(* is 4, an error or an answer takes 3, the two backoffs are 1 and 2.      *)
EXTENDS ProviderChain, TLC

CONSTANTS c1, c2, google, groq, nvidia

MCProvider == {google, groq, nvidia}
MCFallbacks == <<groq, google, nvidia>>

(* Bound: one call alone meets every kind of error in every order.  Two    *)
(* calls overlap while each provider is steadily up or down, and the down  *)
(* ones time out or fail with errors that are retried: calls meet in the   *)
(* session's provider only, which they read once, at the start.            *)
Alone == \E c \in Call : \A d \in Call \ {c} : phase[d] = "idle"
Explored ==
  \/ Alone
  \/ /\ up \cup down = MCProvider
     /\ \A c \in Call, p \in MCProvider :
          error[c][p] \in {"abort", "transient", NoError}

=============================================================================
