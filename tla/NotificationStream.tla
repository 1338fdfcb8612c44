------------------------- MODULE NotificationStream -------------------------
(***************************************************************************)
(* What a subscription promises to the user of the client library: each    *)
(* monitored item is a stream of notifications that arrive at the handler  *)
(* in order, none twice and none missing, for as long as the user is       *)
(* subscribed.                                                             *)
(***************************************************************************)
EXTENDS Naturals, Sequences

CONSTANTS
    Streams,    \* the monitored items of all subscriptions
    Lossless    \* items have no queue limit, so that nothing may be skipped

VARIABLES
    wanted,     \* wanted[k]: the user is subscribed to k
    made,       \* made[k]: notifications produced for k so far
    delivered,  \* delivered[k]: those the handler was called with, in order
    dropped     \* dropped[k]: how many the client threw away

vars == <<wanted, made, delivered, dropped>>

Init ==
    /\ wanted = [k \in Streams |-> FALSE]
    /\ made = [k \in Streams |-> 0]
    /\ delivered = [k \in Streams |-> << >>]
    /\ dropped = [k \in Streams |-> 0]

LastOf(s) == IF s = << >> THEN 0 ELSE s[Len(s)]

\* new may follow what was delivered before, up to notification n.
Continues(old, new, n) ==
    \A i \in DOMAIN new :
        LET before == IF i = 1 THEN LastOf(old) ELSE new[i - 1]
        IN /\ before < new[i] /\ new[i] <= n
           /\ Lossless => new[i] = before + 1

\* One stream's part in a step of the system.
Step(k) ==
    /\ made'[k] \in {made[k], made[k] + 1}
    /\ \/ /\ dropped'[k] = dropped[k]
          /\ Len(delivered'[k]) >= Len(delivered[k])
          /\ SubSeq(delivered'[k], 1, Len(delivered[k])) = delivered[k]
          /\ Continues(delivered[k],
                       SubSeq(delivered'[k], Len(delivered[k]) + 1,
                              Len(delivered'[k])), made[k])
       \/ /\ ~wanted[k] /\ ~wanted'[k]
          /\ dropped'[k] > dropped[k]
          /\ delivered'[k] = delivered[k]
    /\ wanted'[k] \in BOOLEAN
    /\ wanted'[k] => dropped'[k] = 0
    /\ dropped[k] > 0 => delivered'[k] = delivered[k]

Next == \A k \in Streams : Step(k)

Spec == Init /\ [][Next]_vars

=============================================================================
