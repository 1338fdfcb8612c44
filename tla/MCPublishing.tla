---------------------------- MODULE MCPublishing ----------------------------
(***************************************************************************)
(* An instance of Publishing: a busy subscription beside a quiet one.      *)
(***************************************************************************)
EXTENDS Publishing

\* Bounds.  The first subscription gets up to MaxChanges notifications, enough
\* to fill a queue, to lower its limit below what it holds and to overflow it
\* again; the second gets one, in a queue without a limit.  From a second request
\* on there are two notifications each at most, from a third on one.  (What a
\* step across these bounds reaches is checked too, but goes no further.)
BusyAndQuiet ==
    \A s \in Subs, m \in Items :
        /\ s > 1 => (produced[s][m] <= 1 /\ sub[s].size[m] = 0)
        /\ reqCounter > 1 => produced[s][m] <= 2
        /\ reqCounter > 2 => produced[s][m] <= 1

=============================================================================
