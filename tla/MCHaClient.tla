---------------------------- MODULE MCHaClient ------------------------------
(***************************************************************************)
(* Instances of HaClient: constants that a configuration cannot write.     *)
(***************************************************************************)
EXTENDS HaClient

CONSTANTS u1, u2, s1, s2, n1, n2

MCOneClient == <<u1>>
MCTwoClients == <<u1, u2>>

\* One subscription, two nodes, of which the server has only the first.
MCOneSub == {<<s1, n1>>, <<s1, n2>>}
MCAbsent == {<<u1, n2>>}

\* A node that is subscribed in one subscription or the other, or in both.
MCEither == {<<s1, n1>>, <<s2, n1>>}

=============================================================================
