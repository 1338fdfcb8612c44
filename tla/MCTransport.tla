---------------------------- MODULE MCTransport -----------------------------
(***************************************************************************)
(* Instances of Transport: limits and cryptography as records.             *)
(***************************************************************************)
EXTENDS Transport

\* Small buffers, smaller or larger than those of the client, with and
\* without a limit on the number of chunks.
MCServerLimits ==
    {[recv |-> 80, send |-> 200, chunks |-> 2, size |-> 0],
     [recv |-> 96, send |-> 80, chunks |-> 0, size |-> 0]}

MCHellos ==
    {[recv |-> 90, send |-> 90, chunks |-> n, size |-> 0] : n \in {0, 3}}

\* No security, signed only, and encrypted by blocks of 16 bytes.
MCCryptos ==
    {[plain |-> 1, cipher |-> 1, sig |-> 0, encrypted |-> FALSE],
     [plain |-> 1, cipher |-> 1, sig |-> 20, encrypted |-> FALSE],
     [plain |-> 16, cipher |-> 16, sig |-> 20, encrypted |-> TRUE]}

=============================================================================
