------------------------------- MODULE MCWebhooks -------------------------------
(* Pull requests and API requests are interchangeable; rows are ordered.    *)
EXTENDS Webhooks, TLC

Symmetry == Permutations(PR) \cup Permutations(Handler)
=============================================================================
