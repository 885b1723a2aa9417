------------------------------- MODULE MCChat -------------------------------
(* The chat with interchangeable clients and names.                        *)
EXTENDS ChatServer, TLC

Symmetric == Permutations(Client) \cup Permutations(Name)

=============================================================================
