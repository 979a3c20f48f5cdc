------------------------------ MODULE MCRelay -------------------------------
(* Relay on small instances: request slots, mailboxes and identities are    *)
(* interchangeable.                                                         *)
EXTENDS Relay, TLC

Symmetric == Permutations(Req) \cup Permutations(Mailbox) \cup Permutations(Ident)
=============================================================================
