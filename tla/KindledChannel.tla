--------------------------- MODULE KindledChannel ---------------------------
(***************************************************************************)
(* What the kindled-link transport promises its users, with no relay, no   *)
(* keys and no crashes in sight: in each direction of each session the     *)
(* sender's messages carry growing sequence numbers, and the receiver's     *)
(* transcript holds some of them, unaltered, each once, taken in order.     *)
(* A message may never arrive.                                             *)
(***************************************************************************)
EXTENDS Naturals

CONSTANTS Node, Sid, Text

VARIABLES sent, received

Message == [from : Node, to : Node, sid : Sid, seq : Nat, text : Text]

SameStream(m1, m2) == m1.from = m2.from /\ m1.to = m2.to /\ m1.sid = m2.sid

Init == sent = {} /\ received = {}

Send(m) ==
    /\ \A x \in sent : SameStream(x, m) => x.seq < m.seq
    /\ sent' = sent \cup {m}
    /\ UNCHANGED received

Receive(m) ==
    /\ m \in sent
    /\ \A x \in received : SameStream(x, m) => x.seq < m.seq
    /\ received' = received \cup {m}
    /\ UNCHANGED sent

Next ==
    \/ \E m \in sent' : Send(m)
    \/ \E m \in sent : Receive(m)

Spec == Init /\ [][Next]_<<sent, received>>
=============================================================================
