---------------------------- MODULE RelayMailbox ----------------------------
(* What the transport relies on the relay for: an accepted envelope stays   *)
(* in its mailbox, under one id and one arrival time, until somebody was    *)
(* given it or it is older than the retention period.                      *)
EXTENDS Naturals

CONSTANTS Mailbox, Id, EnvelopeTTL

VARIABLES inbox,    \* the accepted envelopes
          read,     \* the ids some reader was given
          clock

Envelopes == [id : Id, m : Mailbox, at : Nat]

Old(e) == e.at + EnvelopeTTL < clock

Init == inbox = {} /\ read = {} /\ clock = 0

\* A deposit never reuses an id that is stored or was handed out.
Deposit == \E i \in Id, m \in Mailbox, t \in 0 .. clock :
    /\ i \notin read \cup {e.id : e \in inbox}
    /\ inbox' = inbox \cup {[id |-> i, m |-> m, at |-> t]}
    /\ UNCHANGED <<read, clock>>

Read == \E m \in Mailbox :
    /\ read' = read \cup {e.id : e \in {x \in inbox : x.m = m}}
    /\ UNCHANGED <<inbox, clock>>

Remove == \E gone \in SUBSET inbox :
    /\ \A e \in gone : e.id \in read \/ Old(e)
    /\ inbox' = inbox \ gone
    /\ UNCHANGED <<read, clock>>

Pass == clock' = clock + 1 /\ UNCHANGED <<inbox, read>>

Next == Deposit \/ Read \/ Remove \/ Pass

Spec == Init /\ [][Next]_<<inbox, read, clock>>
=============================================================================
