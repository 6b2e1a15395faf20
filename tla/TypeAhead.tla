----------------------------- MODULE TypeAhead ------------------------------
(***************************************************************************)
(* What the keyboard promises to the program that reads it: the keys that  *)
(* were typed, in order, each once.  A key waits in a ring of Capacity     *)
(* keys; the one that arrives when the ring is full is lost, and no other. *)
(***************************************************************************)
EXTENDS Naturals, Sequences

CONSTANTS
    KeyCodes,   \* what a key produces
    Capacity    \* keys that the ring holds

VARIABLES
    coming,     \* keys that are typed and have not arrived at the ring
    ring,       \* keys that have arrived and wait for the reader
    reply       \* the key that the reader was given, until it looks

aheadVars == <<coming, ring, reply>>

Init == coming = <<>> /\ ring = <<>> /\ reply = <<>>

Type ==
    /\ \E k \in KeyCodes : coming' = Append(coming, k)
    /\ UNCHANGED <<ring, reply>>

Arrive ==
    /\ coming # <<>> /\ Len(ring) < Capacity
    /\ ring' = Append(ring, Head(coming)) /\ coming' = Tail(coming)
    /\ UNCHANGED reply

Lose ==
    /\ coming # <<>> /\ Len(ring) = Capacity
    /\ coming' = Tail(coming)
    /\ UNCHANGED <<ring, reply>>

Answer ==
    /\ reply = <<>> /\ ring # <<>>
    /\ reply' = <<Head(ring)>> /\ ring' = Tail(ring)
    /\ UNCHANGED coming

Read == reply # <<>> /\ reply' = <<>> /\ UNCHANGED <<coming, ring>>

Next == Type \/ Arrive \/ Lose \/ Answer \/ Read

Spec == Init /\ [][Next]_aheadVars
=============================================================================
