---------------------------- MODULE LineChannel -----------------------------
(***************************************************************************)
(* What a SeaSmart stream promises its HTTP client: what is put in comes   *)
(* out once, in order and unchanged, as long as the client keeps up.  A    *)
(* channel that its reader let overflow has lost text and promises nothing *)
(* of what it still delivers.                                              *)
(***************************************************************************)
EXTENDS Sequences, Naturals

CONSTANTS Stream, Char

VARIABLES
  sent,     \* what was put into each channel since it was opened
  got,      \* what its client has received
  broken    \* the channels that have overflowed

Put(s) ==
  /\ \E c \in Char : sent' = [sent EXCEPT ![s] = Append(@, c)]
  /\ broken' \in {broken, broken \cup {s}}
  /\ UNCHANGED got

Get(s) ==
  /\ \E c \in Char :
       /\ got' = [got EXCEPT ![s] = Append(@, c)]
       /\ s \notin broken => Len(got[s]) < Len(sent[s]) /\ c = sent[s][Len(got[s]) + 1]
  /\ UNCHANGED <<sent, broken>>

\* A new client, or none: the channel starts again empty.
Reset(s) ==
  /\ sent' = [sent EXCEPT ![s] = <<>>]
  /\ got' = [got EXCEPT ![s] = <<>>]
  /\ broken' = broken \ {s}

Init ==
  /\ sent = [s \in Stream |-> <<>>] /\ got = [s \in Stream |-> <<>>]
  /\ broken = {}

Next == \E s \in Stream : Put(s) \/ Get(s) \/ Reset(s)

Spec == Init /\ [][Next]_<<sent, got, broken>>
=============================================================================
