----------------------------- MODULE MCOutgoing -----------------------------
(* An instance of Outgoing for TLC: a tick stands for half a second or so, *)
(* and the long periods are cut to what still lies beyond the short ones.  *)
EXTENDS Outgoing

ShortPeriods ==
  [kind \in Kinds |-> CASE kind \in {127508, 127506} -> 2
                        [] kind \in {3, 4}           -> 1
                        [] OTHER                     -> 3]
Others == {<<127508, 3>>}
=============================================================================
