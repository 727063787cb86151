------------------------------- MODULE Ragel -------------------------------
(* State machines generated by Ragel (-G2: one switch case per state).     *)
EXTENDS Naturals, Sequences, TLC

\* An edge: the characters that take it, the actions it runs, in order, and
\* the state it leads to.
Do(chars, actions, next) ==
    [chars |-> chars, actions |-> actions, next |-> next]

To(chars, next) == Do(chars, <<>>, next)
=============================================================================
