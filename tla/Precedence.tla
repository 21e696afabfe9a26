----------------------------- MODULE Precedence -----------------------------
(***************************************************************************)
(* Where several rules, reasons or gates apply at once the code goes       *)
(* through them in a fixed order and takes the first.                      *)
(***************************************************************************)
EXTENDS Integers, Sequences, FiniteSets, FiniteSetsExt

\* The first entry of order that is in S, which has one.
FirstOf(order, S) == order[Min({i \in DOMAIN order : order[i] \in S})]

\* Places in their order: what is left of a list when some of its entries are
\* left out.
InOrder(places) ==
    [k \in 1..Cardinality(places) |->
        CHOOSE i \in places : Cardinality({j \in places : j < i}) = k - 1]

=============================================================================
