-------------------------- MODULE MCGrammarEmptiness --------------------------
(***************************************************************************)
(* A schema whose only sample is longer than the search is deep, and a     *)
(* tokenizer that gives every word back.                                   *)
(***************************************************************************)
EXTENDS GrammarEmptiness

MCWords == {<<"k">>, <<"o", "k">>, <<"o", "o", "k">>}
MCSchemas == {[supported |-> TRUE, words |-> <<w>>] : w \in MCWords}
MCTokenizers == {[w \in MCWords |-> w]}
=============================================================================
