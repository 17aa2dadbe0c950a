----------------------------- MODULE MCSettings -----------------------------
(***************************************************************************)
(* TLC instance of Settings: filter texts of up to four words, with some   *)
(* that spell a key or a number and one that makes a column that is none.  *)
(***************************************************************************)
EXTENDS Settings

FilterTexts ==
  {<< >>, <<"cam">>, <<"cam", "eth">>, <<"cam", "eth", "7">>, <<"sort_col", "7">>,
   <<"cam", "width", "eth">>, <<"cam", "sort_col", "9", "eth">>}

=============================================================================
