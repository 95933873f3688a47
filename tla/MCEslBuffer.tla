---------------------------- MODULE MCEslBuffer -----------------------------
(* EslBuffer for TLC: chunks that cut lines and blank lines at every place.  *)
EXTENDS EslBuffer

\* With these, any stream of empty and non-empty lines, ended by \n or by
\* \r\n, can be cut anywhere.
Lines == {<<"n">>, <<"r">>, <<"x">>, <<"x", "n">>, <<"n", "n", "x">>}

\* Two chunks that tell their positions.
Plain == {<<"x">>, <<"n", "x", "r">>}
=============================================================================
