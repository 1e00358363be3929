----------------------------- MODULE MCVbuddy -----------------------------
EXTENDS Vbuddy

\* With QuerySize = 5, one and two digits fit (two with both '$' exactly),
\* three fit unless the second '$' comes with them, four do not.
MCValues == {<<"0">>, <<"1", "0">>, <<"1", "0", "1">>, <<"1", "0", "0", "1">>}

\* Answers that fit.
MCShortValues == {<<"0">>, <<"1", "0">>}
===========================================================================
