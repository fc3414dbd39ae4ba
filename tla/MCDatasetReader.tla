-------------------------- MODULE MCDatasetReader --------------------------
EXTENDS DatasetReader, SequencesExt

\* The pieces documents are put together from.  A header has one column or
\* two, one of them under a leading directive, one with a comment that looks
\* like a header.
OneColumn == {<<"@", "d", "(", "x", ")">>,
              <<"@", "x", "nl", "@", "d", "sp", "b", "(", "x", ")">>,
              <<"#", "@", "d", "(", "nl", "@", "d", "(", "x", ")">>}
TwoColumns == {<<"@", "d", "(", "x", ",", "x", ")">>}
BadHeaders == {<<"@", "d", "(", ")">>, <<"@", "d", "x">>, <<"@", "d", "quote", "nl">>,
               <<"@", "d", "/", "*", "(", "*", "/", "x", "x">>,
               <<"@", "d", "/", "*", "x", "x", "x", "x", "x", "x", "x", "x", "x">>}

\* Rows of one cell in which a parenthesis hides in a literal or a comment,
\* rows of two cells, and rows that are refused.
OneCell == {<<"(", ")">>,
            <<"(", "quote", ")", "quote", ")">>,
            <<"(", "quote", "esc", "quote", ")", "quote", ")">>,
            <<"(", "quote", "quote", "quote", "nl", ")", "quote", "quote", "quote", ")">>,
            <<"(", "b", "quote", "x", "quote", ")">>,
            <<"(", "/", "*", ")", "*", "/", "x", ")">>,
            <<"(", "/", "/", ")", "nl", "x", ")">>}
TwoCells == {<<"(", "x", ",", ")">>, <<"(", "quote", ",", "quote", ",", "x", ")">>}
BadRows  == {<<"(", "quote", "nl", ")">>, <<"(", "x">>, <<"(", "quote", ")">>,
             <<"(", "(", ")", ")">>, <<"x">>, <<")">>, <<"bad">>,
             <<"(", "x", "x", "x", "x", "x", "x", "x", "x", "x", "x", ")">>,
             <<"(", "#", "x", "x", "x", "x", "x", "x", "x", "x", "x", "x", "x", "x">>}

Separators == {<<>>, <<"nl">>, <<"#", "(", "nl">>}

Join(A, B) == {a \o b : a \in A, b \in B}

\* Every header and every bad one; every row after every separator, alone,
\* before a good row, and after one; a dataset before another one.
MCDocs ==
  UNION {
    BadHeaders,
    {<<"x">>, <<>>},
    OneColumn, TwoColumns,
    Join({<<"@", "d", "(", "x", ")">>}, Join(Separators, Join(OneCell \cup BadRows, {<<>>, <<"(", "x", ")">>}))),
    Join({<<"@", "d", "(", "x", ")", "(", "x", ")">>}, BadRows \cup TwoCells),
    Join(OneColumn, {<<"(", "x", ")", "nl">>}),
    Join(TwoColumns, Join(TwoCells \cup OneCell, {<<>>, <<"(", ",", ")">>})),
    Join(Join(TwoColumns, {<<>>, <<"(", "x", ",", ")">>}),
         {<<"@", "d", "(", "x", ")", "(", "x", ")">>, <<"@", "x">>})
  }

\* A comment whose slashes a read may part, between rows.
SplitComments ==
  {<<"@", "d", "(", "x", ")", "/", "/", "nl", "(", "x", ")">>,
   <<"@", "d", "(", "x", ")", "(", ")", "/", "*", "*", "/", "(", "x", ")">>}

MCFits == {<<"T", 1>>, <<"T", 2>>, <<"U", 1>>}
=============================================================================
