---------------------------- MODULE MCRowArrival ----------------------------
EXTENDS RowArrival

\* Parentheses against every way a literal or a comment can hide one.
MCAlphabet == {"(", ")", "quote", "esc", "nl", "/", "*", "b"}
=============================================================================
