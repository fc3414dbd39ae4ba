------------------------------- MODULE PxfText -------------------------------
(***************************************************************************)
(* PXF text as the lexer reads it.  A text is a sequence of byte classes;  *)
(* one class stands for every byte the lexer and the row scanner treat     *)
(* alike:                                                                  *)
(*                                                                         *)
(*   "("  ")"  ","  "/"  "*"  "#"  "@"   themselves                        *)
(*   "quote"   "esc"   "nl"   "sp"       a double quote, a backslash, a    *)
(*                                       line feed, another blank          *)
(*   "x"       an identifier byte that follows no backslash in an escape;  *)
(*             inside b"..." a group of four base64 characters             *)
(*   "b"       the letter b, which opens a bytes literal before a quote    *)
(*   "d"       the word `dataset`, an identifier unless it follows "@"     *)
(*   "bad"     a byte no token starts with                                 *)
(*                                                                         *)
(* Positions are 1-based.  The cells of these texts are scalars: lists and *)
(* blocks, which nest, are left out.                                       *)
(***************************************************************************)
EXTENDS Integers, Sequences, FiniteSets

ByteClass == {"(", ")", ",", "/", "*", "#", "@", "quote", "esc", "nl", "sp",
              "x", "b", "d", "bad"}

IsIdentPart(c) == c \in {"x", "b", "d"}

At(s, i, c) == i \in 1..Len(s) /\ s[i] = c

\* The word w stands in s at position i.
Word(s, i, w) == \A k \in 1..Len(w) : At(s, i + k - 1, w[k])

\* The least element of S, as a set: empty when S is.
First(S) == {i \in S : \A h \in S : i <= h}

TheOne(S, none) == IF S = {} THEN none ELSE CHOOSE i \in S : TRUE

\* The first position at or after `from` where P holds, and `none` when there
\* is no such position.
FirstAt(s, from, P(_), none) == TheOne(First({i \in from..Len(s) : P(i)}), none)

(***************************************************************************)
(* Every scan of a literal or comment gives the position after it, or      *)
(* Incomplete when the text ends inside it, or Malformed when no further   *)
(* text can complete it.                                                   *)
(***************************************************************************)
Incomplete == 0
Malformed  == -1

\* A one-line quoted literal whose body starts at `from`, a backslash in which
\* must precede a byte of `escapes`.  That byte belongs to the literal.
Quoted(s, from, escapes) ==
  LET scan[i \in from..(Len(s) + 1)] ==
        CASE i > Len(s) \/ (i = Len(s) /\ s[i] = "esc") -> Incomplete
          [] At(s, i, "quote")                          -> i + 1
          [] At(s, i, "nl")                             -> Malformed
          [] i < Len(s) /\ s[i] = "esc"                 ->
               IF s[i + 1] \in escapes THEN scan[i + 2] ELSE Malformed
          [] OTHER                                      -> scan[i + 1]
  IN  scan[from]

Triple == <<"quote", "quote", "quote">>

\* A triple-quoted string whose body starts at `from`.
TripleQuoted(s, from) ==
  FirstAt(s, from, LAMBDA i : Word(s, i, Triple), Incomplete - 3) + 3

\* A comment to the end of the line: the line feed is not part of it.
LineComment(s, from) == FirstAt(s, from, LAMBDA i : s[i] = "nl", Len(s) + 1)

\* A block comment whose body starts at `from`.
BlockComment(s, from) ==
  FirstAt(s, from, LAMBDA i : Word(s, i, <<"*", "/">>), Incomplete - 2) + 2

-----------------------------------------------------------------------------
(***************************************************************************)
(* The lexer.  A token has a kind and the positions it spans, `to` past    *)
(* its end.  An Illegal token is refused wherever it stands, so nothing    *)
(* after it is lexed.                                                      *)
(***************************************************************************)
Token(kind, from, to) == [kind |-> kind, from |-> from, to |-> to]

\* The bytes that may follow a backslash.
Escapes == {"esc", "quote", "b"}

Literal(s, i, kind, to) ==
  IF to > 0 THEN Token(kind, i, to) ELSE Token("Illegal", i, Len(s) + 1)

\* A bytes literal ends at the first quote: it has no escapes, and nothing but
\* base64 may stand in it.
LexBytes(s, i) ==
  LET end == FirstAt(s, i + 2, LAMBDA k : s[k] # "x", 0)
  IN  Literal(s, i, "Bytes", IF At(s, end, "quote") THEN end + 1 ELSE Malformed)

LexDirective(s, i) ==
  LET word(to) == IF to = i + 1 THEN Token("Illegal", i, Len(s) + 1)
                  ELSE IF to = i + 2 /\ s[i + 1] = "d" THEN Token("AtDataset", i, to)
                  ELSE Token("AtDirective", i, to)
  IN  word(FirstAt(s, i + 1, LAMBDA k : ~IsIdentPart(s[k]), Len(s) + 1))

NextToken(s, i) ==
  CASE i > Len(s)                    -> Token("Eof", i, i)
    [] i <= Len(s) /\ s[i] \in {"nl", "sp"} -> Token("Blank", i, i + 1)
    [] At(s, i, "#")                 -> Token("Blank", i, LineComment(s, i))
    [] Word(s, i, <<"/", "/">>)      -> Token("Blank", i, LineComment(s, i))
    [] Word(s, i, <<"/", "*">>)      -> Literal(s, i, "Blank", BlockComment(s, i + 2))
    [] Word(s, i, Triple)            -> Literal(s, i, "String", TripleQuoted(s, i + 3))
    [] At(s, i, "quote") /\ ~Word(s, i, Triple) ->
         Literal(s, i, "String", Quoted(s, i + 1, Escapes))
    [] Word(s, i, <<"b", "quote">>)  -> LexBytes(s, i)
    [] i <= Len(s) /\ s[i] \in {"(", ")", ","} -> Token(s[i], i, i + 1)
    [] At(s, i, "@")                 -> LexDirective(s, i)
    [] i <= Len(s) /\ IsIdentPart(s[i]) /\ ~Word(s, i, <<"b", "quote">>) ->
         Token("Ident", i, FirstAt(s, i, LAMBDA k : ~IsIdentPart(s[k]), Len(s) + 1))
    [] OTHER                         -> Token("Illegal", i, Len(s) + 1)

\* The tokens of s from position i, blanks and comments dropped, ending in Eof.
TokensFrom(s, i) ==
  LET onFrom(lex, t) == CASE t.kind = "Eof"   -> <<t>>
                          [] t.kind = "Blank" -> lex[t.to]
                          [] OTHER            -> <<t>> \o lex[t.to]
      lex[k \in i..(Len(s) + 1)] == onFrom(lex, NextToken(s, k))
  IN  lex[i]

Tokens(s) == TokensFrom(s, 1)
=============================================================================
