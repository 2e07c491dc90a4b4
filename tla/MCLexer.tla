------------------------------ MODULE MCLexer ------------------------------
(* Small instances of Lexer for TLC: every source over an alphabet.        *)
EXTENDS Lexer

UpTo(alphabet, n) == UNION {[1..k -> alphabet] : k \in 0..n}

(* Words, numbers and symbols; comments, strings and '@'.                  *)
TokenSources == UpTo({"a", "t", "1", "_", "-", ".", ">", "=", "nl"}, 4)
CommentSources == UpTo({"/", "*", "nl", "a", "_", "\"", "@"}, 6)
AllSources == TokenSources \cup CommentSources
BangSources == UpTo({"a", "!", "=", "1"}, 3)

Keywords == {<< "a", "t" >>}
Booleans == {<< "t" >>}
EntryA == << "a" >>
=============================================================================
