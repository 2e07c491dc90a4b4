------------------------------- MODULE Lexer -------------------------------
(***************************************************************************)
(* The lexer of the Sbix compiler (Lexer.cpp): one loop over the source    *)
(* that takes, at every index, the first branch whose condition holds.     *)
(*                                                                         *)
(* A character is a string of length one, a newline "nl" and the           *)
(* terminator of the std::string, which the code reads at index length(),  *)
(* "nul".  Indices start at 1.  A token keeps its span [from, to] in the   *)
(* source instead of its text.                                             *)
(***************************************************************************)
EXTENDS Integers, FiniteSets, SequencesExt

CONSTANTS
  Source,      \* the programs: sequences of characters
  Letter,      \* what isalpha accepts
  Digit,       \* what isdigit accepts
  Keyword,     \* the keyword table: a set of words
  Boolean,     \* "true" and "false"
  EntryWord,   \* "entry"
  MaxOverread  \* bound: characters a run may take beyond the terminator

Space == {" ", "nl"}
Symbol == {"=", "+", "-", "*", "/", "(", ")", "{", "}", "[", "]", ",", ";",
           "!", "^", "%", ">", "<", "&", ".", "|", ":"}
Quote == "\""
WordChar == Letter \cup Digit \cup {"_"}

ASSUME ClassAssumption ==
  /\ Letter \cap Digit = {}
  /\ (Letter \cup Digit) \cap (Space \cup Symbol \cup {"_", "@", Quote, "nul"}) = {}
ASSUME SourceAssumption ==
  /\ Source \subseteq Seq(STRING)
  /\ \A s \in Source : \A k \in DOMAIN s : s[k] # "nul"
ASSUME OverreadAssumption == MaxOverread \in Nat

VARIABLES
  source,    \* the parameter of Lex
  i,         \* the index of the next character
  tokens,    \* temp, the tokens so far
  line,      \* the global of that name
  column,    \* the global of that name
  comments,  \* comments passed so far
  furthest,  \* the largest index read so far
  done       \* Lex has returned

vars == << source, i, tokens, line, column, comments, furthest, done >>

-----------------------------------------------------------------------------
At(k) == IF k \in DOMAIN source THEN source[k] ELSE "nul"

(* Mutant: an if in place of the while.                                    *)
RunEndOnce(k, class) == IF At(k) \in class THEN k + 1 ELSE k

(* The first index from k on whose character is outside of a class.        *)
RunEnd(k, class) ==
  CHOOSE e \in k..(Len(source) + 1) :
    At(e) \notin class /\ \A j \in k..(e - 1) : At(j) \in class

Newlines(from, to) == {k \in from..to : At(k) = "nl"}

Scanning == ~done /\ i <= Len(source)

(* Mutants: a look at the next character without need; an i++ too many.    *)
AdvanceReadsAhead(e, reads) ==
  /\ i' = e
  /\ furthest' = Max({furthest, e + 1})
AdvanceSkips(e, reads) ==
  /\ i' = e + 1
  /\ furthest' = Max({furthest, reads})

(* The branch ends at index e, having read no further than index reads.    *)
Advance(e, reads) ==
  /\ i' = e
  /\ furthest' = Max({furthest, reads})

Emit(type, to, col) ==
  tokens' = Append(tokens, [type |-> type, from |-> i, to |-> to, ln |-> line, col |-> col])

-----------------------------------------------------------------------------
Init ==
  /\ source \in Source
  /\ i = 1 /\ tokens = <<>> /\ line = 1 /\ column = 1
  /\ comments = 0 /\ furthest = 0 /\ done = FALSE

(* Mutant: a newline resets the column and counts no line.                 *)
SkipSpaceKeepsLine ==
  /\ Scanning /\ At(i) \in Space
  /\ column' = IF At(i) = "nl" THEN 1 ELSE column
  /\ Advance(i + 1, i)
  /\ UNCHANGED << source, tokens, line, comments, done >>

(* White space: the column moves on newlines only.                         *)
SkipSpace ==
  /\ Scanning /\ At(i) \in Space
  /\ line' = IF At(i) = "nl" THEN line + 1 ELSE line
  /\ column' = IF At(i) = "nl" THEN 1 ELSE column
  /\ Advance(i + 1, i)
  /\ UNCHANGED << source, tokens, comments, done >>

AtLineComment == At(i) = "/" /\ At(i + 1) = "/"
AtBlockComment == At(i) = "/" /\ At(i + 1) = "*"

(* A line comment counts a line; so will the newline it stops at.          *)
LineComment ==
  LET rest == {k \in (i + 2)..Len(source) : At(k) = "nl"}
      e == Min({Len(source) + 1} \cup rest)
  IN  /\ Scanning /\ AtLineComment
      /\ line' = line + 1
      /\ column' = 0
      /\ comments' = comments + 1
      /\ Advance(e, e)
      /\ UNCHANGED << source, tokens, done >>

(* A block comment: the newline right after its opening is not counted,    *)
(* and the last character of an unterminated one is left to be lexed.      *)
BlockComment ==
  LET first == i + 2
      closers == {k \in first..(Len(source) - 1) : At(k) = "*" /\ At(k + 1) = "/"}
      last == IF closers = {} THEN Max({first, Len(source)}) ELSE Min(closers)
      breaks == Newlines(first + 1, last)
  IN  /\ Scanning /\ AtBlockComment
      /\ line' = line + Cardinality(breaks)
      /\ column' = IF breaks = {} THEN column + 2 + (last - first) ELSE last - Max(breaks)
      /\ comments' = comments + 1
      /\ Advance(IF closers = {} THEN last ELSE last + 2, last)
      /\ UNCHANGED << source, tokens, done >>

AtNumber == At(i) \in Digit \/ (At(i) \in {"-", "."} /\ At(i + 1) \in Digit)

(* A number: a digit, a sign or a dot, digits and one fraction.            *)
Number ==
  LET whole == RunEnd(i + 1, Digit)
      hasFraction == At(whole) = "." /\ At(whole + 1) \in Digit
      e == IF hasFraction THEN RunEnd(whole + 1, Digit) ELSE whole
  IN  /\ Scanning /\ AtNumber
      /\ column' = column + (e - i)
      /\ Emit(IF hasFraction \/ At(i) = "." THEN "float" ELSE "number", e - 1, column')
      /\ Advance(e, IF At(whole) = "." THEN Max({e, whole + 1}) ELSE e)
      /\ UNCHANGED << source, line, comments, done >>

(* Mutant: a boolean is of no known type.                                  *)
WordTypeUnknown(word) ==
  IF word \in Keyword THEN "keyword" ELSE IF word \in Boolean THEN "unknown" ELSE "identifier"

(* keywordCheck.                                                           *)
WordType(word) ==
  IF word \in Keyword THEN "keyword" ELSE IF word \in Boolean THEN "boolean" ELSE "identifier"

Word ==
  LET e == RunEnd(i + 1, WordChar)
  IN  /\ Scanning /\ At(i) \in Letter
      /\ column' = column + (e - i)
      /\ Emit(WordType(SubSeq(source, i, e - 1)), e - 1, column')
      /\ Advance(e, e)
      /\ UNCHANGED << source, line, comments, done >>

(* A symbol, "->" and "==" being the only ones of two characters.          *)
SymbolToken ==
  LET pair == << At(i), At(i + 1) >>
      size == IF pair \in {<< "-", ">" >>, << "=", "=" >>} THEN 2 ELSE 1
      type == IF pair = << "-", ">" >> THEN "arrow"
              ELSE IF pair = << "=", "=" >> THEN "equequ" ELSE At(i)
  IN  /\ Scanning /\ At(i) \in Symbol
      /\ ~AtLineComment /\ ~AtBlockComment /\ ~AtNumber
      /\ column' = column + size
      /\ Emit(type, i + size - 1, column)
      /\ Advance(i + size, i + 1)
      /\ UNCHANGED << source, line, comments, done >>

(* '@' takes the next character whatever it is; at the end that is the     *)
(* terminator, and what lies beyond may go on like a word.                 *)
Entry ==
  /\ Scanning /\ At(i) = "@"
  /\ \E e \in IF i = Len(source) THEN (i + 2)..(i + 2 + MaxOverread)
              ELSE {RunEnd(i + 2, WordChar)} :
       /\ column' = column + (e - i - 1)
       /\ IF e <= Len(source) + 1 /\ SubSeq(source, i + 1, e - 1) = EntryWord
          THEN Emit("entry", e - 1, column') ELSE UNCHANGED tokens
       /\ Advance(e, e)
  /\ UNCHANGED << source, line, comments, done >>

(* A string takes its first character whatever it is, then runs to the     *)
(* next quote or the end; it reads source[i] before it compares i.         *)
StringToken ==
  LET quotes == {k \in (i + 2)..Len(source) : At(k) = Quote}
      e == IF quotes = {} THEN Max({i + 2, Len(source) + 1}) ELSE Min(quotes)
  IN  /\ Scanning /\ At(i) = Quote
      /\ column' = column + (e + 1 - i)
      /\ Emit("string", Min({e, Len(source)}), column')
      /\ Advance(e + 1, e)
      /\ UNCHANGED << source, line, comments, done >>

(* Mutant: the character is not passed over.                               *)
OtherStays ==
  /\ Scanning
  /\ At(i) \notin Space \cup Symbol \cup Letter \cup Digit \cup {"@", Quote}
  /\ UNCHANGED vars

(* Any other character is passed over.                                     *)
Other ==
  /\ Scanning
  /\ At(i) \notin Space \cup Symbol \cup Letter \cup Digit \cup {"@", Quote}
  /\ column' = column + 1
  /\ Advance(i + 1, i)
  /\ UNCHANGED << source, tokens, line, comments, done >>

Finish ==
  /\ ~done /\ i > Len(source)
  /\ Emit("EoF", i - 1, column)
  /\ done' = TRUE
  /\ UNCHANGED << source, i, line, column, comments, furthest >>

(* Lex has returned.                                                       *)
Returned == done /\ UNCHANGED vars

Next ==
  \/ SkipSpace \/ LineComment \/ BlockComment
  \/ Number \/ Word \/ SymbolToken \/ Entry \/ StringToken \/ Other
  \/ Finish \/ Returned

(* The loop runs until it returns.                                         *)
Spec == Init /\ [][Next]_vars /\ WF_vars(Next)

-----------------------------------------------------------------------------
(* Properties.                                                             *)

WordTypes == {"keyword", "boolean", "identifier"}
TokenType == WordTypes \cup {"number", "float", "arrow", "equequ", "entry", "string", "EoF"} \cup Symbol

TypeOK ==
  /\ source \in Source
  /\ i \in Nat \ {0} /\ line \in Nat \ {0} /\ {column, comments, furthest} \subseteq Nat
  /\ tokens \in Seq([type : TokenType, from : Nat, to : Nat, ln : Nat, col : Nat])
  /\ done \in BOOLEAN

(* A source with no comment, no string and no '@'.                         *)
Plain ==
  \A k \in DOMAIN source :
    /\ source[k] \notin {"@", Quote}
    /\ source[k] = "/" => At(k + 1) \notin {"/", "*"}

(* In a plain source the words are the longest runs of word characters,    *)
(* from their first letter on: an underscore never starts one, a digit     *)
(* before it is a number of its own.                                       *)
Runs ==
  {r \in (DOMAIN source) \X (DOMAIN source) :
     /\ r[1] <= r[2]
     /\ source[r[1]] \in Letter
     /\ \A k \in r[1]..r[2] : source[k] \in WordChar
     /\ At(r[2] + 1) \notin WordChar
     /\ \A k \in 1..(r[1] - 1) :
          source[k] \in Letter => \E j \in k..r[1] : source[j] \notin WordChar}
WordsAreRuns ==
  done /\ Plain =>
    {<< t.from, t.to >> : t \in {u \in ToSet(tokens) : u.type \in WordTypes}} = Runs

(* Every letter, digit and symbol of a plain source is in exactly one      *)
(* token: nothing the parser should see is dropped or seen twice.          *)
NothingLost ==
  done /\ Plain =>
    \A k \in DOMAIN source :
      source[k] \in Letter \cup Digit \cup Symbol =>
        Cardinality({n \in DOMAIN tokens :
          /\ tokens[n].type # "EoF"
          /\ tokens[n].from <= k /\ k <= tokens[n].to}) = 1

(* The location of a word is greater than that of every token before it,   *)
(* by line and then by column, though white space moves no column and      *)
(* comments move lines: the analyser's labels for if and while, made of    *)
(* that location, are distinct.                                            *)
Before(t, u) == t.ln < u.ln \/ (t.ln = u.ln /\ t.col < u.col)
WordLocsIncrease ==
  \A n \in DOMAIN tokens : tokens[n].type \in WordTypes =>
    \A m \in 1..(n - 1) : Before(tokens[m], tokens[n])

(* The line of the source that the index is in.                            *)
TrueLine == 1 + Cardinality(Newlines(1, i - 1))

(* How far the line of a diagnostic is from the line of the source: each   *)
(* comment moves it by one at most; below that only by the newlines in     *)
(* strings and after an '@', which are not counted.                        *)
LineDrift ==
  /\ line <= TrueLine + comments
  /\ {"@", Quote} \cap ToSet(source) = {} => line >= TrueLine - comments

(* No index beyond the terminator is read, unless the source ends in an    *)
(* '@' or in a quote.                                                      *)
ReadsInBounds ==
  furthest > Len(source) + 1 => source[Len(source)] \in {"@", Quote}

(* Lex returns: every branch moves on, the unterminated comment included.  *)
Terminates == <>done

(* "!=" is the token not_equ (Token.h:35).                                 *)
NotEqualIsOneToken ==
  done /\ Plain =>
    \A k \in DOMAIN source :
      source[k] = "!" /\ At(k + 1) = "=" =>
        ~ \E n \in DOMAIN tokens : tokens[n].type = "!" /\ tokens[n].from = k

=============================================================================
