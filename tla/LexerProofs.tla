---------------------------- MODULE LexerProofs ----------------------------
(* Theorems about the lexer, for every source and every set of letters,    *)
(* digits and keywords.                                                    *)
EXTENDS Lexer, CommonLemmas, FiniteSetTheorems, TLAPS

-----------------------------------------------------------------------------
(* The source and its runs of characters of a class.                       *)

LEMMA SourceFacts ==
  ASSUME source \in Source
  PROVE  /\ source \in Seq(STRING) /\ Len(source) \in Nat
         /\ DOMAIN source = 1..Len(source)
         /\ \A k \in 1..Len(source) : At(k) = source[k] /\ At(k) # "nul"
         /\ \A k \in Nat : k > Len(source) => At(k) = "nul"
<1>1. source \in Seq(STRING) /\ \A k \in DOMAIN source : source[k] # "nul"
  BY SourceAssumption
<1> QED BY <1>1 DEF At

(* The classes of characters a token begins with do not meet.              *)
LEMMA Classes ==
  /\ "nul" \notin Digit /\ "nul" \notin WordChar /\ "nul" \notin Space /\ "nul" \notin Symbol
  /\ "nl" \notin Digit /\ "nl" \notin WordChar /\ "nl" \notin Symbol /\ "nl" \in Space
  /\ \A c \in Letter : /\ c \notin Digit /\ c \notin Space /\ c \notin Symbol /\ c \notin {"@", Quote, "_"}
                       /\ c \in WordChar
  /\ \A c \in Digit : /\ c \notin Letter /\ c \notin Space /\ c \notin Symbol
                      /\ c \notin {"@", Quote, "-", "."}
  /\ "-" \notin Letter /\ "." \notin Letter /\ "-" \in Symbol /\ "." \in Symbol
  /\ "-" # "nl" /\ "." # "nl"
BY ClassAssumption DEF WordChar, Space, Symbol

(* The end of a run exists, as the terminator is in no class.              *)
LEMMA RunEndFacts ==
  ASSUME source \in Source, NEW k \in 1..(Len(source) + 1), NEW class, "nul" \notin class
  PROVE  /\ RunEnd(k, class) \in k..(Len(source) + 1)
         /\ At(RunEnd(k, class)) \notin class
         /\ \A j \in k..(RunEnd(k, class) - 1) : At(j) \in class
<1> DEFINE n == Len(source) + 1
           T == {e \in k..n : At(e) \notin class}
<1>1. n \in Nat /\ k \in Nat /\ At(n) = "nul" /\ n \in T
  BY SourceFacts
<1>2. PICK m \in T : \A e \in T : m <= e
  <2>1. T \subseteq Nat /\ T # {}
    BY <1>1
  <2> HIDE DEF T
  <2> QED BY <2>1, LeastNatural
<1>3. m \in k..n /\ At(m) \notin class
  BY <1>2
<1>4. ASSUME NEW j \in k..(m - 1) PROVE At(j) \in class
  <2>1. j \in k..n /\ ~(m <= j)
    BY <1>1, <1>3
  <2> QED BY <1>2, <2>1
<1>5. \E e \in k..n : At(e) \notin class /\ \A j \in k..(e - 1) : At(j) \in class
  BY <1>3, <1>4
<1> QED BY <1>5 DEF RunEnd

-----------------------------------------------------------------------------
(* What each branch of the loop does.                                      *)

(* The index moves on, and only a source that ends in '@' or in a quote    *)
(* has it read beyond the terminator.                                      *)
Moves ==
  /\ i \in Nat /\ i \in 1..Len(source) /\ ~done
  /\ source' = source /\ done' = done
  /\ i' \in Nat /\ i' > i
  /\ furthest' \in Nat
  /\ furthest' > Len(source) + 1 =>
       furthest > Len(source) + 1 \/ source[Len(source)] \in {"@", Quote}

Tok(type, to, col) == [type |-> type, from |-> i, to |-> to, ln |-> line, col |-> col]
Emits(type, col) == tokens' = Append(tokens, Tok(type, i' - 1, col))

LEMMA Greater ==
  ASSUME NEW a \in Nat, NEW b \in Nat, b > a
  PROVE  b - 1 \in Nat /\ b >= a
OBVIOUS

(* Where a character before the next index lies.                           *)
LEMMA BeforeOrIn ==
  ASSUME NEW a \in Nat, NEW b \in Nat, a < b, NEW k \in 1..(b - 1)
  PROVE  /\ k \in 1..(a - 1) \/ k \in a..(b - 1)
         /\ k \in Nat /\ b \in k..b /\ (k < a \/ k \in a..(b - 1))
OBVIOUS

LEMMA JustOne ==
  ASSUME NEW a \in Nat, NEW b, b = a + 1
  PROVE  b - 1 = a /\ \A k \in a..(b - 1) : k = a
OBVIOUS

LEMMA MovesOn ==
  ASSUME Moves
  PROVE  /\ i \in Nat /\ i' \in Nat /\ i' - 1 \in Nat /\ i' > i /\ i' >= i
         /\ source' = source /\ done' = done /\ ~done
<1>1. i \in Nat /\ i' \in Nat /\ i' > i
  BY DEF Moves
<1>2. i' - 1 \in Nat /\ i' >= i
  BY <1>1, Greater
<1> QED BY <1>1, <1>2 DEF Moves

LEMMA Typed ==
  ASSUME TypeOK
  PROVE  /\ source \in Source /\ Len(source) \in Nat
         /\ i \in Nat /\ i >= 1 /\ line \in Nat /\ line >= 1
         /\ column \in Nat /\ comments \in Nat /\ furthest \in Nat
<1>1. source \in Source
  BY DEF TypeOK
<1>2. Len(source) \in Nat
  BY <1>1, SourceFacts
<1> QED BY <1>1, <1>2 DEF TypeOK

LEMMA ReadsWithin ==
  ASSUME TypeOK, Scanning, source' = source, done' = done, NEW e \in Nat, e > i,
         NEW reads \in Nat, Advance(e, reads),
         reads <= Len(source) + 1 \/ source[Len(source)] \in {"@", Quote}
  PROVE  Moves /\ i' = e
<1>1. Len(source) \in Nat /\ furthest \in Nat /\ i \in Nat /\ i >= 1
  BY Typed
<1>2. furthest' = IF furthest <= reads THEN reads ELSE furthest
  BY <1>1, MaxOfTwo DEF Advance
<1>3. i \in 1..Len(source) /\ ~done /\ i' = e
  BY <1>1 DEF Scanning, Advance
<1>4. furthest' > Len(source) + 1 =>
        furthest > Len(source) + 1 \/ source[Len(source)] \in {"@", Quote}
  BY <1>1, <1>2
<1> QED BY <1>1, <1>2, <1>3, <1>4 DEF Moves

LEMMA SkipSpaceStep ==
  ASSUME TypeOK, SkipSpace
  PROVE  /\ Moves /\ i' = i + 1 /\ At(i) \in Space
         /\ tokens' = tokens /\ comments' = comments
         /\ \/ At(i) = "nl" /\ line' = line + 1 /\ column' = 1
            \/ At(i) # "nl" /\ line' = line /\ column' = column
<1>1. Len(source) \in Nat /\ i \in Nat /\ i <= Len(source)
  BY Typed DEF SkipSpace, Scanning
<1>2. Moves /\ i' = i + 1
  <2>1. i + 1 \in Nat /\ i + 1 > i /\ i <= Len(source) + 1
    BY <1>1
  <2> QED BY <1>1, <2>1, ReadsWithin DEF SkipSpace
<1> QED BY <1>2 DEF SkipSpace

LEMMA OtherStep ==
  ASSUME TypeOK, Other
  PROVE  /\ Moves /\ i' = i + 1
         /\ At(i) \notin Space \cup Symbol \cup Letter \cup Digit
         /\ tokens' = tokens /\ comments' = comments /\ line' = line /\ column' = column + 1
<1>1. Len(source) \in Nat /\ i \in Nat /\ i <= Len(source)
  BY Typed DEF Other, Scanning
<1>2. Moves /\ i' = i + 1
  <2>1. i + 1 \in Nat /\ i + 1 > i /\ i <= Len(source) + 1
    BY <1>1
  <2> QED BY <1>1, <2>1, ReadsWithin DEF Other
<1> QED BY <1>2 DEF Other

LEMMA LineCommentStep ==
  ASSUME TypeOK, LineComment
  PROVE  /\ Moves /\ i' <= Len(source) + 1 /\ AtLineComment
         /\ tokens' = tokens /\ comments' = comments + 1
         /\ line' = line + 1 /\ column' = 0
         /\ \A k \in i..(i' - 1) : At(k) # "nl"
<1> DEFINE n == Len(source)
           rest == {k \in (i + 2)..n : At(k) = "nl"}
           T == {n + 1} \cup rest
           e == Min(T)
<1>1. n \in Nat /\ i \in Nat /\ i >= 1 /\ i <= n
  BY Typed DEF LineComment, Scanning
<1>2. At(i) = "/" /\ At(i + 1) = "/" /\ i + 1 <= n
  <2>1. At(i) = "/" /\ At(i + 1) = "/"
    BY DEF LineComment, AtLineComment
  <2> QED BY <1>1, <2>1, SourceFacts DEF TypeOK
<1>3. e \in T /\ \A k \in T : e <= k
  <2>1. T \subseteq Nat /\ T # {}
    BY <1>1
  <2> HIDE DEF T
  <2> QED BY <2>1, MinFacts
<1>4. e \in Nat /\ e >= i + 2 /\ e <= n + 1
  BY <1>1, <1>2, <1>3
<1>5. ASSUME NEW k \in i..(e - 1) PROVE At(k) # "nl"
  <2>1. CASE k \in {i, i + 1}
    BY <1>2, <2>1
  <2>2. CASE k \notin {i, i + 1}
    <3>1. k \in (i + 2)..n /\ ~(e <= k)
      BY <1>1, <1>4, <2>2
    <3> QED BY <1>3, <3>1
  <2> QED BY <2>1, <2>2
<1>6. Advance(e, e) /\ Scanning /\ source' = source /\ done' = done
  BY DEF LineComment
<1>7. Moves /\ i' = e
  <2>1. e > i /\ e <= Len(source) + 1
    BY <1>1, <1>4
  <2> HIDE DEF e
  <2> QED BY <1>4, <1>6, <2>1, ReadsWithin
<1> QED BY <1>4, <1>5, <1>7 DEF LineComment

(* The newlines of a span.                                                 *)
LEMMA NewlinesFinite ==
  ASSUME NEW a \in Int, NEW b \in Int
  PROVE  IsFiniteSet(Newlines(a, b)) /\ Cardinality(Newlines(a, b)) \in Nat
<1>1. IsFiniteSet(a..b) /\ Newlines(a, b) \in SUBSET (a..b)
  BY FS_Interval DEF Newlines
<1> QED BY <1>1, FS_Subset, FS_CardinalityType

LEMMA AtMostOneMore ==
  ASSUME NEW S, NEW T, NEW x, IsFiniteSet(T), S \subseteq T \cup {x}
  PROVE  Cardinality(S) <= Cardinality(T) + 1 /\ Cardinality(S) \in Nat /\ Cardinality(T) \in Nat
<1>1. IsFiniteSet(T \cup {x}) /\ Cardinality(T \cup {x}) <= Cardinality(T) + 1
  <2>1. /\ IsFiniteSet(T \cup {x}) /\ Cardinality(T) \in Nat
        /\ Cardinality(T \cup {x}) = IF x \in T THEN Cardinality(T) ELSE Cardinality(T) + 1
    BY FS_AddElement, FS_CardinalityType
  <2> QED BY <2>1
<1>2. IsFiniteSet(S) /\ Cardinality(S) <= Cardinality(T \cup {x})
  BY <1>1, FS_Subset
<1>3. Cardinality(S) \in Nat /\ Cardinality(T) \in Nat /\ Cardinality(T \cup {x}) \in Nat
  BY <1>1, <1>2, FS_CardinalityType
<1> QED BY <1>1, <1>2, <1>3

(* A block comment counts all its newlines but the one right after its     *)
(* opening, or one it leaves to be read.                                   *)
LEMMA BlockCommentStep ==
  ASSUME TypeOK, BlockComment
  PROVE  /\ Moves /\ i' <= Len(source) + 1 /\ AtBlockComment
         /\ tokens' = tokens /\ comments' = comments + 1
         /\ line' \in Nat /\ column' \in Nat
         /\ line' > line \/ (line' = line /\ column' >= column)
         /\ line' - line <= Cardinality(Newlines(i, i' - 1)) + 1
         /\ line' - line >= Cardinality(Newlines(i, i' - 1)) - 1
<1> DEFINE n == Len(source)
           first == i + 2
           closers == {k \in first..(n - 1) : At(k) = "*" /\ At(k + 1) = "/"}
           last == IF closers = {} THEN Max({first, n}) ELSE Min(closers)
           breaks == Newlines(first + 1, last)
           e == IF closers = {} THEN last ELSE last + 2
<1>1. n \in Nat /\ i \in Nat /\ i >= 1 /\ i <= n /\ column \in Nat /\ line \in Nat
  BY Typed DEF BlockComment, Scanning
<1>2. At(i) = "/" /\ At(i + 1) = "*" /\ i + 1 <= n
  <2>1. At(i) = "/" /\ At(i + 1) = "*"
    BY DEF BlockComment, AtBlockComment
  <2> QED BY <1>1, <2>1, SourceFacts DEF TypeOK
<1>3. /\ last \in Nat /\ first <= last /\ last <= n + 1
      /\ e \in Nat /\ e > i /\ e <= n + 1 /\ e - 1 >= last - 1
      /\ e - 1 <= last - 1 \/ (e - 1 = last + 1 /\ At(last) = "*" /\ At(last + 1) = "/")
  <2>1. CASE closers = {}
    <3>1. first \in Nat /\ last = IF first <= n THEN n ELSE first
      BY <1>1, <2>1, MaxOfTwo
    <3> QED BY <1>1, <1>2, <2>1, <3>1
  <2>2. CASE closers # {}
    <3>1. Min(closers) \in closers
      <4>1. closers \subseteq Nat
        BY <1>1
      <4> HIDE DEF closers
      <4> QED BY <2>2, <4>1, MinFacts
    <3>2. last \in closers /\ e = last + 2
      BY <2>2, <3>1
    <3>3. last \in first..(n - 1) /\ At(last) = "*" /\ At(last + 1) = "/"
      BY <3>2
    <3> HIDE DEF last, e
    <3> QED BY <1>1, <3>2, <3>3
  <2> QED BY <2>1, <2>2
<1>4. /\ line' = line + Cardinality(breaks)
      /\ column' = IF breaks = {} THEN column + 2 + (last - first) ELSE last - Max(breaks)
      /\ Advance(e, last) /\ Scanning /\ source' = source /\ done' = done
  BY DEF BlockComment
<1>5. Moves /\ i' = e
  <2>1. last <= Len(source) + 1
    BY <1>3
  <2> HIDE DEF e, last
  <2> QED BY <1>3, <1>4, <2>1, ReadsWithin
<1> HIDE DEF last, e
<1>6. /\ IsFiniteSet(breaks) /\ Cardinality(breaks) \in Nat
      /\ IsFiniteSet(Newlines(i, e - 1)) /\ Cardinality(Newlines(i, e - 1)) \in Nat
  <2>1. first + 1 \in Int /\ last \in Int /\ i \in Int /\ e - 1 \in Int
    BY <1>1, <1>3
  <2> QED BY <2>1, NewlinesFinite
<1>7. breaks \subseteq Newlines(i, e - 1) \cup {last}
  BY <1>1, <1>3 DEF Newlines
<1>8. Newlines(i, e - 1) \subseteq breaks \cup {first}
  BY <1>1, <1>2, <1>3 DEF Newlines
<1>9. /\ Cardinality(breaks) <= Cardinality(Newlines(i, e - 1)) + 1
      /\ Cardinality(Newlines(i, e - 1)) <= Cardinality(breaks) + 1
  BY <1>6, <1>7, <1>8, AtMostOneMore
<1>10. column' \in Nat /\ (line' > line \/ (line' = line /\ column' >= column))
  <2>1. CASE breaks = {}
    <3>1. Cardinality(breaks) = 0
      BY <2>1, FS_EmptySet
    <3> HIDE DEF breaks
    <3> QED BY <1>1, <1>3, <1>4, <2>1, <3>1
  <2>2. CASE breaks # {}
    <3>1. Cardinality(breaks) # 0
      BY <1>6, <2>2, FS_EmptySet
    <3>2. Max(breaks) \in breaks /\ breaks \subseteq 0..last
      <4>1. breaks \subseteq 0..last
        BY <1>1, <1>3 DEF Newlines
      <4> HIDE DEF breaks
      <4> QED BY <1>3, <2>2, <4>1, MaxFacts
    <3>3. Max(breaks) \in 0..last
      BY <3>2
    <3> HIDE DEF breaks
    <3> QED BY <1>1, <1>3, <1>4, <1>6, <2>2, <3>1, <3>3
  <2> QED BY <2>1, <2>2
<1> HIDE DEF breaks
<1>11. /\ line' \in Nat
       /\ line' - line <= Cardinality(Newlines(i, e - 1)) + 1
       /\ line' - line >= Cardinality(Newlines(i, e - 1)) - 1
  BY <1>1, <1>4, <1>6, <1>9
<1> QED BY <1>3, <1>5, <1>10, <1>11 DEF BlockComment

LEMMA NumberStep ==
  ASSUME TypeOK, Number
  PROVE  /\ Moves /\ i' <= Len(source) + 1
         /\ comments' = comments /\ line' = line /\ column' = column + (i' - i)
         /\ \E type \in {"float", "number"} : Emits(type, column')
         /\ \A k \in i..(i' - 1) : At(k) \in Digit \cup {"-", "."}
<1> DEFINE n == Len(source)
           whole == RunEnd(i + 1, Digit)
           hasFraction == At(whole) = "." /\ At(whole + 1) \in Digit
           e == IF hasFraction THEN RunEnd(whole + 1, Digit) ELSE whole
           reads == IF At(whole) = "." THEN Max({e, whole + 1}) ELSE e
<1>1. n \in Nat /\ i \in Nat /\ i >= 1 /\ i <= n /\ source \in Source
  BY Typed DEF Number, Scanning
<1>2. /\ At(i) \in Digit \cup {"-", "."}
      /\ column' = column + (e - i) /\ Advance(e, reads)
      /\ Scanning /\ source' = source /\ done' = done
      /\ \E type \in {"float", "number"} : tokens' = Append(tokens, Tok(type, e - 1, column'))
  BY DEF Number, AtNumber, Emit, Tok
<1>3. whole \in (i + 1)..(n + 1) /\ \A j \in (i + 1)..(whole - 1) : At(j) \in Digit
  <2>1. i + 1 \in 1..(Len(source) + 1)
    BY <1>1
  <2> QED BY <1>1, <2>1, RunEndFacts, Classes
<1> HIDE DEF whole
<1>4. At(whole) = "." => whole <= n
  BY <1>1, <1>3, SourceFacts
<1>5. e \in whole..(n + 1) /\ \A j \in i..(e - 1) : At(j) \in Digit \cup {"-", "."}
  <2>1. CASE hasFraction
    <3>1. whole + 1 \in 1..(Len(source) + 1)
      BY <1>1, <1>3, <1>4, <2>1
    <3>2. e \in (whole + 1)..(n + 1) /\ \A j \in (whole + 1)..(e - 1) : At(j) \in Digit
      BY <1>1, <2>1, <3>1, RunEndFacts, Classes
    <3> HIDE DEF e
    <3> QED BY <1>1, <1>2, <1>3, <2>1, <3>2
  <2>2. CASE ~hasFraction
    BY <1>1, <1>2, <1>3, <2>2
  <2> QED BY <2>1, <2>2
<1> HIDE DEF e
<1>6. reads \in Nat /\ reads <= n + 1
  <2>1. CASE At(whole) = "."
    <3>1. e \in Nat /\ whole + 1 \in Nat
      BY <1>1, <1>3, <1>5
    <3>2. reads = IF e <= whole + 1 THEN whole + 1 ELSE e
      BY <2>1, <3>1, MaxOfTwo
    <3> QED BY <1>1, <1>3, <1>4, <1>5, <2>1, <3>2
  <2>2. CASE At(whole) # "."
    BY <1>1, <1>3, <1>5, <2>2
  <2> QED BY <2>1, <2>2
<1> HIDE DEF reads
<1>7. Moves /\ i' = e
  <2>1. e \in Nat /\ e > i /\ reads <= Len(source) + 1
    BY <1>1, <1>3, <1>5, <1>6
  <2> QED BY <1>2, <1>6, <2>1, ReadsWithin
<1>8. comments' = comments /\ line' = line
  BY DEF Number
<1> QED BY <1>2, <1>5, <1>7, <1>8 DEF Emits

LEMMA WordStep ==
  ASSUME TypeOK, Word
  PROVE  /\ Moves /\ i' <= Len(source) + 1 /\ At(i) \in Letter
         /\ comments' = comments /\ line' = line /\ column' = column + (i' - i)
         /\ \E type \in WordTypes : Emits(type, column')
         /\ \A k \in i..(i' - 1) : At(k) \in WordChar
         /\ At(i') \notin WordChar
<1> DEFINE e == RunEnd(i + 1, WordChar)
<1>1. Len(source) \in Nat /\ i \in Nat /\ i >= 1 /\ i <= Len(source) /\ source \in Source
  BY Typed DEF Word, Scanning
<1>2. /\ At(i) \in Letter
      /\ column' = column + (e - i) /\ Advance(e, e)
      /\ Scanning /\ source' = source /\ done' = done
      /\ \E type \in WordTypes : tokens' = Append(tokens, Tok(type, e - 1, column'))
  BY DEF Word, WordType, WordTypes, Emit, Tok
<1>3. /\ e \in (i + 1)..(Len(source) + 1) /\ At(e) \notin WordChar
      /\ \A j \in (i + 1)..(e - 1) : At(j) \in WordChar
  <2>1. i + 1 \in 1..(Len(source) + 1)
    BY <1>1
  <2> QED BY <1>1, <2>1, RunEndFacts, Classes
<1> HIDE DEF e
<1>4. Moves /\ i' = e
  <2>1. e \in Nat /\ e > i /\ e <= Len(source) + 1
    BY <1>1, <1>3
  <2> QED BY <1>2, <2>1, ReadsWithin
<1>5. \A k \in i..(e - 1) : At(k) \in WordChar
  <2>1. At(i) \in WordChar
    BY <1>2, Classes
  <2> QED BY <1>1, <1>3, <2>1
<1>6. comments' = comments /\ line' = line
  BY DEF Word
<1> QED BY <1>1, <1>2, <1>3, <1>4, <1>5, <1>6 DEF Emits

LEMMA SymbolStep ==
  ASSUME TypeOK, SymbolToken
  PROVE  /\ Moves /\ i' <= Len(source) + 1
         /\ comments' = comments /\ line' = line /\ column' = column + (i' - i)
         /\ \E type \in Symbol \cup {"arrow", "equequ"} : Emits(type, column)
         /\ \A k \in i..(i' - 1) : At(k) \in Symbol
<1> DEFINE pair == << At(i), At(i + 1) >>
           double == pair \in {<< "-", ">" >>, << "=", "=" >>}
           size == IF double THEN 2 ELSE 1
<1>1. Len(source) \in Nat /\ i \in Nat /\ i >= 1 /\ i <= Len(source) /\ source \in Source
  BY Typed DEF SymbolToken, Scanning
<1>2. /\ At(i) \in Symbol
      /\ column' = column + size /\ Advance(i + size, i + 1)
      /\ Scanning /\ source' = source /\ done' = done
      /\ comments' = comments /\ line' = line
      /\ \E type \in Symbol \cup {"arrow", "equequ"} :
           tokens' = Append(tokens, Tok(type, i + size - 1, column))
  BY DEF SymbolToken, Emit, Tok
<1>3. /\ size \in {1, 2} /\ i + size <= Len(source) + 1
      /\ \A k \in i..(i + size - 1) : At(k) \in Symbol
  <2>1. CASE double
    <3>1. At(i + 1) \in {">", "="} /\ size = 2
      BY <2>1
    <3>2. At(i + 1) # "nul" /\ At(i + 1) \in Symbol
      BY <3>1 DEF Symbol
    <3>3. i + 1 <= Len(source)
      BY <1>1, <3>2, SourceFacts
    <3> HIDE DEF size
    <3> QED BY <1>1, <1>2, <3>1, <3>2, <3>3
  <2>2. CASE ~double
    BY <1>1, <1>2, <2>2
  <2> QED BY <2>1, <2>2
<1> HIDE DEF size
<1>4. Moves /\ i' = i + size
  <2>1. i + size \in Nat /\ i + size > i /\ i + 1 \in Nat /\ i + 1 <= Len(source) + 1
    BY <1>1, <1>3
  <2> QED BY <1>2, <2>1, ReadsWithin
<1>5. column' = column + (i' - i)
  BY <1>1, <1>2, <1>3, <1>4
<1>6. i' - 1 = i + size - 1
  BY <1>1, <1>3, <1>4
<1>7. \E type \in Symbol \cup {"arrow", "equequ"} : Emits(type, column)
  BY <1>2, <1>6 DEF Emits
<1>8. i' <= Len(source) + 1 /\ \A k \in i..(i' - 1) : At(k) \in Symbol
  BY <1>3, <1>4, <1>6
<1> QED BY <1>2, <1>4, <1>5, <1>7, <1>8

(* '@' may take the terminator and what lies beyond.                       *)
LEMMA EntryStep ==
  ASSUME TypeOK, Entry
  PROVE  /\ Moves /\ At(i) = "@"
         /\ comments' = comments /\ line' = line
         /\ column' \in Nat /\ column' > column
         /\ tokens' = tokens \/ Emits("entry", column')
<1>1. /\ Len(source) \in Nat /\ i \in Nat /\ i >= 1 /\ i <= Len(source) /\ source \in Source
      /\ column \in Nat
  BY Typed DEF Entry, Scanning
<1>2. PICK e \in IF i = Len(source) THEN (i + 2)..(i + 2 + MaxOverread)
                 ELSE {RunEnd(i + 2, WordChar)} :
        /\ column' = column + (e - i - 1) /\ Advance(e, e)
        /\ tokens' = tokens \/ tokens' = Append(tokens, Tok("entry", e - 1, column'))
  BY DEF Entry, Emit, Tok
<1>3. At(i) = "@" /\ Scanning /\ source' = source /\ done' = done /\ comments' = comments /\ line' = line
  BY DEF Entry
<1>4. /\ e \in Nat /\ e >= i + 2
      /\ e <= Len(source) + 1 \/ source[Len(source)] \in {"@", Quote}
  <2>1. CASE i = Len(source)
    <3>1. source[Len(source)] = "@"
      BY <1>1, <1>3, <2>1, SourceFacts
    <3> QED BY <1>1, <1>2, <2>1, <3>1, OverreadAssumption
  <2>2. CASE i # Len(source)
    <3>1. i + 2 \in 1..(Len(source) + 1)
      BY <1>1, <2>2
    <3>2. RunEnd(i + 2, WordChar) \in (i + 2)..(Len(source) + 1)
      BY <1>1, <3>1, RunEndFacts, Classes
    <3> QED BY <1>1, <1>2, <2>2, <3>2
  <2> QED BY <2>1, <2>2
<1>5. Moves /\ i' = e
  <2>1. e > i
    BY <1>1, <1>4
  <2> QED BY <1>2, <1>3, <1>4, <2>1, ReadsWithin
<1>6. column' \in Nat /\ column' > column
  BY <1>1, <1>2, <1>4
<1> QED BY <1>2, <1>3, <1>5, <1>6 DEF Emits

LEMMA StringStep ==
  ASSUME TypeOK, StringToken
  PROVE  /\ Moves /\ At(i) = Quote
         /\ comments' = comments /\ line' = line /\ column' = column + (i' - i)
         /\ \E to \in Nat : tokens' = Append(tokens, Tok("string", to, column'))
<1> DEFINE n == Len(source)
           quotes == {k \in (i + 2)..n : At(k) = Quote}
           e == IF quotes = {} THEN Max({i + 2, n + 1}) ELSE Min(quotes)
<1>1. n \in Nat /\ i \in Nat /\ i >= 1 /\ i <= n /\ source \in Source
  BY Typed DEF StringToken, Scanning
<1>2. /\ At(i) = Quote
      /\ column' = column + (e + 1 - i) /\ Advance(e + 1, e)
      /\ Scanning /\ source' = source /\ done' = done
      /\ comments' = comments /\ line' = line
      /\ tokens' = Append(tokens, Tok("string", Min({e, n}), column'))
  BY DEF StringToken, Emit, Tok
<1>3. e \in Nat /\ e >= i + 2 /\ (e <= n + 1 \/ i = n)
  <2>1. CASE quotes = {}
    <3>1. i + 2 \in Nat /\ n + 1 \in Nat
      BY <1>1
    <3>2. e = IF i + 2 <= n + 1 THEN n + 1 ELSE i + 2
      BY <2>1, <3>1, MaxOfTwo
    <3> HIDE DEF e
    <3> QED BY <1>1, <3>2
  <2>2. CASE quotes # {}
    <3>1. Min(quotes) \in quotes
      <4>1. quotes \subseteq Nat
        BY <1>1
      <4> HIDE DEF quotes
      <4> QED BY <2>2, <4>1, MinFacts
    <3> QED BY <1>1, <2>2, <3>1
  <2> QED BY <2>1, <2>2
<1> HIDE DEF e
<1>4. e <= Len(source) + 1 \/ source[Len(source)] \in {"@", Quote}
  <2>1. At(i) = source[i]
    BY <1>1, SourceFacts
  <2> QED BY <1>2, <1>3, <2>1
<1>5. Moves /\ i' = e + 1
  <2>1. e + 1 \in Nat /\ e + 1 > i
    BY <1>1, <1>3
  <2> QED BY <1>2, <1>3, <1>4, <2>1, ReadsWithin
<1>6. Min({e, n}) \in Nat
  BY <1>1, <1>3, MinOfTwo
<1>7. column' = column + (i' - i)
  BY <1>1, <1>2, <1>3, <1>5
<1> QED BY <1>2, <1>5, <1>6, <1>7

-----------------------------------------------------------------------------
(* The invariant.                                                          *)

TokenRecord == [type : TokenType, from : Nat, to : Nat, ln : Nat, col : Nat]

(* No token is located behind the place the lexer has come to.             *)
Passed(t) == t.ln < line \/ (t.ln = line /\ t.col <= column)
AllPassed == \A n \in DOMAIN tokens : Passed(tokens[n])

(* In a plain source the index ends at the terminator, no token reaches    *)
(* beyond the index, and every significant character before it is in one.  *)
Covers(n, k) == tokens[n].type # "EoF" /\ tokens[n].from <= k /\ k <= tokens[n].to
CoveredOnce(k) ==
  \E n \in DOMAIN tokens : Covers(n, k) /\ \A m \in DOMAIN tokens : Covers(m, k) => m = n
Significant == Letter \cup Digit \cup Symbol
Partition ==
  Plain =>
    /\ \A n \in DOMAIN tokens : tokens[n].type # "EoF" => tokens[n].to < i
    /\ \A k \in 1..(i - 1) : At(k) \in Significant => CoveredOnce(k)

(* A letter before the index is followed by the end of its word, and the   *)
(* word tokens are the runs that begin before the index.                   *)
WordSpans == {<< t.from, t.to >> : t \in {u \in ToSet(tokens) : u.type \in WordTypes}}
Words ==
  Plain =>
    /\ \A k \in 1..(i - 1) : At(k) \in Letter => \E j \in k..i : At(j) \notin WordChar
    /\ WordSpans = {r \in Runs : r[1] < i}

Inv ==
  /\ TypeOK /\ ReadsInBounds /\ AllPassed /\ WordLocsIncrease
  /\ Partition /\ Words /\ LineDrift
  /\ done => i > Len(source)

(* The branches of the loop.                                               *)
Scan ==
  \/ SkipSpace \/ LineComment \/ BlockComment
  \/ Number \/ Word \/ SymbolToken \/ Entry \/ StringToken \/ Other

(* What all of them do: at most one token, located at the column before or *)
(* after it, a word at the one after it.                                   *)
Takes(type, to, col) ==
  /\ tokens' = Append(tokens, Tok(type, to, col))
  /\ type \in TokenType \ {"EoF"} /\ to \in Nat /\ col \in Nat
  /\ line' = line /\ col <= column'
  /\ type \in WordTypes => column < col

LEMMA Types ==
  /\ WordTypes \subseteq TokenType \ {"EoF"}
  /\ Symbol \cup {"arrow", "equequ"} \subseteq TokenType \ ({"EoF"} \cup WordTypes)
  /\ {"float", "number", "entry", "string"} \subseteq TokenType \ ({"EoF"} \cup WordTypes)
  /\ "EoF" \in TokenType \ WordTypes
BY DEF TokenType, WordTypes, Symbol

LEMMA ScanStep ==
  ASSUME TypeOK, Scan
  PROVE  /\ Moves
         /\ comments' \in Nat /\ line' \in Nat /\ column' \in Nat
         /\ line' > line \/ (line' = line /\ column' >= column)
         /\ \/ tokens' = tokens
            \/ \E type \in TokenType, to \in Nat, col \in Nat : Takes(type, to, col)
<1>1. /\ i \in Nat /\ i >= 1 /\ line \in Nat /\ line >= 1
      /\ column \in Nat /\ comments \in Nat
  BY Typed
<1>2. CASE SkipSpace
  BY <1>1, <1>2, SkipSpaceStep
<1>3. CASE LineComment
  BY <1>1, <1>3, LineCommentStep
<1>4. CASE BlockComment
  BY <1>1, <1>4, BlockCommentStep
<1>5. CASE Number
  <2>1. /\ Moves /\ comments' = comments /\ line' = line /\ column' = column + (i' - i)
        /\ \E type \in {"float", "number"} : Emits(type, column')
    BY <1>5, NumberStep
  <2>2. i' - 1 \in Nat /\ column' \in Nat /\ column' >= column
    BY <1>1, <2>1, MovesOn
  <2>3. PICK type \in {"float", "number"} : Emits(type, column')
    BY <2>1
  <2>4. Takes(type, i' - 1, column') /\ type \in TokenType
    BY <2>1, <2>2, <2>3, Types DEF Emits, Takes
  <2> QED BY <1>1, <2>1, <2>2, <2>4
<1>6. CASE Word
  <2>1. /\ Moves /\ comments' = comments /\ line' = line /\ column' = column + (i' - i)
        /\ \E type \in WordTypes : Emits(type, column')
    BY <1>6, WordStep
  <2>2. i' - 1 \in Nat /\ column' \in Nat /\ column' > column
    BY <1>1, <2>1, MovesOn
  <2>3. PICK type \in WordTypes : Emits(type, column')
    BY <2>1
  <2>4. Takes(type, i' - 1, column') /\ type \in TokenType
    BY <2>1, <2>2, <2>3, Types DEF Emits, Takes
  <2> QED BY <1>1, <2>1, <2>2, <2>4
<1>7. CASE SymbolToken
  <2>1. /\ Moves /\ comments' = comments /\ line' = line /\ column' = column + (i' - i)
        /\ \E type \in Symbol \cup {"arrow", "equequ"} : Emits(type, column)
    BY <1>7, SymbolStep
  <2>2. i' - 1 \in Nat /\ column' \in Nat /\ column' >= column
    BY <1>1, <2>1, MovesOn
  <2>3. PICK type \in Symbol \cup {"arrow", "equequ"} : Emits(type, column)
    BY <2>1
  <2>4. Takes(type, i' - 1, column) /\ type \in TokenType
    BY <1>1, <2>1, <2>2, <2>3, Types DEF Emits, Takes
  <2> QED BY <1>1, <2>1, <2>2, <2>4
<1>8. CASE Entry
  <2>1. /\ Moves /\ comments' = comments /\ line' = line
        /\ column' \in Nat /\ column' > column
        /\ tokens' = tokens \/ Emits("entry", column')
    BY <1>8, EntryStep
  <2>2. i' - 1 \in Nat
    BY <1>1, <2>1, MovesOn
  <2>3. Emits("entry", column') => Takes("entry", i' - 1, column') /\ "entry" \in TokenType
    BY <2>1, <2>2, Types DEF Emits, Takes
  <2>4. tokens' = tokens \/ \E type \in TokenType, to \in Nat, col \in Nat : Takes(type, to, col)
    BY <2>1, <2>2, <2>3
  <2> QED BY <1>1, <2>1, <2>4
<1>9. CASE StringToken
  <2>1. /\ Moves /\ comments' = comments /\ line' = line /\ column' = column + (i' - i)
        /\ \E to \in Nat : tokens' = Append(tokens, Tok("string", to, column'))
    BY <1>9, StringStep
  <2>2. column' \in Nat /\ column' >= column
    BY <1>1, <2>1, MovesOn
  <2>3. PICK to \in Nat : tokens' = Append(tokens, Tok("string", to, column'))
    BY <2>1
  <2>4. Takes("string", to, column') /\ "string" \in TokenType
    BY <2>1, <2>2, <2>3, Types DEF Takes
  <2> QED BY <1>1, <2>1, <2>2, <2>4
<1>10. CASE Other
  BY <1>1, <1>10, OtherStep
<1> QED BY <1>2, <1>3, <1>4, <1>5, <1>6, <1>7, <1>8, <1>9, <1>10 DEF Scan

LEMMA TokTyped ==
  ASSUME TypeOK, NEW type \in TokenType, NEW to \in Nat, NEW col \in Nat
  PROVE  /\ tokens \in Seq(TokenRecord) /\ Tok(type, to, col) \in TokenRecord
         /\ Tok(type, to, col).type = type /\ Tok(type, to, col).from = i
         /\ Tok(type, to, col).to = to
         /\ Tok(type, to, col).ln = line /\ Tok(type, to, col).col = col
<1>1. i \in Nat /\ line \in Nat
  BY Typed
<1> QED BY <1>1 DEF Tok, TokenRecord, TypeOK

(* A token more.                                                           *)
LEMMA TokAppended ==
  ASSUME TypeOK, NEW type \in TokenType, NEW to \in Nat, NEW col \in Nat,
         tokens' = Append(tokens, Tok(type, to, col))
  PROVE  /\ tokens' \in Seq(TokenRecord)
         /\ Len(tokens) \in Nat /\ DOMAIN tokens = 1..Len(tokens)
         /\ DOMAIN tokens' = 1..(Len(tokens) + 1)
         /\ \A n \in 1..Len(tokens) : tokens'[n] = tokens[n] /\ tokens[n] \in TokenRecord
         /\ tokens'[Len(tokens) + 1] = Tok(type, to, col)
<1>1. tokens \in Seq(TokenRecord) /\ Tok(type, to, col) \in TokenRecord
  BY TokTyped
<1>2. Len(tokens) \in Nat /\ DOMAIN tokens = 1..Len(tokens)
      /\ \A n \in 1..Len(tokens) : tokens[n] \in TokenRecord
  BY <1>1, ElementOfSeq
<1> QED BY <1>1, <1>2, AppendFacts

LEMMA ScanTypes ==
  ASSUME TypeOK, Scan
  PROVE  TypeOK'
<1>1. /\ Moves /\ comments' \in Nat /\ line' \in Nat /\ column' \in Nat /\ line' >= line
      /\ \/ tokens' = tokens
         \/ \E type \in TokenType, to \in Nat, col \in Nat : Takes(type, to, col)
  BY ScanStep, Typed
<1>2. tokens' \in Seq(TokenRecord)
  BY <1>1, TokAppended DEF Takes, TypeOK, TokenRecord
<1>3. i' \in Nat \ {0} /\ line' \in Nat \ {0} /\ furthest' \in Nat
  BY <1>1, Typed DEF Moves
<1>4. source' \in Source /\ done' \in BOOLEAN
  BY <1>1 DEF Moves, TypeOK
<1> QED BY <1>1, <1>2, <1>3, <1>4 DEF TypeOK, TokenRecord

LEMMA ScanReads ==
  ASSUME TypeOK, Scan, ReadsInBounds
  PROVE  ReadsInBounds'
<1>1. Moves
  BY ScanStep
<1> QED BY <1>1 DEF Moves, ReadsInBounds

LEMMA ScanLocs ==
  ASSUME TypeOK, Scan, AllPassed, WordLocsIncrease
  PROVE  AllPassed' /\ WordLocsIncrease'
<1>1. /\ line' \in Nat /\ column' \in Nat
      /\ line' > line \/ (line' = line /\ column' >= column)
      /\ \/ tokens' = tokens
         \/ \E type \in TokenType, to \in Nat, col \in Nat : Takes(type, to, col)
      /\ line \in Nat /\ column \in Nat
  BY ScanStep, Typed
<1>2. \A n \in DOMAIN tokens : tokens[n].ln \in Nat /\ tokens[n].col \in Nat
  <2>1. tokens \in Seq(TokenRecord)
    BY DEF TypeOK, TokenRecord
  <2>2. \A n \in DOMAIN tokens : tokens[n] \in TokenRecord
    BY <2>1, ElementOfSeq
  <2> QED BY <2>2 DEF TokenRecord
<1>3. \A n \in DOMAIN tokens :
        /\ tokens[n].ln < line \/ (tokens[n].ln = line /\ tokens[n].col <= column)
        /\ tokens[n].ln < line' \/ (tokens[n].ln = line' /\ tokens[n].col <= column')
  <2>1. \A n \in DOMAIN tokens :
          tokens[n].ln < line \/ (tokens[n].ln = line /\ tokens[n].col <= column)
    BY DEF AllPassed, Passed
  <2>2. ASSUME NEW n \in DOMAIN tokens
        PROVE  tokens[n].ln < line' \/ (tokens[n].ln = line' /\ tokens[n].col <= column')
    <3>1. /\ tokens[n].ln \in Nat /\ tokens[n].col \in Nat
          /\ tokens[n].ln < line \/ (tokens[n].ln = line /\ tokens[n].col <= column)
      BY <1>2, <2>1
    <3> DEFINE l == tokens[n].ln
               c == tokens[n].col
    <3>2. l \in Nat /\ c \in Nat /\ (l < line \/ (l = line /\ c <= column))
      BY <3>1
    <3> HIDE DEF l, c
    <3>3. l < line' \/ (l = line' /\ c <= column')
      BY <1>1, <3>2
    <3> QED BY <3>3 DEF l, c
  <2> QED BY <2>1, <2>2
<1>4. CASE tokens' = tokens
  BY <1>3, <1>4 DEF AllPassed, Passed, WordLocsIncrease, Before
<1>5. ASSUME NEW type \in TokenType, NEW to \in Nat, NEW col \in Nat, Takes(type, to, col)
      PROVE  AllPassed' /\ WordLocsIncrease'
  <2> DEFINE n == Len(tokens)
             new == Tok(type, to, col)
  <2>1. /\ n \in Nat /\ DOMAIN tokens = 1..n /\ DOMAIN tokens' = 1..(n + 1)
        /\ \A m \in 1..n : tokens'[m] = tokens[m]
        /\ tokens'[n + 1] = new
    BY <1>5, TokAppended DEF Takes
  <2>2. new.type = type /\ new.ln = line /\ new.col = col
    BY TokTyped
  <2> HIDE DEF n, new
  <2>3. AllPassed'
    <3>1. ASSUME NEW m \in 1..n
          PROVE  tokens'[m].ln < line' \/ (tokens'[m].ln = line' /\ tokens'[m].col <= column')
      BY <1>3, <2>1
    <3>2. new.ln = line' /\ new.col <= column'
      BY <1>5, <2>2 DEF Takes
    <3> QED BY <2>1, <3>1, <3>2 DEF AllPassed, Passed
  <2>4. WordLocsIncrease'
    <3> SUFFICES ASSUME NEW k \in 1..(n + 1), tokens'[k].type \in WordTypes,
                        NEW m \in 1..(k - 1)
                 PROVE  Before(tokens'[m], tokens'[k])
      BY <2>1 DEF WordLocsIncrease, Before
    <3>1. CASE k \in 1..n
      BY <2>1, <3>1 DEF WordLocsIncrease
    <3>2. CASE k = n + 1
      <4>1. m \in 1..n /\ tokens'[m] = tokens[m] /\ tokens'[k] = new
        BY <2>1, <3>2
      <4>2. column < col /\ col \in Nat
        BY <1>5, <2>1, <2>2, <3>2, <4>1 DEF Takes
      <4>3. tokens[m].ln < line \/ (tokens[m].ln = line /\ tokens[m].col < col)
        <5> DEFINE l == tokens[m].ln
                   c == tokens[m].col
        <5>1. c \in Nat /\ (l < line \/ (l = line /\ c <= column))
          BY <1>2, <1>3, <2>1, <4>1
        <5> HIDE DEF l, c
        <5>2. l < line \/ (l = line /\ c < col)
          BY <1>1, <4>2, <5>1
        <5> QED BY <5>2 DEF l, c
      <4> QED BY <2>2, <4>1, <4>3 DEF Before
    <3> QED BY <2>1, <3>1, <3>2
  <2> QED BY <2>3, <2>4
<1> QED BY <1>1, <1>4, <1>5

-----------------------------------------------------------------------------
(* Plain sources: what becomes of the words.                               *)

LEMMA SameSource ==
  ASSUME source' = source
  PROVE  /\ Plain' <=> Plain
         /\ Runs' = Runs
         /\ \A k : At(k)' = At(k)
         /\ \A a, b : Newlines(a, b)' = Newlines(a, b)
BY DEF Plain, Runs, At, Newlines

LEMMA PlainStep ==
  ASSUME TypeOK, Plain, Scan
  PROVE  /\ Moves /\ i' <= Len(source) + 1
         /\ \/ tokens' = tokens /\ i' = i + 1 /\ At(i) \notin Significant
            \/ \E type \in TokenType \ {"EoF"}, col \in Nat :
                 /\ Emits(type, col)
                 /\ \/ /\ type \in WordTypes /\ At(i) \in Letter /\ At(i') \notin WordChar
                       /\ \A k \in i..(i' - 1) : At(k) \in WordChar
                    \/ /\ type \notin WordTypes
                       /\ \A k \in i..(i' - 1) : At(k) \notin Letter
<1>1. /\ Moves /\ i \in Nat /\ i' \in Nat /\ i \in 1..Len(source)
      /\ Len(source) \in Nat /\ column \in Nat /\ column' \in Nat
  BY ScanStep, Typed, MovesOn DEF Moves
<1>2. i \in DOMAIN source /\ At(i) = source[i]
  BY <1>1, SourceFacts, Typed
<1>3. ~AtLineComment /\ ~AtBlockComment /\ At(i) \notin {"@", Quote}
  BY <1>2 DEF Plain, AtLineComment, AtBlockComment
<1>4. CASE SkipSpace
  <2>1. At(i) \notin Significant
    BY <1>4, SkipSpaceStep, Classes, ClassAssumption DEF Significant, Space, Symbol
  <2> QED BY <1>1, <1>4, <2>1, SkipSpaceStep
<1>5. CASE Other
  <2>1. At(i) \notin Significant
    BY <1>5, OtherStep DEF Significant
  <2> QED BY <1>1, <1>5, <2>1, OtherStep
<1>6. CASE Number
  <2>1. PICK type \in {"float", "number"} : Emits(type, column')
    BY <1>6, NumberStep
  <2>2. i' <= Len(source) + 1 /\ \A k \in i..(i' - 1) : At(k) \notin Letter
    BY <1>6, NumberStep, Classes
  <2>3. type \in TokenType \ {"EoF"} /\ type \notin WordTypes
    BY Types
  <2> QED BY <1>1, <2>1, <2>2, <2>3
<1>7. CASE Word
  <2>1. PICK type \in WordTypes : Emits(type, column')
    BY <1>7, WordStep
  <2>2. type \in TokenType \ {"EoF"}
    BY Types
  <2>3. /\ i' <= Len(source) + 1 /\ At(i) \in Letter /\ At(i') \notin WordChar
        /\ \A k \in i..(i' - 1) : At(k) \in WordChar
    BY <1>7, WordStep
  <2> QED BY <1>1, <2>1, <2>2, <2>3
<1>8. CASE SymbolToken
  <2>1. PICK type \in Symbol \cup {"arrow", "equequ"} : Emits(type, column)
    BY <1>8, SymbolStep
  <2>2. i' <= Len(source) + 1 /\ \A k \in i..(i' - 1) : At(k) \notin Letter
    BY <1>8, SymbolStep, Classes
  <2>3. type \in TokenType \ {"EoF"} /\ type \notin WordTypes
    BY Types
  <2> QED BY <1>1, <2>1, <2>2, <2>3
<1>9. ~LineComment /\ ~BlockComment /\ ~Entry /\ ~StringToken
  BY <1>3 DEF LineComment, BlockComment, Entry, StringToken
<1> QED BY <1>4, <1>5, <1>6, <1>7, <1>8, <1>9 DEF Scan

LEMMA TokensTyped ==
  ASSUME TypeOK
  PROVE  /\ tokens \in Seq(TokenRecord)
         /\ \A n \in DOMAIN tokens : tokens[n].from \in Nat /\ tokens[n].to \in Nat
<1>1. tokens \in Seq(TokenRecord)
  BY DEF TypeOK, TokenRecord
<1>2. \A n \in DOMAIN tokens : tokens[n] \in TokenRecord
  BY <1>1, ElementOfSeq
<1> QED BY <1>1, <1>2 DEF TokenRecord

LEMMA WithinBounds ==
  ASSUME NEW a \in Nat, NEW k \in 1..a
  PROVE  k <= a
OBVIOUS

(* Every character from the index on is in the new token only.             *)
LEMMA ScanPartition ==
  ASSUME TypeOK, Scan, Partition
  PROVE  Partition'
<1> SUFFICES ASSUME Plain'
             PROVE  /\ \A n \in DOMAIN tokens' : tokens'[n].type # "EoF" => tokens'[n].to < i'
                    /\ \A k \in 1..(i' - 1) : At(k)' \in Significant => CoveredOnce(k)'
  BY DEF Partition, Significant
<1>1. Moves /\ source' = source /\ i \in Nat /\ i' \in Nat /\ i' - 1 \in Nat /\ i' > i
  BY ScanStep, MovesOn
<1>2. Plain /\ \A k : At(k)' = At(k)
  BY <1>1, SameSource
<1>3. /\ \A n \in DOMAIN tokens : tokens[n].type # "EoF" => tokens[n].to < i
      /\ \A k \in 1..(i - 1) : At(k) \in Significant => CoveredOnce(k)
      /\ \A n \in DOMAIN tokens : tokens[n].from \in Nat /\ tokens[n].to \in Nat
  BY <1>2, TokensTyped DEF Partition
<1>4. CASE tokens' = tokens /\ i' = i + 1 /\ At(i) \notin Significant
  <2>1. ASSUME NEW n \in DOMAIN tokens', tokens'[n].type # "EoF" PROVE tokens'[n].to < i'
    BY <1>1, <1>3, <1>4, <2>1
  <2>2. ASSUME NEW k \in 1..(i' - 1), At(k)' \in Significant PROVE CoveredOnce(k)'
    <3>1. k \in 1..(i - 1) /\ At(k) \in Significant
      BY <1>1, <1>2, <1>4, <2>2
    <3> QED BY <1>3, <1>4, <3>1 DEF CoveredOnce, Covers
  <2> QED BY <2>1, <2>2
<1>5. ASSUME NEW type \in TokenType \ {"EoF"}, NEW col \in Nat, Emits(type, col)
      PROVE  /\ \A n \in DOMAIN tokens' : tokens'[n].type # "EoF" => tokens'[n].to < i'
             /\ \A k \in 1..(i' - 1) : At(k)' \in Significant => CoveredOnce(k)'
  <2> DEFINE new == Tok(type, i' - 1, col)
  <2>1. PICK n \in Nat :
          /\ DOMAIN tokens = 1..n /\ DOMAIN tokens' = 1..(n + 1)
          /\ \A m \in 1..n : tokens'[m] = tokens[m]
          /\ tokens'[n + 1] = new
    BY <1>1, <1>5, TokAppended DEF Emits
  <2>2. new.type = type /\ new.from = i /\ new.to = i' - 1
    BY <1>1, TokTyped
  <2> HIDE DEF new
  <2>3. ASSUME NEW m \in DOMAIN tokens', tokens'[m].type # "EoF" PROVE tokens'[m].to < i'
    <3>1. CASE m = n + 1
      BY <1>1, <2>1, <2>2, <3>1
    <3>2. CASE m \in 1..n
      <4>1. tokens[m].to \in Nat /\ tokens[m].to < i /\ tokens'[m] = tokens[m]
        BY <1>3, <2>1, <2>3, <3>2
      <4> QED BY <1>1, <4>1
    <3> QED BY <2>1, <3>1, <3>2
  <2>4. ASSUME NEW k \in 1..(i' - 1), At(k)' \in Significant PROVE CoveredOnce(k)'
    <3>1. At(k) \in Significant /\ k \in Nat
      BY <1>1, <1>2, <2>4
    <3>2. CASE k < i
      <4>1. k \in 1..(i - 1)
        BY <1>1, <3>1, <3>2
      <4>2. PICK o \in DOMAIN tokens : Covers(o, k) /\ \A m \in DOMAIN tokens : Covers(m, k) => m = o
        BY <1>3, <3>1, <4>1 DEF CoveredOnce
      <4>3. ~Covers(n + 1, k)'
        <5>1. tokens'[n + 1].from = i /\ ~(i <= k)
          BY <1>1, <2>1, <2>2, <3>1, <3>2
        <5> QED BY <5>1 DEF Covers
      <4>4. Covers(o, k)' /\ \A m \in 1..n : Covers(m, k)' => m = o
        BY <2>1, <4>2 DEF Covers
      <4>5. o \in DOMAIN tokens' /\ \A m \in DOMAIN tokens' : Covers(m, k)' => m = o
        BY <2>1, <4>3, <4>4
      <4> QED BY <4>4, <4>5 DEF CoveredOnce
    <3>3. CASE k >= i
      <4>1. Covers(n + 1, k)'
        <5>1. /\ tokens'[n + 1].type # "EoF" /\ tokens'[n + 1].from = i
              /\ tokens'[n + 1].to = i' - 1
          BY <1>5, <2>1, <2>2
        <5>2. k <= i' - 1
          BY <1>1, <2>4, WithinBounds
        <5>3. i <= k
          BY <3>3
        <5> QED BY <5>1, <5>2, <5>3 DEF Covers
      <4>2. ASSUME NEW m \in 1..n PROVE ~Covers(m, k)'
        <5>1. tokens'[m] = tokens[m] /\ tokens[m].to \in Nat
              /\ (tokens[m].type # "EoF" => tokens[m].to < i)
          BY <1>3, <2>1
        <5> QED BY <1>1, <3>1, <3>3, <5>1 DEF Covers
      <4>3. n + 1 \in DOMAIN tokens' /\ \A m \in DOMAIN tokens' : Covers(m, k)' => m = n + 1
        BY <2>1, <4>2
      <4> QED BY <4>1, <4>3 DEF CoveredOnce
    <3> QED BY <1>1, <3>1, <3>2, <3>3
  <2> QED BY <2>3, <2>4
<1> QED BY <1>2, <1>4, <1>5, PlainStep

(* A run that begins within a word that is taken is that word.             *)
LEMMA WordIsRun ==
  ASSUME source \in Source, NEW a \in 1..Len(source), NEW e \in Nat, a < e, e <= Len(source) + 1,
         At(a) \in Letter, At(e) \notin WordChar,
         \A k \in a..(e - 1) : At(k) \in WordChar,
         \A k \in 1..(a - 1) : At(k) \in Letter => \E j \in k..a : At(j) \notin WordChar
  PROVE  /\ << a, e - 1 >> \in Runs
         /\ \A r \in Runs : r[1] \in a..(e - 1) => r = << a, e - 1 >>
<1>1. /\ Len(source) \in Nat /\ DOMAIN source = 1..Len(source) /\ a \in Nat
      /\ \A k \in 1..Len(source) : At(k) = source[k]
  BY SourceFacts
<1>2. << a, e - 1 >> \in Runs
  <2>1. a \in DOMAIN source /\ e - 1 \in DOMAIN source /\ a <= e - 1 /\ (e - 1) + 1 = e
    BY <1>1
  <2>2. source[a] \in Letter /\ \A k \in a..(e - 1) : source[k] \in WordChar
    BY <1>1, <2>1
  <2>3. ASSUME NEW k \in 1..(a - 1), source[k] \in Letter
        PROVE  \E j \in k..a : source[j] \notin WordChar
    <3>1. At(k) = source[k]
      BY <1>1
    <3>2. PICK j \in k..a : At(j) \notin WordChar
      BY <2>3, <3>1
    <3>3. At(j) = source[j]
      BY <1>1
    <3> QED BY <3>2, <3>3
  <2> QED BY <2>1, <2>2, <2>3 DEF Runs
<1>3. ASSUME NEW r \in Runs, r[1] \in a..(e - 1) PROVE r = << a, e - 1 >>
  <2>1. /\ r \in (DOMAIN source) \X (DOMAIN source)
        /\ r[1] \in Nat /\ r[2] \in Nat /\ r[1] <= r[2] /\ r[2] <= Len(source)
        /\ \A k \in r[1]..r[2] : source[k] \in WordChar
        /\ At(r[2] + 1) \notin WordChar
        /\ \A k \in 1..(r[1] - 1) : source[k] \in Letter => \E j \in k..r[1] : source[j] \notin WordChar
    BY <1>1 DEF Runs
  <2>2. r[1] = a
    <3> SUFFICES ASSUME r[1] # a PROVE FALSE
      OBVIOUS
    <3>1. a \in 1..(r[1] - 1) /\ source[a] \in Letter
      BY <1>1, <1>3, <2>1
    <3>2. PICK j \in a..r[1] : source[j] \notin WordChar
      BY <2>1, <3>1
    <3>3. j \in a..(e - 1) /\ j \in 1..Len(source)
      BY <1>1, <1>3, <2>1
    <3> QED BY <1>1, <3>2, <3>3
  <2>3. r[2] = e - 1
    <3>1. r[2] < e
      <4> SUFFICES ASSUME r[2] >= e PROVE FALSE
        BY <2>1
      <4>1. e \in r[1]..r[2] /\ e \in 1..Len(source)
        BY <1>1, <2>1, <2>2
      <4> QED BY <1>1, <2>1, <4>1
    <3>2. r[2] >= e - 1
      <4> SUFFICES ASSUME r[2] < e - 1 PROVE FALSE
        BY <2>1
      <4>1. r[2] + 1 \in a..(e - 1)
        BY <1>1, <2>1, <2>2
      <4> QED BY <2>1, <4>1
    <3> QED BY <2>1, <3>1, <3>2
  <2> QED BY <2>1, <2>2, <2>3
<1> QED BY <1>2, <1>3

LEMMA SpansAppended ==
  ASSUME TypeOK, NEW type \in TokenType, NEW to \in Nat, NEW col \in Nat,
         tokens' = Append(tokens, Tok(type, to, col))
  PROVE  WordSpans' = WordSpans \cup (IF type \in WordTypes THEN {<< i, to >>} ELSE {})
<1> DEFINE new == Tok(type, to, col)
<1>1. PICK n \in Nat :
        /\ DOMAIN tokens = 1..n /\ DOMAIN tokens' = 1..(n + 1)
        /\ \A m \in 1..n : tokens'[m] = tokens[m]
        /\ tokens'[n + 1] = new
  BY TokAppended
<1>2. new.type = type /\ new.from = i /\ new.to = to
  BY TokTyped
<1> HIDE DEF new
<1>3. ToSet(tokens') = ToSet(tokens) \cup {new}
  BY <1>1 DEF ToSet
<1>4. WordSpans' = {<< t.from, t.to >> : t \in {u \in ToSet(tokens') : u.type \in WordTypes}}
  BY DEF WordSpans, ToSet, WordTypes
<1> QED BY <1>2, <1>3, <1>4 DEF WordSpans

LEMMA ScanWords ==
  ASSUME TypeOK, Scan, Words
  PROVE  Words'
<1> SUFFICES ASSUME Plain'
             PROVE  /\ \A k \in 1..(i' - 1) : At(k) \in Letter => \E j \in k..i' : At(j) \notin WordChar
                    /\ WordSpans' = {r \in Runs : r[1] < i'}
  <2>1. source' = source
    BY ScanStep, MovesOn
  <2> QED BY <2>1, SameSource DEF Words, WordChar
<1>1. /\ Moves /\ source' = source /\ i \in Nat /\ i' \in Nat /\ i' - 1 \in Nat /\ i' > i
      /\ i \in 1..Len(source) /\ source \in Source /\ Len(source) \in Nat
  BY ScanStep, MovesOn, Typed DEF Moves
<1>2. Plain
  BY <1>1, SameSource
<1>3. /\ \A k \in 1..(i - 1) : At(k) \in Letter => \E j \in k..i : At(j) \notin WordChar
      /\ WordSpans = {r \in Runs : r[1] < i}
  BY <1>2 DEF Words
<1>4. \A r \in Runs : r[1] \in Nat /\ At(r[1]) \in Letter
  BY <1>1, SourceFacts DEF Runs
<1>5. ASSUME \A k \in i..(i' - 1) : At(k) \notin Letter, WordSpans' = WordSpans
      PROVE  /\ \A k \in 1..(i' - 1) : At(k) \in Letter => \E j \in k..i' : At(j) \notin WordChar
             /\ WordSpans' = {r \in Runs : r[1] < i'}
  <2>1. ASSUME NEW k \in 1..(i' - 1), At(k) \in Letter PROVE \E j \in k..i' : At(j) \notin WordChar
    <3>1. k \in 1..(i - 1)
      <4>1. k \notin i..(i' - 1)
        BY <1>5, <2>1
      <4> QED BY <1>1, <2>1, <4>1, BeforeOrIn
    <3>2. PICK j \in k..i : At(j) \notin WordChar
      BY <1>3, <2>1, <3>1
    <3> QED BY <1>1, <3>2
  <2>2. ASSUME NEW r \in Runs PROVE r[1] < i' <=> r[1] < i
    <3>1. r[1] \in Nat /\ r[1] \notin i..(i' - 1)
      BY <1>4, <1>5
    <3> DEFINE a == r[1]
    <3> HIDE DEF a
    <3>2. a \in Nat /\ ~(a >= i /\ a < i')
      BY <1>1, <3>1 DEF a
    <3>3. i \in Nat /\ i' \in Nat /\ i < i'
      BY <1>1
    <3>4. a < i' <=> a < i
      BY <3>2, <3>3
    <3> QED BY <3>4 DEF a
  <2> QED BY <1>3, <1>5, <2>1, <2>2
<1>6. CASE tokens' = tokens /\ i' = i + 1 /\ At(i) \notin Significant
  <2>1. \A k \in i..(i' - 1) : At(k) \notin Letter
    BY <1>1, <1>6 DEF Significant
  <2> QED BY <1>5, <1>6, <2>1 DEF WordSpans
<1>7. ASSUME NEW type \in TokenType \ {"EoF"}, NEW col \in Nat, Emits(type, col),
             type \notin WordTypes, \A k \in i..(i' - 1) : At(k) \notin Letter
      PROVE  /\ \A k \in 1..(i' - 1) : At(k) \in Letter => \E j \in k..i' : At(j) \notin WordChar
             /\ WordSpans' = {r \in Runs : r[1] < i'}
  <2>1. WordSpans' = WordSpans
    BY <1>1, <1>7, SpansAppended DEF Emits
  <2> QED BY <1>5, <1>7, <2>1
<1>8. ASSUME NEW type \in TokenType \ {"EoF"}, NEW col \in Nat, Emits(type, col),
             type \in WordTypes, At(i) \in Letter, At(i') \notin WordChar, i' <= Len(source) + 1,
             \A k \in i..(i' - 1) : At(k) \in WordChar
      PROVE  /\ \A k \in 1..(i' - 1) : At(k) \in Letter => \E j \in k..i' : At(j) \notin WordChar
             /\ WordSpans' = {r \in Runs : r[1] < i'}
  <2>1. ASSUME NEW k \in 1..(i' - 1), At(k) \in Letter PROVE \E j \in k..i' : At(j) \notin WordChar
    <3>1. i' \in k..i'
      BY <1>1, <2>1, BeforeOrIn
    <3> QED BY <1>8, <3>1
  <2>2. WordSpans' = WordSpans \cup {<< i, i' - 1 >>}
    BY <1>1, <1>8, SpansAppended DEF Emits
  <2>3. << i, i' - 1 >> \in Runs /\ \A r \in Runs : r[1] \in i..(i' - 1) => r = << i, i' - 1 >>
    BY <1>1, <1>3, <1>8, WordIsRun
  <2>4. \A r \in Runs : r[1] < i' <=> r[1] < i \/ r = << i, i' - 1 >>
    BY <1>1, <1>4, <2>3
  <2> QED BY <1>3, <2>1, <2>2, <2>3, <2>4
<1>9. i' <= Len(source) + 1
  BY <1>2, PlainStep
<1> QED BY <1>2, <1>6, <1>7, <1>8, <1>9, PlainStep

-----------------------------------------------------------------------------
(* Lines.                                                                  *)

LEMMA SpanSplit ==
  ASSUME NEW a \in Nat, NEW b \in Nat, a >= 1, a < b
  PROVE  /\ Cardinality(Newlines(1, b - 1)) =
              Cardinality(Newlines(1, a - 1)) + Cardinality(Newlines(a, b - 1))
         /\ Cardinality(Newlines(1, a - 1)) \in Nat /\ Cardinality(Newlines(a, b - 1)) \in Nat
<1> DEFINE S == Newlines(1, a - 1)
           T == Newlines(a, b - 1)
<1>1. IsFiniteSet(S) /\ Cardinality(S) \in Nat /\ IsFiniteSet(T) /\ Cardinality(T) \in Nat
  BY NewlinesFinite
<1>2. S \cap T = {} /\ S \cup T = Newlines(1, b - 1)
  BY DEF Newlines
<1>3. Cardinality(S \cup T) = Cardinality(S) + Cardinality(T) - Cardinality(S \cap T)
  BY <1>1, FS_Union
<1>4. Cardinality(S \cap T) = 0
  BY <1>2, FS_EmptySet
<1> HIDE DEF S, T
<1>5. Cardinality(S \cup T) = Cardinality(S) + Cardinality(T)
  BY <1>1, <1>3, <1>4
<1> QED BY <1>1, <1>2, <1>5 DEF S, T

LEMMA NoNewlines ==
  ASSUME NEW a, NEW b, \A k \in a..b : At(k) # "nl"
  PROVE  Cardinality(Newlines(a, b)) = 0
<1>1. Newlines(a, b) = {}
  BY DEF Newlines
<1> QED BY <1>1, FS_EmptySet

LEMMA OneNewline ==
  ASSUME NEW a \in Nat, At(a) = "nl"
  PROVE  Cardinality(Newlines(a, a)) = 1
<1>1. Newlines(a, a) = {a}
  BY DEF Newlines
<1> QED BY <1>1, FS_Singleton

(* A branch counts the newlines it passes, give or take one for a comment; *)
(* only a string or an '@' passes more.                                    *)
LEMMA ScanLines ==
  ASSUME TypeOK, Scan
  PROVE  \E c \in {0, 1} :
           /\ comments' = comments + c
           /\ line' - line <= Cardinality(Newlines(i, i' - 1)) + c
           /\ \/ line' - line >= Cardinality(Newlines(i, i' - 1)) - c
              \/ {"@", Quote} \cap ToSet(source) # {}
<1>1. /\ Moves /\ i \in Nat /\ i' \in Nat /\ i' > i /\ line' \in Nat
      /\ line \in Nat /\ comments \in Nat /\ i \in 1..Len(source) /\ source \in Source
  BY ScanStep, MovesOn, Typed DEF Moves
<1>2. Cardinality(Newlines(i, i' - 1)) \in Nat
  <2>1. i \in Int /\ i' - 1 \in Int
    BY <1>1, Greater
  <2> QED BY <2>1, NewlinesFinite
<1>3. CASE SkipSpace
  <2>1. i' - 1 = i /\ \A k \in i..(i' - 1) : k = i
    BY <1>1, <1>3, SkipSpaceStep, JustOne
  <2>2. CASE At(i) = "nl"
    <3>1. Cardinality(Newlines(i, i' - 1)) = 1
      BY <1>1, <2>1, <2>2, OneNewline
    <3>2. comments' = comments /\ line' = line + 1
      BY <1>3, <2>2, SkipSpaceStep
    <3> QED BY <1>1, <3>1, <3>2
  <2>3. CASE At(i) # "nl"
    <3>1. Cardinality(Newlines(i, i' - 1)) = 0
      BY <2>1, <2>3, NoNewlines
    <3>2. comments' = comments /\ line' = line
      BY <1>3, <2>3, SkipSpaceStep
    <3> QED BY <1>1, <3>1, <3>2
  <2> QED BY <2>2, <2>3
<1>4. CASE LineComment
  <2>1. /\ \A k \in i..(i' - 1) : At(k) # "nl"
        /\ comments' = comments + 1 /\ line' = line + 1
    BY <1>4, LineCommentStep
  <2>2. Cardinality(Newlines(i, i' - 1)) = 0
    BY <2>1, NoNewlines
  <2> QED BY <1>1, <2>1, <2>2
<1>5. CASE BlockComment
  BY <1>5, BlockCommentStep
<1>6. ASSUME comments' = comments, line' = line, \A k \in i..(i' - 1) : At(k) # "nl"
      PROVE  \E c \in {0, 1} :
               /\ comments' = comments + c
               /\ line' - line <= Cardinality(Newlines(i, i' - 1)) + c
               /\ \/ line' - line >= Cardinality(Newlines(i, i' - 1)) - c
                  \/ {"@", Quote} \cap ToSet(source) # {}
  <2>1. Cardinality(Newlines(i, i' - 1)) = 0
    BY <1>6, NoNewlines
  <2> QED BY <1>1, <1>6, <2>1
<1>7. CASE Number
  <2>1. \A k \in i..(i' - 1) : At(k) # "nl"
    BY <1>7, NumberStep, Classes
  <2> QED BY <1>6, <1>7, <2>1, NumberStep
<1>8. CASE Word
  <2>1. \A k \in i..(i' - 1) : At(k) # "nl"
    BY <1>8, WordStep, Classes
  <2> QED BY <1>6, <1>8, <2>1, WordStep
<1>9. CASE SymbolToken
  <2>1. \A k \in i..(i' - 1) : At(k) # "nl"
    BY <1>9, SymbolStep, Classes
  <2> QED BY <1>6, <1>9, <2>1, SymbolStep
<1>10. CASE Other
  <2>1. i' = i + 1 /\ At(i) # "nl"
    BY <1>10, OtherStep, Classes
  <2>2. \A k \in i..(i' - 1) : At(k) # "nl"
    BY <1>1, <2>1, JustOne
  <2> QED BY <1>6, <1>10, <2>2, OtherStep
<1>11. CASE Entry \/ StringToken
  <2>1. comments' = comments /\ line' = line /\ At(i) \in {"@", Quote}
    BY <1>11, EntryStep, StringStep
  <2>2. source[i] \in {"@", Quote} /\ i \in DOMAIN source
    BY <1>1, <2>1, SourceFacts
  <2>3. {"@", Quote} \cap ToSet(source) # {}
    BY <2>2 DEF ToSet
  <2> QED BY <1>1, <1>2, <2>1, <2>3
<1> QED BY <1>3, <1>4, <1>5, <1>7, <1>8, <1>9, <1>10, <1>11 DEF Scan

LEMMA ScanDrift ==
  ASSUME TypeOK, Scan, LineDrift
  PROVE  LineDrift'
<1>1. /\ i \in Nat /\ i' \in Nat /\ i >= 1 /\ i' > i /\ source' = source
      /\ line' \in Nat /\ line \in Nat /\ comments \in Nat /\ comments' \in Nat
  BY ScanStep, MovesOn, Typed
<1>2. PICK old \in Nat, passed \in Nat :
        /\ Cardinality(Newlines(1, i - 1)) = old
        /\ Cardinality(Newlines(i, i' - 1)) = passed
        /\ Cardinality(Newlines(1, i' - 1)) = old + passed
  BY <1>1, SpanSplit
<1>3. Newlines(1, i' - 1) = Newlines(1, i - 1)'
  BY <1>1 DEF Newlines, At
<1>4. PICK here \in Nat, there \in Nat :
        here = TrueLine /\ there = TrueLine' /\ here = 1 + old /\ there = here + passed
  <2>1. TrueLine = 1 + old /\ TrueLine' = 1 + (old + passed)
    BY <1>2, <1>3 DEF TrueLine
  <2> QED BY <2>1
<1>5. PICK from \in Nat, to \in Nat, n \in Nat, m \in Nat :
        from = line /\ to = line' /\ n = comments /\ m = comments'
  BY <1>1
<1>6. PICK c \in {0, 1} :
        /\ m = n + c
        /\ to - from <= passed + c
        /\ to - from >= passed - c \/ {"@", Quote} \cap ToSet(source) # {}
  BY <1>2, <1>5, ScanLines
<1>7. /\ from <= here + n
      /\ {"@", Quote} \cap ToSet(source) = {} => from >= here - n
  BY <1>4, <1>5 DEF LineDrift
<1>8. to <= there + m
  BY <1>4, <1>6, <1>7
<1>9. ASSUME {"@", Quote} \cap ToSet(source) = {} PROVE to >= there - m
  <2>1. to - from >= passed - c /\ from >= here - n
    BY <1>6, <1>7, <1>9
  <2> QED BY <1>4, <1>6, <2>1
<1>10. LineDrift' <=> /\ to <= there + m
                      /\ {"@", Quote} \cap ToSet(source) = {} => to >= there - m
  BY <1>1, <1>4, <1>5 DEF LineDrift
<1> QED BY <1>8, <1>9, <1>10

-----------------------------------------------------------------------------
(* The theorems.                                                           *)

LEMMA InitInv ==
  ASSUME Init
  PROVE  Inv
<1>1. /\ source \in Source /\ i = 1 /\ tokens = <<>> /\ line = 1 /\ column = 1
      /\ comments = 0 /\ furthest = 0 /\ done = FALSE /\ Len(source) \in Nat
  BY SourceFacts DEF Init
<1>2. DOMAIN tokens = {} /\ ToSet(tokens) = {} /\ 1..(i - 1) = {}
  BY <1>1 DEF ToSet
<1>3. TypeOK
  <2> <<>> \in Seq(TokenRecord)
    OBVIOUS
  <2>1. tokens \in Seq(TokenRecord) /\ done \in BOOLEAN
    BY <1>1
  <2>2. i \in Nat \ {0} /\ line \in Nat \ {0} /\ {column, comments, furthest} \subseteq Nat
    BY <1>1
  <2> QED BY <1>1, <2>1, <2>2 DEF TypeOK, TokenRecord
<1>4. ReadsInBounds /\ AllPassed /\ WordLocsIncrease /\ Partition
  BY <1>1, <1>2 DEF ReadsInBounds, AllPassed, WordLocsIncrease, Partition
<1>5. Words
  <2>1. WordSpans = {}
    BY <1>2 DEF WordSpans
  <2>2. ASSUME NEW r \in Runs PROVE ~(r[1] < i)
    <3>1. r[1] \in 1..Len(source)
      BY <1>1, SourceFacts DEF Runs
    <3> QED BY <1>1, <3>1
  <2> QED BY <1>2, <2>1, <2>2 DEF Words
<1>6. LineDrift
  <2>1. \A k \in 1..(i - 1) : At(k) # "nl"
    BY <1>2
  <2>2. Cardinality(Newlines(1, i - 1)) = 0
    BY <2>1, NoNewlines
  <2>3. TrueLine = 1
    BY <2>2 DEF TrueLine
  <2> QED BY <1>1, <2>3 DEF LineDrift
<1> QED BY <1>1, <1>3, <1>4, <1>5, <1>6 DEF Inv

LEMMA FinishInv ==
  ASSUME Inv, Finish
  PROVE  Inv'
<1>1. /\ TypeOK /\ ReadsInBounds /\ AllPassed /\ WordLocsIncrease
      /\ Partition /\ Words /\ LineDrift
      /\ i \in Nat /\ i >= 1 /\ line \in Nat /\ column \in Nat
  BY Typed DEF Inv
<1>2. /\ i > Len(source) /\ done' = TRUE
      /\ source' = source /\ i' = i /\ line' = line /\ column' = column
      /\ comments' = comments /\ furthest' = furthest
      /\ tokens' = Append(tokens, Tok("EoF", i - 1, column))
  BY DEF Finish, Emit, Tok
<1>3. "EoF" \in TokenType /\ "EoF" \notin WordTypes /\ i - 1 \in Nat
  BY <1>1, Types
<1> DEFINE new == Tok("EoF", i - 1, column)
<1>4. PICK n \in Nat :
        /\ DOMAIN tokens = 1..n /\ DOMAIN tokens' = 1..(n + 1)
        /\ \A m \in 1..n : tokens'[m] = tokens[m]
        /\ tokens'[n + 1] = new
        /\ tokens' \in Seq(TokenRecord)
  BY <1>1, <1>2, <1>3, TokAppended
<1>5. new.type = "EoF" /\ new.ln = line /\ new.col = column
  BY <1>1, <1>3, TokTyped
<1> HIDE DEF new
<1>6. TypeOK'
  BY <1>1, <1>2, <1>4 DEF TypeOK, TokenRecord
<1>7. ReadsInBounds'
  BY <1>1, <1>2 DEF ReadsInBounds
<1>8. AllPassed'
  BY <1>1, <1>2, <1>4, <1>5 DEF AllPassed, Passed
<1>9. WordLocsIncrease'
  <2> SUFFICES ASSUME NEW k \in 1..(n + 1), tokens'[k].type \in WordTypes,
                      NEW m \in 1..(k - 1)
               PROVE  Before(tokens'[m], tokens'[k])
    BY <1>4 DEF WordLocsIncrease, Before
  <2>1. k \in 1..n /\ m \in 1..n
    BY <1>3, <1>4, <1>5
  <2> QED BY <1>1, <1>4, <2>1 DEF WordLocsIncrease
<1>10. Partition'
  <2> SUFFICES ASSUME Plain'
               PROVE  /\ \A m \in DOMAIN tokens' : tokens'[m].type # "EoF" => tokens'[m].to < i
                      /\ \A k \in 1..(i - 1) : At(k) \in Significant => CoveredOnce(k)'
    BY <1>2, SameSource DEF Partition, Significant
  <2>1. /\ \A m \in DOMAIN tokens : tokens[m].type # "EoF" => tokens[m].to < i
        /\ \A k \in 1..(i - 1) : At(k) \in Significant => CoveredOnce(k)
    BY <1>1, <1>2, SameSource DEF Partition
  <2>2. ASSUME NEW k \in 1..(i - 1), At(k) \in Significant PROVE CoveredOnce(k)'
    <3>1. PICK o \in DOMAIN tokens : Covers(o, k) /\ \A m \in DOMAIN tokens : Covers(m, k) => m = o
      BY <2>1, <2>2 DEF CoveredOnce
    <3>2. ~Covers(n + 1, k)'
      BY <1>4, <1>5 DEF Covers
    <3>3. Covers(o, k)' /\ \A m \in 1..n : Covers(m, k)' => m = o
      BY <1>4, <3>1 DEF Covers
    <3>4. o \in DOMAIN tokens' /\ \A m \in DOMAIN tokens' : Covers(m, k)' => m = o
      BY <1>4, <3>2, <3>3
    <3> QED BY <3>3, <3>4 DEF CoveredOnce
  <2>3. ASSUME NEW m \in DOMAIN tokens', tokens'[m].type # "EoF" PROVE tokens'[m].to < i
    BY <1>4, <1>5, <2>1, <2>3
  <2> QED BY <2>2, <2>3
<1>11. Words'
  <2>1. WordSpans' = WordSpans
    BY <1>1, <1>2, <1>3, SpansAppended
  <2>2. (Plain' <=> Plain) /\ Runs' = Runs /\ \A k : At(k)' = At(k)
    BY <1>2, SameSource
  <2> QED BY <1>1, <1>2, <2>1, <2>2 DEF Words, WordChar
<1>12. LineDrift'
  <2>1. Newlines(1, i - 1)' = Newlines(1, i - 1)
    BY <1>2 DEF Newlines, At
  <2>2. TrueLine' = TrueLine
    BY <2>1 DEF TrueLine
  <2> QED BY <1>1, <1>2, <2>2 DEF LineDrift
<1> QED BY <1>2, <1>6, <1>7, <1>8, <1>9, <1>10, <1>11, <1>12 DEF Inv

LEMMA Stutter ==
  ASSUME Inv, UNCHANGED vars
  PROVE  Inv'
<1>1. /\ TypeOK' /\ ReadsInBounds' /\ AllPassed' /\ WordLocsIncrease'
      /\ (done => i > Len(source))'
  BY DEF Inv, vars, TypeOK, ReadsInBounds, AllPassed, Passed, WordLocsIncrease, Before
<1>2. Partition'
  BY DEF Inv, vars, Partition, Plain, At, CoveredOnce, Covers
<1>3. Words'
  BY DEF Inv, vars, Words, Plain, At, WordSpans, Runs
<1>4. LineDrift'
  BY DEF Inv, vars, LineDrift, TrueLine, Newlines, At
<1> QED BY <1>1, <1>2, <1>3, <1>4 DEF Inv

THEOREM Invariance == Spec => []Inv
<1>1. Init => Inv
  BY InitInv
<1>2. Inv /\ [Next]_vars => Inv'
  <2> SUFFICES ASSUME Inv, [Next]_vars PROVE Inv'
    OBVIOUS
  <2>1. CASE Scan
    <3>1. /\ TypeOK /\ ReadsInBounds /\ AllPassed /\ WordLocsIncrease
          /\ Partition /\ Words /\ LineDrift
      BY DEF Inv
    <3>2. ~done'
      BY <2>1, <3>1, ScanStep, MovesOn
    <3> QED BY <2>1, <3>1, <3>2, ScanTypes, ScanReads, ScanLocs, ScanPartition, ScanWords, ScanDrift
            DEF Inv
  <2>2. CASE Finish
    BY <2>2, FinishInv
  <2>3. CASE Returned \/ UNCHANGED vars
    BY <2>3, Stutter DEF Returned
  <2> QED BY <2>1, <2>2, <2>3 DEF Next, Scan
<1> QED BY <1>1, <1>2, PTL DEF Spec

(* Every variable keeps its type, a token its fields.                      *)
THEOREM TypeCorrect == Spec => []TypeOK
<1>1. Inv => TypeOK
  BY DEF Inv
<1> QED BY <1>1, Invariance, PTL

(* No index beyond the terminator is read unless the source ends in an '@' *)
(* or in a quote.                                                          *)
THEOREM ReadsBounded == Spec => []ReadsInBounds
<1>1. Inv => ReadsInBounds
  BY DEF Inv
<1> QED BY <1>1, Invariance, PTL

(* The locations the analyser makes its labels of are distinct, comments,  *)
(* strings and newlines notwithstanding.                                   *)
THEOREM WordLocs == Spec => []WordLocsIncrease
<1>1. Inv => WordLocsIncrease
  BY DEF Inv
<1> QED BY <1>1, Invariance, PTL

(* The line of a diagnostic is off by one a comment at most.               *)
THEOREM Drift == Spec => []LineDrift
<1>1. Inv => LineDrift
  BY DEF Inv
<1> QED BY <1>1, Invariance, PTL

(* Every letter, digit and symbol of a plain source is in one token.       *)
THEOREM NothingDropped == Spec => []NothingLost
<1>1. Inv => NothingLost
  <2> SUFFICES ASSUME Inv, done, Plain, NEW k \in DOMAIN source, source[k] \in Letter \cup Digit \cup Symbol
               PROVE  Cardinality({n \in DOMAIN tokens :
                        /\ tokens[n].type # "EoF"
                        /\ tokens[n].from <= k /\ k <= tokens[n].to}) = 1
    BY DEF NothingLost
  <2>1. i > Len(source) /\ i \in Nat /\ source \in Source
    BY Typed DEF Inv
  <2>2. k \in 1..(i - 1) /\ At(k) \in Significant
    BY <2>1, SourceFacts DEF Significant
  <2>3. PICK o \in DOMAIN tokens : Covers(o, k) /\ \A m \in DOMAIN tokens : Covers(m, k) => m = o
    BY <2>2 DEF Inv, Partition, CoveredOnce
  <2>4. {n \in DOMAIN tokens : /\ tokens[n].type # "EoF"
                               /\ tokens[n].from <= k /\ k <= tokens[n].to} = {o}
    BY <2>3 DEF Covers
  <2> QED BY <2>4, FS_Singleton
<1> QED BY <1>1, Invariance, PTL

(* The words of a plain source are its longest runs of word characters.    *)
THEOREM WordsExact == Spec => []WordsAreRuns
<1>1. Inv => WordsAreRuns
  <2> SUFFICES ASSUME Inv, done, Plain PROVE WordSpans = Runs
    BY DEF WordsAreRuns, WordSpans
  <2>1. i > Len(source) /\ i \in Nat /\ source \in Source /\ WordSpans = {r \in Runs : r[1] < i}
    BY Typed DEF Inv, Words
  <2>2. ASSUME NEW r \in Runs PROVE r[1] < i
    <3>1. r[1] \in 1..Len(source) /\ Len(source) \in Nat
      BY <2>1, SourceFacts DEF Runs
    <3> QED BY <2>1, <3>1
  <2> QED BY <2>1, <2>2
<1> QED BY <1>1, Invariance, PTL
=============================================================================
