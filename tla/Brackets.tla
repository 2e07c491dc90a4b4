------------------------------ MODULE Brackets ------------------------------
(***************************************************************************)
(* What the compiler promises about the brackets of a program: read one    *)
(* token after another, they open and close like parentheses, or else the  *)
(* program is rejected and not accepted later.  Of a program that uses a   *)
(* leniency of the parser (excused) only the last is promised.             *)
(***************************************************************************)
EXTENDS SequencesExt

CONSTANT Token   \* the kinds of token of the programs

VARIABLES
  next,      \* the token to be read
  open,      \* the brackets that are open, the innermost last
  excused,   \* the program need not match any more
  rejected,  \* an error was reported
  accepted   \* the program was compiled

brackets == << next, open, excused, rejected, accepted >>

Closing == [lparen |-> "rparen", lbrace |-> "rbrace", lbracket |-> "rbracket"]
Closers == {Closing[b] : b \in DOMAIN Closing}

Upcoming == Token \cup {"EoF", "beyond"}

Start ==
  /\ next \in Upcoming /\ open = << >>
  /\ excused = FALSE /\ rejected = FALSE /\ accepted = FALSE

Reading == ~excused /\ ~rejected /\ ~accepted

Read ==
  /\ Reading
  /\ \/ next \in DOMAIN Closing /\ open' = Append(open, next)
     \/ open # << >> /\ next = Closing[Last(open)] /\ open' = Front(open)
     \/ next \notin DOMAIN Closing \cup Closers /\ UNCHANGED open
  /\ next' \in Upcoming
  /\ UNCHANGED << excused, rejected, accepted >>

(* Only a program that has been read, with every bracket closed, is taken. *)
Accept ==
  /\ Reading
  /\ next = "EoF" /\ open = << >>
  /\ accepted' = TRUE
  /\ UNCHANGED << next, open, excused, rejected >>

Excuse == ~rejected /\ excused' = TRUE /\ rejected' = FALSE

Reject == ~accepted /\ rejected' = TRUE /\ accepted' = FALSE

Match == Start /\ [][Read \/ Accept \/ Excuse \/ Reject]_brackets
=============================================================================
