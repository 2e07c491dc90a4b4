----------------------------- MODULE MCSemantic -----------------------------
(* Small instances of Semantic for TLC.                                    *)
EXTENDS Semantic

F == <<"f">>
G == <<"g">>
X == <<"x">>

NamesFX == {F, X}
NamesFG == {F, G}
NamesX == {X}

(* The words "if" and "while" start at distinct places of a source.        *)
Positions == [n \in 1..MaxNodes |-> << "2!1", "2!5", "3!1", "3!5", "4!1",
                                        "4!5", "5!1", "5!5", "6!1" >>[n]]

NoParams == {<<>>}
OneParam == {<<>>, << [name |-> X, type |-> "Bool"] >>}
TwoParams == {<<>>,
              << [name |-> X, type |-> "Bool"], [name |-> F, type |-> "Int"] >>,
              << [name |-> X, type |-> "Bool"], [name |-> X, type |-> "Int"] >>}
=============================================================================
