---------------------------- MODULE MCTextTools ----------------------------
(* TLC instance of TextTools: short texts of every shape, and the argument *)
(* lists of each tool that take another way through it.                    *)
EXTENDS TextTools

CONSTANT MaxText   \* the length of the texts enumerated

a == 97
one == 49
two == 50

(* Besides the short texts: lines that are numbers and lines that are not, *)
(* equal numbers written differently, lines with several fields, and a     *)
(* file of which readFile returns whole lines only.                        *)
MCFiles ==
  SeqOf({NL, SPACE, one, a}, MaxText)
    \cup { <<two, NL, one, a, NL, one, two>>, <<SPACE, one, NL, one, NL, SPACE, one>>,
           <<one, two, NL, two, NL, one>>, <<a, COLON, one, COLON, a, NL, COLON, two>>, <<a, NL, NL, a, NL>> }

MCArguments ==
  [cat       |-> { <<n>> : n \in 1..MaxFileReadBytes },
   head_file |-> { <<n>> : n \in 1..3 },
   tail_file |-> { <<n>> : n \in 1..3 },
   grep      |-> { <<p, n>> : p \in {<< >>, <<a>>, <<one, a>>}, n \in 1..3 },
   sort      |-> SeqOf({DashR, DashN, DashC}, 2),
   uniq      |-> { << >>, <<DashC>>, <<DashD>>, <<DashC, DashC>> },
   wc        |-> { << >>, <<DashW>>, <<DashC, DashL>>, <<DashN>> },
   tr        |-> { <<<<a>>, << >>>>, <<<<a>>>>, <<DashD, <<a, NL>>>>, <<DashD, << >>>>,
                   <<<<a, one, a>>, <<one, two, SPACE>>>>, <<<<a, one, NL>>, <<NL, a>>>> },
   head      |-> { <<DashN, <<48 + n>>>> : n \in 0..3 } \cup { <<DashN, <<a>>>>, <<DashC, <<one>>>> },
   tail      |-> { <<DashN, <<48 + n>>>> : n \in 0..3 } \cup { << >>, <<DashN, <<57>>>> },
   cut       |-> { <<DashD, <<d>>, DashF, f>> : d \in {COLON, SPACE, a, NL},
                     f \in {<<one>>, <<two, COMMA, one>>, <<one, COMMA, 51>>, <<48>>} }]
=============================================================================
