---------------------------- MODULE MCSqlComment -----------------------------
(* SqlComment with two contexts, one of them also percent-encoded, and     *)
(* statements with up to two comments of up to two pairs.                  *)
EXTENDS SqlComment, TLC

CONSTANTS c1, c2, e1

MCDecode == e1 :> c1

Vals ==
    {Bare, <<c1>>, <<c2>>, <<e1>>, <<BadEscape>>, <<c1, "x">>, <<>>, <<"x", ",">>}
Pairs == [key : {TRACEPARENT, "x"}, val : Vals]
Lists == {<<>>} \union {<<p>> : p \in Pairs}
         \union {<<p, q>> : p \in Pairs,
                   q \in {[key |-> TRACEPARENT, val |-> <<c2>>],
                          [key |-> "x", val |-> <<"x", ",">>]}}

(* A plain statement, a literal that opens a comment, a comment inside.    *)
Codes ==
    {<<"x">>, <<"x", "'", "/", "*", "'">>, <<"x", "/", "*", "x", "*", "/", "x">>}

Few == {<<>>, <<<<[key |-> "x", val |-> Bare]>>>>,
        <<<<[key |-> TRACEPARENT, val |-> <<c1>>]>>>>}

(* The last one ends in a line comment whose end looks like a block        *)
(* comment that opens and closes with the same asterisk.                   *)
MCStatements ==
    [lead : {<<>>} \union {<<l>> : l \in Lists}, code : {<<"x">>},
     trail : Few, ending : {<<>>}]
    \union
    [lead : {<<>>}, code : Codes, trail : {<<>>} \union {<<l>> : l \in Lists},
     ending : {<<";", " ">>}]
    \union
    {[NoSql EXCEPT !.code = <<"x", "-", "-">>, !.ending = <<"/", "*", "/">>]}
=============================================================================
