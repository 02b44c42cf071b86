----------------------------- MODULE WebTextsMC -----------------------------
(* The requests, cookies and pages of the model checker's instance of        *)
(* WebTexts.                                                               *)
EXTENDS WebTexts

(* Texts with every character that is encoded, and one that looks encoded.   *)
Texts == {<<>>, <<"a">>, <<"a", " ">>, <<"=">>, <<"&", "a">>, <<"+">>, <<"%", "3D">>, <<"?">>}

Field(name, value) == [name |-> name, value |-> value, bare |-> FALSE]
Bare(name)         == [name |-> name, value |-> <<>>, bare |-> TRUE]

A == <<"a">>
B == <<"b">>
F == <<"f">>

Lists ==
    {<<>>, <<Bare(<<"=", "a">>)>>, <<Field(<<"&">>, B), Field(A, <<"?">>)>>,
     <<Field(A, A), Field(A, <<" ">>)>>}
    \cup {<<Field(A, t)>> : t \in Texts} \cup {<<Field(A, t), Bare(B)>> : t \in Texts}

MCForms ==
    [query : Lists, body : {<<>>, <<Field(A, <<"&", "a">>)>>, <<Bare(B), Field(B, A)>>}, coded : BOOLEAN]

\* HttpCookie(name, value, maxAge, ...) sets every member.
Cookie(name, value) == [NewCookie(FALSE) EXCEPT !.name = name, !.value = value]
Dressed(c) ==
    {[c EXCEPT !.comment = <<"c">>, !.path = <<"/">>, !.httpOnly = TRUE],
     [c EXCEPT !.domain = <<"d">>, !.maxAge = 5, !.secure = TRUE]}

MCCookieSets ==
    {<<>>, <<Cookie(<<>>, A)>>, <<Cookie(A, A), Cookie(A, <<>>)>>,
     <<Cookie(A, <<"=", "a">>), Cookie(B, A)>>}
    \cup {<<c>> : c \in Dressed(Cookie(A, <<"a", " ", "b">>))}
    \cup {<<[NewCookie(memory) EXCEPT !.name = B]>> : memory \in BOOLEAN}

MCForeignCookies ==
    {NoMap, [n \in {F} |-> <<"a", ";", "=">>], [n \in {Empty, F} |-> <<"a">>]}

-----------------------------------------------------------------------------
Leaf(tag, name) == [node |-> tag, name |-> name]
Inner(node, name, body, other) ==
    [node |-> node, name |-> name, body |-> body, other |-> other]

C   == <<<<"c">>>>
V   == <<<<"v">>>>
Row == <<<<"row">>>>
T   == Leaf("text", <<<<"t">>>>)
Var(name) == Leaf("var", name)

\* A condition around a value, with and without the other part.
Conditions(name, body, other) ==
    {Inner(k, name, body, o) : k \in {"if", "ifnot"}, o \in {NoElse, other}}

InRow(name) == Append(Row, <<name>>)
Column      == InRow("col")

Bodies == {<<Var(InRow("v")), Var(V)>>}
          \cup {<<c, T>> : c \in Conditions(InRow("c"), <<Var(InRow("v"))>>, <<T>>)}
          \cup {<<Inner("loop", Column, <<Var(Append(Column, <<"v">>))>>, o)>> :
                    o \in {NoElse, <<Var(InRow("v"))>>}}

D == <<<<"d">>>>

MCSources ==
    {<<Var(V), T, Var(V)>>, <<Leaf("ifnot", C), Var(V)>>, <<T, Leaf("loop", Row)>>}
    \cup {<<c, d>> : c \in Conditions(C, <<Var(V)>>, <<T>>), d \in Conditions(C, <<T>>, <<Var(V)>>)}
    \cup {<<c>> : c \in UNION {Conditions(C, <<d>>, <<T, d>>) : d \in Conditions(D, <<T>>, <<Var(V)>>)}}
    \cup {<<Inner("loop", Row, b, o)>> : b \in Bodies, o \in {NoElse, <<T>>}}
    \cup {<<c>> : c \in UNION {Conditions(C, <<Inner("loop", Row, b, NoElse)>>, <<T>>) :
                                b \in {<<Var(InRow("v"))>>}}}

=============================================================================
