------------------------------ MODULE Template ------------------------------
(***************************************************************************)
(* Template: a page with tags, filled by setVariable, setCondition and      *)
(* loop.                                                                   *)
(*                                                                         *)
(* A page is a sequence of tokens, [tag, name]: "text", the variable "var",  *)
(* and the tags "if", "ifnot", "else", "end" and "loop" of a name.  A name  *)
(* is the sequence of its parts, the dotted words; a part is a word and the *)
(* numbers loops have appended to it.  One step is one turn of a search     *)
(* loop: it replaces one occurrence, or finds none.                         *)
(***************************************************************************)
EXTENDS Naturals, Sequences, SequencesExt

CONSTANTS
    Sources,    \* the pages: sequences of nodes, see Written
    MaxCount    \* the most repetitions of a loop

VARIABLES
    source,     \* the nodes of the page
    counts,     \* the repetitions of its loops, by their numbered names
    truths,     \* the values of its conditions, by their numbered names
    values,     \* the variable whose tag its variables' values hold, by their names
    page,       \* the tokens
    todo,       \* the calls the controller has not made
    call,       \* the call being made, NoCall between calls
    search,     \* the start tags the call has still to search for
    start       \* where it searches next

templateVars == <<source, counts, truths, values, page, todo, call, search, start>>

NoCall == [sets |-> "nothing", name |-> <<>>]
Token(tag, name) == [tag |-> tag, name |-> name]

-----------------------------------------------------------------------------
(* The page as its author wrote it: nodes [node, name, body, other], where   *)
(* other is the part of the else tag, or NoElse.  A text, a variable, and a  *)
(* start tag whose end tag is forgotten, have no body.                      *)

NoElse == <<[node |-> "no else", name |-> <<>>]>>

HasBody(n) == "body" \in DOMAIN n
Ended(nodes) == \A i \in 1 .. Len(nodes) : HasBody(nodes[i]) \/ nodes[i].node \in {"text", "var"}

RECURSIVE Written(_)
Written(nodes) ==
    FlattenSeq([i \in 1 .. Len(nodes) |->
        LET n == nodes[i] IN
        IF ~HasBody(n) THEN <<Token(n.node, n.name)>>
        ELSE <<Token(n.node, n.name)>> \o Written(n.body)
             \o (IF n.other = NoElse THEN <<>> ELSE <<Token("else", n.name)>> \o Written(n.other))
             \o <<Token("end", n.name)>>])

\* The name inside the loops around it, a sequence of [name, at].
Numbered(name, around) ==
    [p \in 1 .. Len(name) |->
        LET by == SelectInSeq(around, LAMBDA l : Len(l.name) = p /\ IsStrictPrefix(l.name, name))
        IN  IF by = 0 THEN name[p] ELSE Append(name[p], around[by].at)]

\* The value of a variable holds a tag, which a page may well show: its own, or
\* that of another variable.
ValueOf(name) == <<Token("text", name), Token("var", values[name])>>

\* What the page means, and the names it uses, read off the nodes.
RECURSIVE Meant(_, _)
Meant(nodes, around) ==
    FlattenSeq([i \in 1 .. Len(nodes) |->
        LET n     == nodes[i]
            name  == Numbered(n.name, around)
            Other == IF n.other = NoElse THEN <<>> ELSE Meant(n.other, around)
        IN  CASE n.node = "text" -> <<Token("text", n.name)>>
              [] n.node = "var"  -> ValueOf(name)
              [] n.node = "if"    -> IF truths[name] THEN Meant(n.body, around) ELSE Other
              [] n.node = "ifnot" -> IF truths[name] THEN Other ELSE Meant(n.body, around)
              [] n.node = "loop"  ->
                    IF counts[name] = 0 THEN Other
                    ELSE FlattenSeq([k \in 1 .. counts[name] |->
                            Meant(n.body, Append(around, [name |-> n.name, at |-> k - 1]))])])

\* All names of one kind of node, with every number a loop may give them.
RECURSIVE Names(_, _, _)
Names(nodes, kinds, around) ==
    UNION {LET n    == nodes[i]
               here == IF n.node \in kinds THEN {Numbered(n.name, around)} ELSE {}
           IN  IF ~HasBody(n) THEN here
               ELSE here \cup (IF n.other = NoElse THEN {} ELSE Names(n.other, kinds, around))
                    \cup (IF n.node # "loop" THEN Names(n.body, kinds, around)
                          ELSE UNION {Names(n.body, kinds,
                                        Append(around, [name |-> n.name, at |-> k])) :
                                      k \in 0 .. MaxCount - 1}) : i \in 1 .. Len(nodes)}

-----------------------------------------------------------------------------
(* indexOf and replace.                                                    *)

IndexOf(tag, name, from) ==
    SelectInSubSeq(page, from, Len(page), LAMBDA t : t = Token(tag, name))

Replaced(first, last, tokens) ==
    SubSeq(page, 1, first - 1) \o tokens \o SubSeq(page, last + 1, Len(page))

At   == IndexOf(Head(search), call.name, start)
End  == IndexOf("end", call.name, At + 1)
Else == IndexOf("else", call.name, At + 1)

\* Mutant: any else tag behind the start tag is taken for its own.
HasElseAnywhere == Else > At

HasElse == Else > At /\ Else < End

TruePart  == SubSeq(page, At + 1, (IF HasElse THEN Else ELSE End) - 1)
FalsePart == IF HasElse THEN SubSeq(page, Else + 1, End - 1) ELSE <<>>

\* s.replace("{row.", "{row0."), for every kind of tag.
Renumbered(tokens, name, at) ==
    [i \in 1 .. Len(tokens) |->
        IF tokens[i].tag # "text" /\ IsStrictPrefix(name, tokens[i].name)
        THEN [tokens[i] EXCEPT !.name[Len(name)] = Append(@, at)]
        ELSE tokens[i]]

-----------------------------------------------------------------------------
Idle == call = NoCall

SearchOn == UNCHANGED <<source, counts, truths, values, todo, call, search>>

\* A name inside a loop exists, numbered, once the loop has been called.
BelongsTo(name, loop) ==
    /\ Len(loop) < Len(name)
    /\ \A p \in 1 .. Len(loop) : IsPrefix(loop[p], name[p])

BeginCall(c) ==
    /\ Idle
    /\ \A loop \in todo : loop.sets = "loop" => ~BelongsTo(c.name, loop.name)
    /\ call' = c /\ todo' = todo \ {c}
    /\ search' = CASE c.sets = "variable"  -> <<"var">>
                   [] c.sets = "condition" -> <<"if", "ifnot">>
                   [] c.sets = "loop"      -> <<"loop">>
    /\ start' = 1
    /\ UNCHANGED <<source, counts, truths, values, page>>

\* None is left: the next start tag, or the end of the call.
NotFound ==
    /\ ~Idle /\ At = 0
    /\ search' = Tail(search) /\ start' = 1
    /\ call' = IF Len(search) = 1 THEN NoCall ELSE call
    /\ UNCHANGED <<source, counts, truths, values, page, todo>>

SetVariable ==
    /\ call.sets = "variable" /\ At > 0
    /\ page' = Replaced(At, At, ValueOf(call.name))
    /\ start' = At + Len(ValueOf(call.name))
    /\ SearchOn

SetCondition ==
    /\ call.sets = "condition" /\ At > 0 /\ End > 0
    /\ page' = Replaced(At, End,
                        IF truths[call.name] = (Head(search) = "if") THEN TruePart ELSE FalsePart)
    /\ start' = At
    /\ SearchOn

Loop ==
    /\ call.sets = "loop" /\ At > 0 /\ End > 0
    /\ page' = Replaced(At, End,
            IF counts[call.name] = 0 THEN FalsePart
            ELSE FlattenSeq([k \in 1 .. counts[call.name] |->
                    Renumbered(TruePart, call.name, k - 1)]))
    /\ start' = At
    /\ SearchOn

\* A start tag without its end tag is warned of and found again, for ever.
EndMissing ==
    /\ call.sets \in {"condition", "loop"} /\ At > 0 /\ End = 0
    /\ UNCHANGED templateVars

\* Bound of the model: the values hold their own tags, or all the same one.
Variables == Names(source, {"var"}, <<>>)

TemplateInit ==
    /\ source \in Sources
    /\ values \in {[n \in Variables |-> n]}
                  \cup {[n \in Variables |-> shown] : shown \in Variables}
    /\ counts \in [Names(source, {"loop"}, <<>>) -> 0 .. MaxCount]
    /\ truths \in [Names(source, {"if", "ifnot"}, <<>>) -> BOOLEAN]
    /\ page = Written(source)
    /\ todo = {[sets |-> "loop", name |-> n] : n \in DOMAIN counts}
              \cup {[sets |-> "condition", name |-> n] : n \in DOMAIN truths}
              \cup {[sets |-> "variable", name |-> n] : n \in Variables}
    /\ call = NoCall /\ search = <<>> /\ start = 1

Fill == NotFound \/ SetVariable \/ SetCondition \/ Loop \/ EndMissing

TemplateNext == (\E c \in todo : BeginCall(c)) \/ Fill

-----------------------------------------------------------------------------
\* No value holds a tag that another call would take for the page's.
OwnTags == \A n \in DOMAIN values : values[n] = n

(* Whatever the order of the controller's calls, and whatever tags of          *)
(* variables the values hold, every search ends on a page whose tags are       *)
(* ended.  If no value holds another variable's tag, which a later call would  *)
(* replace, the page then shows what its author meant: the parts of the        *)
(* conditions that hold, every loop as often as asked for, and each value once. *)
PageFilled ==
    Ended(source) => <>(Idle /\ todo = {} /\ (OwnTags => page = Meant(source, <<>>)))

=============================================================================
