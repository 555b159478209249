---- MODULE MCTextTools ----
(* Small texts: every file of a few bytes, every output of a few chunks,   *)
(* edits that match exactly, fuzzily, twice or not at all.                 *)
EXTENDS TextTools

Texts(alphabet, n) == UNION {[1..k -> alphabet] : k \in 0..n}

MCChunks == {<<NL>>, <<"x">>, <<"x", "x">>, <<NL, Lead>>, <<Cont, CR, "x">>, <<Lead, Cont, Control>>}

MCReadFiles == Texts({"x", NL}, 7)
MCLimits    == {NoLimit, -1, 0, 1, 2, 3}

MCPlain  == "fancy" :> "a"
MCBlanks == {" "}

MCEditFiles ==
    LET contents == Texts({"a", "fancy", "b", " ", Newline}, 4)
    IN  contents \cup {<<BOM>> \o RestoreLineEndings(c, TRUE) : c \in {c \in contents : Len(c) = 3}}

\* Files in which an old text can occur twice, overlapping
OneLetterFiles == Texts({"a"}, 4)

MCOld == {<<>>, <<"a">>, <<"b">>, <<"fancy">>, <<"a", "b">>, <<"fancy", " ">>, <<"a", "a">>,
          <<"a", Newline>>, <<Return, Newline, "b">>, <<" ">>}

MCEditLists ==
    {<<[oldText |-> old, newText |-> new]>> : old \in MCOld, new \in {<<>>, <<"a">>, <<"n", Newline>>}}
        \cup {<<[oldText |-> old, newText |-> <<"n">>], [oldText |-> next, newText |-> <<"m", Newline>>]>> :
                old \in MCOld, next \in MCOld}

MCDiffTexts ==
    LET lines == Texts({"a", "b"}, 5)
    IN  lines \cup {Append(Front(l), Last(l) \o " without newline") : l \in lines \ {<<>>}}
====
