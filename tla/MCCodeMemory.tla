---------------------------- MODULE MCCodeMemory ----------------------------
(* Instance of CodeMemory for TLC. *)
EXTENDS CodeMemory, TLC

CONSTANTS i1, i2, i3, py, rs, c1, c2, can, chat, log

ThreeImports == {i1, i2, i3}
ImportSymmetry == Permutations(ThreeImports)

Languages == {py, rs}
Contents == {c1, c2}
Labels == {can}
Kinds == {chat, log}

Fenced(l, c) == [language |-> l, content |-> c]
Spoken(blocks) == [blocks |-> blocks, kind |-> chat, tags |-> {can}, systems |-> {}]
Logged(blocks) == [blocks |-> blocks, kind |-> log, tags |-> {}, systems |-> {can}]

(* A text with two blocks, one with the same content under another hint,   *)
(* one that has a content twice, and one without a block.                  *)
SomeTexts ==
    {Spoken(<<Fenced(py, c1), Fenced(py, c2)>>), Logged(<<Fenced(rs, c2)>>),
     Spoken(<<Fenced(py, c2), Fenced(py, c2)>>), Logged(<<>>)}

(* Token 1 is in both contents, token 2 in a language, token 3 in a label. *)
SomeTokens == {<<1, c1>>, <<1, c2>>, <<2, rs>>, <<3, can>>}

Asking(tokens, ls, ks, ss, limit) ==
    [tokens |-> tokens, languages |-> ls, kinds |-> ks, systems |-> ss, limit |-> limit]

SomeQueries ==
    {Asking(<<1, 2>>, {}, {}, {}, 1), Asking(<<>>, {py}, {}, {}, 8),
     Asking(<<3, 1>>, {}, {}, {}, 0), Asking(<<2>>, {}, {log}, {can}, 8)}
=============================================================================
