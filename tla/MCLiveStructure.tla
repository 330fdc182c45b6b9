--------------------------- MODULE MCLiveStructure ---------------------------
(* Documents for TLC: the word of section number k is the word k.           *)
EXTENDS LiveStructure

Sec(key, head, level) ==
  [key |-> key, head |-> head, level |-> level, depth |-> level, body |-> <<<<key>>>>]

Empty(sec)    == [sec EXCEPT !.body = <<>>]
Says(sec, w)  == [sec EXCEPT !.body = <<<<w>>>>]
Top           == [key |-> Bfh, head |-> "", level |-> 0, depth |-> 1, body |-> <<>>]

Flat   == <<Sec(1, "A", 1), Sec(2, "B", 1)>>
Intro  == <<Says(Top, 1), Says(Sec(1, "A", 1), 2)>>
Nested == <<Sec(1, "A", 1), Sec(2, "B", 2)>>
Three  == <<Sec(1, "A", 1), Sec(2, "B", 2), Sec(3, "C", 1)>>

\* Two siblings; the same with text above; a child, with and without a section
\* after it.
FlatDocs   == {Flat, Intro}
NestedDocs == {Nested, Three}
AllDocs    == FlatDocs \cup NestedDocs
TrioDocs   == {<<Says(Top, 1), Says(Sec(1, "A", 1), 2), Says(Sec(2, "B", 1), 3)>>}

\* Three levels, then another parent.
DeepDocs   == {<<Sec(1, "A", 1), Sec(2, "B", 2), Sec(3, "C", 3),
                 Sec(4, "D", 1), Sec(5, "E", 2)>>}

\* All the text there was has been erased and written so.
BlankDocs  == {<<Top, Empty(Sec(1, "A", 1))>>}
==============================================================================
