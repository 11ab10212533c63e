----------------------------- MODULE MCConnection -----------------------------
(***************************************************************************)
(* Instances of Connection for TLC.  A word is one character: "g" stands   *)
(* for a request line, "h" for a header of no interest and "2" and "3" for *)
(* the Content-Length headers of these values.                             *)
(***************************************************************************)
EXTENDS Connection

AllChars == {"cr", "lf", "nul", "g", "h", "2", "3", "x"}
Lines == {<<"g">>}
Lengths == (<<"2">> :> 2) @@ (<<"3">> :> 3)

Get == [lines |-> <<<<"g">>, <<"h">>>>, body |-> <<>>]
Post(length, body) == [lines |-> <<<<"g">>, length, <<"h">>>>, body |-> body]

\* Bodies that look like lines, that fit in one read or not; a first line
\* that does not parse.
TextScripts ==
    {<<Post(<<"3">>, <<"x", "cr", "lf">>), Get>>,
     <<Get, Post(<<"2">>, <<"cr", "lf">>)>>,
     <<[lines |-> <<<<"x">>, <<"h">>>>, body |-> <<>>]>>}

\* A payload with a NUL in it.
BinaryScripts == {<<Post(<<"2">>, <<"nul", "x">>)>>}

\* One request, for a response that a write may take a part of.
PlainScript == {<<Get>>}

\* No content, a string, and files shorter than, as long as and longer than
\* what is read of a file at once.
SomeResponses ==
    {[header |-> <<"h">>, body |-> <<>>, file |-> FALSE],
     [header |-> <<"h">>, body |-> <<"x", "g">>, file |-> FALSE],
     [header |-> <<"h">>, body |-> <<"x">>, file |-> TRUE],
     [header |-> <<"h">>, body |-> <<"x", "g">>, file |-> TRUE],
     [header |-> <<"h">>, body |-> <<"x", "g", "x">>, file |-> TRUE]}

StringResponses == {[header |-> <<"h">>, body |-> <<"x", "g">>, file |-> FALSE]}

=============================================================================
