------------------------------- MODULE Listings -------------------------------
(***************************************************************************)
(* The links of a directory listing (hs_routes_fs.c): each is made of the  *)
(* resource the route sees, without the path of the mounts, and the page   *)
(* names the mounts' path as its base.                                     *)
(***************************************************************************)
EXTENDS Paths

\* The base path of a route that is in no mounted router, NULL in the code.
NoBase == <<>>

Ends(path, char) == path # <<>> /\ path[Len(path)] = char

-----------------------------------------------------------------------------
\* A faulty variant, put in place of the operator below to see that the
\* property can fail: a link keeps the separator it starts with.
RelativeAsJoined(href) == href

-----------------------------------------------------------------------------
\* fsio_join_paths: one separator between the two.
JoinPaths(path, name) ==
    IF path = NoBase THEN name
    ELSE LET head == IF Ends(path, Slash) THEN SubSeq(path, 1, Len(path) - 1) ELSE path
             rest == IF Rooted(name) THEN SubSeq(name, 2, Len(name)) ELSE name
         IN  head \o <<Slash>> \o rest

\* The base element of the page: the base path and a "<" that is in the text.
BaseElement(base) == IF base = NoBase THEN NoBase ELSE base \o <<"<">>

\* _hs_routes_fs_default_create_href, and the separator dropped from it.
Relative(href) == IF Rooted(href) THEN SubSeq(href, 2, Len(href)) ELSE href
Link(resource, entry) == Relative(JoinPaths(resource, entry))

\* What a browser asks for when it follows a link of a page: relative to the
\* base element, or to the page if it has none.
Followed(page, base, link) ==
    LET from == IF base = NoBase THEN page ELSE base
        lastSlash == CHOOSE i \in 1 .. Len(from) :
                        from[i] = Slash /\ \A j \in i + 1 .. Len(from) : from[j] # Slash
    IN  IF Rooted(link) THEN link ELSE SubSeq(from, 1, lastSlash) \o link

=============================================================================
