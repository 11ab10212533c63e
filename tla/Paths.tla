-------------------------------- MODULE Paths --------------------------------
(***************************************************************************)
(* How a route's path is compared with the resource of a request           *)
(* (hs_route.c) and how a mounted router strips it (hs_router.c).  A path  *)
(* is a sequence of characters, so that the separator's place decides as   *)
(* it does in the code.                                                    *)
(***************************************************************************)
EXTENDS Sequences, Naturals

CONSTANTS Chars,  \* characters of paths and resources
          Slash   \* '/'

ASSUME SlashAssumption == Slash \in Chars

Rooted(path) == Len(path) > 0 /\ path[1] = Slash

StartsWith(s, prefix) == Len(prefix) <= Len(s) /\ SubSeq(s, 1, Len(prefix)) = prefix

-----------------------------------------------------------------------------
\* Faulty variants, put in place of the operators below to see that a
\* property of the paths can fail.

\* A parent path matches without looking for the separator.
SupportedWithoutSeparator(path, parent, resource) ==
    Rooted(path) /\ IF parent THEN StartsWith(resource, path) ELSE resource = path

\* The last character of the route's path is left in place.
RemovePrefixTooLittle(path, resource) ==
    IF Len(path) <= 1 THEN resource
    ELSE IF Len(path) = Len(resource) THEN <<Slash>>
    ELSE SubSeq(resource, Len(path), Len(resource))

-----------------------------------------------------------------------------
\* hs_route_is_supported_path, for a route that has a path.
Supported(path, parent, resource) ==
    /\ Rooted(path)
    /\ \/ resource = path
       \/ /\ parent
          /\ Len(resource) > Len(path)
          /\ resource[Len(path)] = Slash \/ resource[Len(path) + 1] = Slash
          /\ StartsWith(resource, path)

\* hs_router_remove_path_prefix, for a route that has a path: the resource
\* that the mounted router sees.
RemovePrefix(path, resource) ==
    IF Len(path) <= 1 THEN resource
    ELSE IF Len(path) = Len(resource) THEN <<Slash>>
    ELSE LET separatorKept == IF path[Len(path)] = Slash THEN 0 ELSE 1
         IN  SubSeq(resource, Len(path) + separatorKept, Len(resource))

=============================================================================
