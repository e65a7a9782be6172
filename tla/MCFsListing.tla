---------------------------- MODULE MCFsListing -----------------------------
(***************************************************************************)
(* Small buckets for FsListing.  Bytes: 1 sorts before the slash, 2 is the *)
(* slash, 3 and 4 are letters.                                             *)
(***************************************************************************)
EXTENDS FsListing

CONSTANTS w1, w2

Dot == <<3, 1>>                 \* "d.", which sorts before "d/"
X == <<3, 2, 3>>                \* "d/d"
Y == <<3, 2, 4>>                \* "d/e"
D == <<3, 2>>                   \* the directory "d/"
E == <<4>>                      \* "e"

Op(o, k, many) == [op |-> o, key |-> k, many |-> many]
Lists(p, d, m, a) == [prefix |-> p, delimiter |-> d, max_keys |-> m, start_after |-> a]

Scenarios(starts, ops1, ops2, requests) ==
    {[files |-> f, op |-> w1 :> a @@ w2 :> b, req |-> r] :
        f \in starts, a \in ops1, b \in ops2, r \in requests}

\* Two writers and a listing of several pages.
Races ==
    Scenarios({{Dot, X, E}, {X}},
        {Op("put", X, FALSE), Op("put", D, FALSE), Op("delete", X, FALSE), Op("create_bucket", <<>>, FALSE)},
        {Op("put", Y, FALSE), Op("delete", X, TRUE), Op("delete", D, TRUE), Op("delete_bucket", <<>>, FALSE)},
        {Lists(<<>>, None, 1, None), Lists(<<>>, <<Slash>>, 1, None), Lists(<<>>, <<Slash>>, 2, Dot)})

\* Every kind of listing, of a bucket of four keys that one writer changes, or where the file
\* "d" and the directory "d/" want one name.
Listings ==
    Scenarios({{Dot, X, Y, E}, {Front(D), E}},
        {Op("put", k, FALSE) : k \in {X, D, Front(D)}} \cup {Op("delete", X, FALSE), Op("delete", X, TRUE)},
        {Op("create_bucket", <<>>, FALSE)},
        {Lists(p, d, m, a) : p \in {<<>>, D, X}, d \in {None, <<Slash>>}, m \in {0, 1, 2}, a \in {None, X}})

\* A put that finds a file in its way, and a bucket that is deleted before it is listed.
Forgotten ==
    Scenarios({{Front(D), E}}, {Op("put", X, FALSE)}, {Op("delete_bucket", <<>>, FALSE)},
        {Lists(<<>>, None, 1, None)})

MCScenario == Races \cup Listings \cup Forgotten
=============================================================================
