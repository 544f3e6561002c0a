------------------------------- MODULE MCVfs -------------------------------
(* All paths of up to two components, and one of three; open is also given *)
(* them with a trailing slash, and one component too long for a lookup,    *)
(* which is split in two.                                                  *)
EXTENDS Vfs

MCComponent == {"dev", "a"}
MCName == MCComponent \cup {"/", "v/", "a/", "aa"}
MCPath ==
    {<<>>, <<"a", "a", "a">>} \cup {<<n>> : n \in MCComponent} \cup (MCComponent \X MCComponent)

Last(path) == path[Len(path)]
Slashed == [n \in MCComponent |-> IF n = "dev" THEN "v/" ELSE "a/"]
MCGiven ==
    {<<<<>>, "/">>, <<<<"a", "a">>, "aa">>}
        \cup {<<p, Last(p)>> : p \in MCPath \ {<<>>}}
        \cup {<<p, Slashed[Last(p)]>> : p \in MCPath \ {<<>>}}
=============================================================================
