------------------------------ MODULE MCTuiLoop ------------------------------
(* Small instances of TuiLoop: a project row and two packages of one name, *)
(* so that their lookups share the caches.                                 *)
EXTENDS TuiLoop

MCKeys    == {"serde1", "serde2"}
MCNames   == {"serde"}
MCNameOf  == [k \in MCKeys |-> "serde"]
MCRows    == {"project", "old", "new"}
MCKeyOf   == [r \in MCRows |-> CASE r = "old" -> "serde1"
                                 [] r = "new" -> "serde2"
                                 [] OTHER     -> None]
TopAndOne == {<<"project">>, <<"project", "old">>}

OneNotice  == <<"unreadable">>
=============================================================================
