---------------------------- MODULE MCRttiValues ----------------------------
(* Model checking of managed values: an object that holds an array, the    *)
(* array a counted object of the other kind and that one an array again,   *)
(* so that releases nest and references can go in a circle; another        *)
(* object; and variables of every type.                                    *)
EXTENDS RttiValues, TLC
CONSTANTS o1, o2, o3, arr
MCFields == (o1 :> {"array1"}) @@ (arr :> {"element"}) @@ (o2 :> {"array2"}) @@ (o3 :> {})
MCFamily == (o1 :> "interface") @@ (o3 :> "interface") @@ (o2 :> "refobject") @@ (arr :> "dynarray")
MCType ==
    ("root" :> "interface") @@ ("weak" :> "weakinterface") @@ ("value1" :> "value")
    @@ ("value2" :> "value") @@ ("weakobject" :> "weakrefobject") @@ ("array1" :> "dynarray")
    @@ ("array2" :> "dynarray") @@ ("element" :> "refobject")
=============================================================================
