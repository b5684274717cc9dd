---------------------------- MODULE MCTransform -----------------------------
(* Small instances of Transform for TLC. *)
EXTENDS Transform, TLC

CONSTANTS a

\* A flat profile whose item_extra has a default for a mapped field.
Flat == [fieldMap     |-> <<"username">> :> "u" @@ <<"enabled">> :> "e"
                             @@ <<"attributes", "k1">> :> "x" @@ <<"attributes", "k2">> :> "y",
         itemKey      |-> NoKey,
         itemExtra    |-> "x" :> Null @@ "z" :> a,
         style        |-> "",
         valueObjects |-> NoFields,
         valuePaths   |-> NoFields]

\* Labeled fields under an item key, one of them in a template.
Nested == [fieldMap     |-> <<"username">> :> "u" @@ <<"enabled">> :> "e"
                              @@ <<"attributes", "k1">> :> "x" @@ <<"attributes", "k2">> :> "y",
           itemKey      |-> "attributes",
           itemExtra    |-> "type" :> a,
           style        |-> "labeled",
           valueObjects |-> "y" :> ("type" :> a @@ "attributes" :> ("name" :> Dollar)),
           valuePaths   |-> "y" :> <<"attributes", "name">>]

MCTemplates == {a, Dollar, "name" :> Dollar, Nested.valueObjects["y"]}

\* Two fields at one external key.
Twice == [Flat EXCEPT !.fieldMap = <<"username">> :> "u" @@ <<"attributes", "k1">> :> "x"
                                      @@ <<"attributes", "k2">> :> "x"]

MCProfiles == {Flat, Nested, Twice}
=============================================================================
