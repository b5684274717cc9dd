----------------------------- MODULE Transform ------------------------------
(***************************************************************************)
(* How a profile shows a user to its clients and reads what they send:     *)
(* forwardTransform and reverseTransform (profile.go), and the update      *)
(* route around them (actUpdateUser, handlers_profile.go).                 *)
(*                                                                         *)
(* Both transforms range over field_map, a Go map, whose order is another  *)
(* one on every request: each turn of the loop is a step, for any entry    *)
(* that is left.                                                           *)
(*                                                                         *)
(* A JSON value is a scalar or an object, a function from its keys; a      *)
(* dotted path is the sequence of its keys.  Left out: field_formats (a    *)
(* formatted field is not meant to be read back), the text of labels and   *)
(* types, and all fields of a user that behave as the username does.       *)
(***************************************************************************)
EXTENDS Integers, Sequences, FiniteSets

CONSTANTS Text,                    \* strings that are not empty
          EmptyText, Yes, No, Null,
          Dollar,                  \* the string "$" of a template
          Missing,                 \* no value
          NoKey,                   \* the empty item_key
          AttrKeys,                \* attribute keys
          Profiles,                \* the mappings of the routes
          Templates                \* their value_objects, and all parts of those

Scalars == Text \cup {EmptyText, Yes, No, Null, Dollar, Missing}
Strings == Text \cup {EmptyText}
Booleans == {Yes, No}

IsObject(v) == v \notin Scalars

NoFields == [k \in {} |-> Null]

ASSUME ScalarData == /\ Text \cap {EmptyText, Yes, No, Null, Dollar, Missing} = {}
                     /\ EmptyText \notin {Yes, No, Null, Dollar, Missing}
                     /\ Yes \notin {No, Null, Dollar, Missing}
                     /\ No \notin {Null, Dollar, Missing}
                     /\ Null \notin {Dollar, Missing}
                     /\ Dollar # Missing

VARIABLES profile,   \* the mapping in use, for both directions
          pc,
          row,       \* the user in the store
          todo,      \* the entries of field_map the loop has not reached
          fields,    \* forwardTransform's fields so far
          item,      \* the last answer to the client
          src,       \* the request body, unwrapped
          internal,  \* reverseTransform's map so far
          asked,     \* history: what the request asks for, by external key
          bare,      \* history: it has templates without their labels
          shown,     \* history: the values behind item, by external key
          before     \* history: the row when the request came

vars == <<profile, pc, row, todo, fields, item, src, internal, asked, bare, shown, before>>

forwardVars == <<fields, item, shown>>
reverseVars == <<src, internal, asked, bare, before>>

UserRows == UNION {[username : Text, enabled : Booleans, attributes : [ks -> Text \cup {Null}]]
                      : ks \in SUBSET AttrKeys}

FieldMap == profile.fieldMap
Labeled == profile.style = "labeled"
Externals == {FieldMap[k] : k \in DOMAIN FieldMap}

TypeOK == /\ profile \in Profiles
          /\ pc \in {"idle", "forward", "replied", "reverse", "update", "enable", "updated", "refused"}
          /\ row \in UserRows /\ before \in UserRows
          /\ todo \subseteq DOMAIN FieldMap
          /\ DOMAIN fields \subseteq Externals
          /\ DOMAIN internal \subseteq {Head(k) : k \in DOMAIN FieldMap}

(***************************************************************************)
(* Objects.                                                                *)
(***************************************************************************)
\* m[key] = v, and maps.Copy(dst, m).
Assign(m, key, v) == [k \in DOMAIN m \cup {key} |-> IF k = key THEN v ELSE m[k]]

Copy(dst, m) == [k \in DOMAIN dst \cup DOMAIN m |-> IF k \in DOMAIN m THEN m[k] ELSE dst[k]]

\* at[n] is what the first n keys of the path lead to; m itself is an object.
getNestedValue(m, path) ==
    LET at[n \in 0..Len(path)] ==
            IF n = 0 THEN m
            ELSE LET up == at[n - 1]
                 IN  IF (n = 1 \/ IsObject(up)) /\ path[n] \in DOMAIN up THEN up[path[n]] ELSE Missing
    IN  at[Len(path)]

\* Mutant: a nested object is made anew for every entry.
setNestedValue_Anew(m, path, v) ==
    LET made[n \in 1..Len(path)] ==
            Assign(IF n = 1 THEN m ELSE NoFields, path[n], IF n = Len(path) THEN v ELSE made[n + 1])
    IN  made[1]

\* Objects on the way are made as needed: made[n] is the one that holds key n.
setNestedValue(m, path, v) ==
    LET there(n) == getNestedValue(m, SubSeq(path, 1, n))
        sub(n) == IF n = 0 THEN m ELSE IF IsObject(there(n)) THEN there(n) ELSE NoFields
        made[n \in 1..Len(path)] ==
            Assign(sub(n - 1), path[n], IF n = Len(path) THEN v ELSE made[n + 1])
    IN  made[1]

applyValueTemplate(tmpl, v) ==
    LET filled[t \in Templates] ==
            IF t = Dollar THEN v
            ELSE IF IsObject(t) THEN [k \in DOMAIN t |-> filled[t[k]]]
            ELSE t
    IN  filled[tmpl]

\* Every part of a template is one, and they are nested finitely deep.
ASSUME TemplatesEnd ==
    /\ IsFiniteSet(Templates)
    /\ \E depth \in [Templates -> 0..Cardinality(Templates)] :
          \A t \in Templates : IsObject(t) =>
             \A k \in DOMAIN t : t[k] \in Templates /\ depth[t[k]] < depth[t]

\* The user as JSON: an empty attributes map is left out.
structToMap(u) == IF u.attributes = NoFields
                  THEN [username |-> u.username, enabled |-> u.enabled]
                  ELSE u

(***************************************************************************)
(* forwardTransform.                                                       *)
(***************************************************************************)
Wrapped(ext, v) == IF ext \in DOMAIN profile.valueObjects
                   THEN applyValueTemplate(profile.valueObjects[ext], v)
                   ELSE v

Label(v) == [label |-> Null, value |-> v, type |-> Null]

Values == Scalars \cup {applyValueTemplate(t, v) : t \in Templates, v \in Scalars}

FieldValues == Values \cup {Label(v) : v \in Values}

\* No object of JSON is a scalar.
ASSUME ObjectsAreNoScalars ==
    /\ \A t \in Templates, v \in Scalars : IsObject(t) => IsObject(applyValueTemplate(t, v))
    /\ \A v \in Values : IsObject(Label(v))
    /\ \A ks \in SUBSET AttrKeys, v \in Scalars : v \notin [ks -> Scalars]
    /\ \A p \in Profiles : \A exts \in SUBSET {p.fieldMap[k] : k \in DOMAIN p.fieldMap}, v \in Scalars :
          v \notin [exts -> FieldValues]

Forward == /\ pc' = "forward"
           /\ todo' = DOMAIN FieldMap
           /\ fields' = NoFields /\ shown' = NoFields /\ item' = Missing

ForwardField ==
    /\ pc = "forward"
    /\ \E k \in todo :
          LET v == getNestedValue(structToMap(row), k)
              ext == FieldMap[k]
          IN  /\ todo' = todo \ {k}
              /\ IF v = Missing
                 THEN UNCHANGED <<fields, shown>>
                 ELSE /\ fields' = Assign(fields, ext, IF Labeled THEN Label(Wrapped(ext, v)) ELSE v)
                      /\ shown' = Assign(shown, ext, v)
    /\ UNCHANGED <<profile, pc, row, item, reverseVars>>

Mapped == IF profile.itemKey = NoKey THEN fields ELSE Assign(NoFields, profile.itemKey, fields)

\* Mutant: item_extra is copied over the fields.
Shaped_ExtraLast == Copy(Mapped, profile.itemExtra)

Shaped == Copy(profile.itemExtra, Mapped)

Reply == /\ pc = "forward" /\ todo = {}
         /\ pc' = "replied"
         /\ item' = Shaped
         /\ fields' = NoFields
         /\ UNCHANGED <<profile, row, todo, shown, reverseVars>>

(***************************************************************************)
(* Requests.                                                               *)
(***************************************************************************)
UserPaths == {<<"username">>, <<"enabled">>} \cup {<<"attributes", k>> : k \in AttrKeys}

TemplateKeys == UNION {DOMAIN t : t \in {o \in Templates : IsObject(o)}}

\* What a client may send for the field at path: also null, and one value of
\* another type.
Candidates(path) == CASE path = <<"username">> -> Strings \cup {Null, Yes}
                      [] path = <<"enabled">>  -> Booleans \cup {Null, EmptyText}
                      [] OTHER                 -> Text \cup {Null}

\* What a profile must have for its items to be read back.
ASSUME ProfileData == \A p \in Profiles :
    LET exts == {p.fieldMap[k] : k \in DOMAIN p.fieldMap}
    IN  /\ DOMAIN p.fieldMap \subseteq UserPaths
        \* Fields at one key have one type.
        /\ \A j, k \in DOMAIN p.fieldMap : p.fieldMap[j] = p.fieldMap[k] => Candidates(j) = Candidates(k)
        \* No field has the key of the item.
        /\ p.itemKey \notin exts
        \* A default that stands for a field has its type.
        /\ p.itemKey = NoKey =>
              /\ NoKey \notin DOMAIN p.itemExtra
              /\ \A k \in DOMAIN p.fieldMap :
                    p.fieldMap[k] \in DOMAIN p.itemExtra => p.itemExtra[p.fieldMap[k]] \in Candidates(k)
        \* The value path of a template leads to its "$", and its label is the outermost value.
        /\ DOMAIN p.valuePaths = DOMAIN p.valueObjects
        /\ \A ext \in DOMAIN p.valueObjects :
              /\ p.valueObjects[ext] \in Templates /\ IsObject(p.valueObjects[ext])
              /\ "value" \notin DOMAIN p.valueObjects[ext]
              /\ p.valuePaths[ext] \in Seq(TemplateKeys) \ {<<>>}
              /\ getNestedValue(p.valueObjects[ext], p.valuePaths[ext]) = Dollar

\* A body for it: the value itself, labeled, labeled in its template, or in
\* its template without a label.
Forms == IF Labeled THEN {"plain", "labeled", "templated", "bare"} ELSE {"plain"}

Wire(form, ext, v) == CASE form = "plain"     -> v
                        [] form = "labeled"   -> Label(v)
                        [] form = "templated" -> Label(Wrapped(ext, v))
                        [] form = "bare"      -> Wrapped(ext, v)

Requests == UNION {{a \in [exts -> Scalars \ {Dollar, Missing}] :
                       \A k \in DOMAIN FieldMap :
                          FieldMap[k] \in exts => a[FieldMap[k]] \in Candidates(k)}
                      : exts \in SUBSET Externals}

Idle == pc = "idle"

\* Only the first level of the body is looked at.
Unwrapped(body) ==
    IF profile.itemKey \in DOMAIN body /\ IsObject(body[profile.itemKey])
    THEN body[profile.itemKey]
    ELSE body

Receive(body, a, isBare) == /\ pc' = "reverse"
                            /\ src' = Unwrapped(body)
                            /\ todo' = DOMAIN FieldMap
                            /\ internal' = NoFields
                            /\ asked' = a /\ bare' = isBare /\ before' = row
                            /\ UNCHANGED <<profile, row>>

Get == /\ Idle /\ Forward
       /\ UNCHANGED <<profile, row, reverseVars>>

\* A client sends fields of its own.
Send == /\ Idle /\ item = Missing
        /\ \E a \in Requests, form \in Forms, wrap \in BOOLEAN :
              LET flat == [ext \in DOMAIN a |-> Wire(form, ext, a[ext])]
              IN  /\ wrap => profile.itemKey # NoKey
                  /\ Receive(IF wrap THEN Assign(NoFields, profile.itemKey, flat) ELSE flat, a,
                             form = "bare" /\ DOMAIN a \cap DOMAIN profile.valueObjects # {})
        /\ UNCHANGED forwardVars

\* The defaults of item_extra that a client cannot tell from mapped fields.
Defaults == IF profile.itemKey = NoKey
            THEN [ext \in DOMAIN profile.itemExtra \cap Externals |-> profile.itemExtra[ext]]
            ELSE NoFields

\* A client sends back the item it was shown.
SendBack == /\ Idle /\ item # Missing
            /\ Receive(item, Copy(Defaults, shown), FALSE)
            /\ UNCHANGED forwardVars

\* Meanwhile another front end changed the user.
Touch == /\ Idle
         /\ row' \in UserRows
         /\ UNCHANGED <<profile, pc, todo, forwardVars, reverseVars>>

(***************************************************************************)
(* reverseTransform and the update.                                        *)
(***************************************************************************)
\* An object without a value counts as labeled, with null as its value.
Read(ext, raw) ==
    IF ~Labeled THEN raw
    ELSE LET val == IF ~IsObject(raw) THEN raw
                    ELSE IF "value" \in DOMAIN raw THEN raw["value"] ELSE Null
             deeper == IF IsObject(val) /\ ext \in DOMAIN profile.valuePaths
                       THEN getNestedValue(val, profile.valuePaths[ext])
                       ELSE Missing
         IN  IF deeper = Missing THEN val ELSE deeper

ReverseField ==
    /\ pc = "reverse"
    /\ \E k \in todo :
          LET ext == FieldMap[k]
          IN  /\ todo' = todo \ {k}
              /\ internal' = IF ext \in DOMAIN src
                             THEN setNestedValue(internal, k, Read(ext, src[ext]))
                             ELSE internal
    /\ UNCHANGED <<profile, pc, row, forwardVars, src, asked, bare, before>>

\* Mutant: null is taken for a value.
Decoded_NullKept(key, zero) == LET v == getNestedValue(internal, <<key>>)
                               IN  IF v = Missing THEN zero ELSE v

\* A field of the patch; null and no value leave the zero value.
Decoded(key, zero) == LET v == getNestedValue(internal, <<key>>)
                      IN  IF v \in {Missing, Null} THEN zero ELSE v

Patch == [username   |-> Decoded("username", EmptyText),
          enabled    |-> Decoded("enabled", No),
          attributes |-> Decoded("attributes", NoFields)]

mapToStruct == /\ pc = "reverse" /\ todo = {}
               /\ pc' = IF /\ Patch.username \in Strings
                           /\ Patch.enabled \in Booleans
                           /\ IsObject(Patch.attributes)
                        THEN "update" ELSE "refused"
               /\ UNCHANGED <<profile, row, todo, forwardVars, reverseVars>>

\* Mutant: enabled is set only when the patch has it true.
Present_ByValue == Patch.enabled = Yes

\* The body has the field that the route maps to enabled.
Present == /\ <<"enabled">> \in DOMAIN FieldMap
           /\ FieldMap[<<"enabled">>] \in DOMAIN src

\* Mutant: the username of the patch is taken without a look at it.
Update_EmptyName == /\ pc = "update"
                    /\ row' = [row EXCEPT !.username = Patch.username,
                                          !.attributes = Copy(@, Patch.attributes)]
                    /\ pc' = IF Present THEN "enable" ELSE "updated"
                    /\ UNCHANGED <<profile, todo, forwardVars, reverseVars>>

\* The store keeps the username when the patch has none and merges attributes.
Update == /\ pc = "update"
          /\ row' = [row EXCEPT !.username = IF Patch.username = EmptyText THEN @ ELSE Patch.username,
                                !.attributes = Copy(@, Patch.attributes)]
          /\ pc' = IF Present THEN "enable" ELSE "updated"
          /\ UNCHANGED <<profile, todo, forwardVars, reverseVars>>

SetEnabled == /\ pc = "enable"
              /\ row' = [row EXCEPT !.enabled = Patch.enabled]
              /\ pc' = "updated"
              /\ UNCHANGED <<profile, todo, forwardVars, reverseVars>>

Forget == /\ src' = NoFields /\ internal' = NoFields /\ asked' = NoFields
          /\ bare' = FALSE /\ before' = row

Answer == /\ pc = "updated" /\ Forward /\ Forget
          /\ UNCHANGED <<profile, row>>

\* The client has its answer; it keeps the item, or has none after an error.
Done == /\ pc \in {"replied", "refused"}
        /\ pc' = "idle"
        /\ item' = (IF pc = "refused" THEN Missing ELSE item) /\ Forget
        /\ UNCHANGED <<profile, row, todo, fields, shown>>

Init == /\ profile \in Profiles
        /\ pc = "idle"
        /\ row \in UserRows /\ before = row
        /\ todo = {}
        /\ fields = NoFields /\ item = Missing /\ shown = NoFields
        /\ src = NoFields /\ internal = NoFields /\ asked = NoFields /\ bare = FALSE

Next == \/ Get \/ Send \/ SendBack \/ Touch
        \/ ReverseField \/ mapToStruct \/ Update \/ SetEnabled \/ Answer
        \/ ForwardField \/ Reply \/ Done

Spec == Init /\ [][Next]_vars

-----------------------------------------------------------------------------
(***************************************************************************)
(* Properties.                                                             *)
(***************************************************************************)
AskedFor(k) == IF k \in DOMAIN FieldMap /\ FieldMap[k] \in DOMAIN asked
               THEN asked[FieldMap[k]] ELSE Missing

Attribute(k) == AskedFor(<<"attributes", k>>)

\* The row a request asks for, read off its meaning and not off its body.
Wanted == [username |-> LET v == AskedFor(<<"username">>)
                        IN  IF v \in Text THEN v ELSE before.username,
           enabled |-> LET v == AskedFor(<<"enabled">>)
                       IN  IF v = Missing THEN before.enabled ELSE IF v = Yes THEN Yes ELSE No,
           attributes |-> [k \in DOMAIN before.attributes \cup {j \in AttrKeys : Attribute(j) # Missing}
                              |-> IF Attribute(k) = Missing THEN before.attributes[k] ELSE Attribute(k)]]

\* An update makes exactly the changes that its body asks for, false and null
\* included, whichever of the accepted shapes each value has, in whichever
\* order the loop meets the fields, and also when the body is an item that
\* was shown before the user changed.  A template without its label is
\* excepted: it is read as null.
AsAsked == pc = "updated" /\ ~bare => row = Wanted

IllTyped == \/ AskedFor(<<"username">>) \in Booleans
            \/ AskedFor(<<"enabled">>) \in Strings

\* A body is refused only for a field of the wrong type, and never after
\* a part of the update was made; a client may always send back what it saw.
RefusedForTypes == /\ pc = "refused" => (IllTyped \/ bare) /\ row = before
                   /\ pc = "updated" /\ ~bare => ~IllTyped

\* What the client finds at an external key, or Missing.
Found(ext) ==
    LET fs == IF profile.itemKey = NoKey THEN item ELSE item[profile.itemKey]
    IN  IF ext \notin DOMAIN fs THEN Missing
        ELSE IF ~Labeled \/ ~IsObject(fs[ext]) THEN fs[ext]
        ELSE IF ext \in DOMAIN profile.valuePaths
             THEN getNestedValue(fs[ext].value, profile.valuePaths[ext])
             ELSE fs[ext].value

Behind(ext) == {getNestedValue(structToMap(row), k) : k \in {k \in DOMAIN FieldMap : FieldMap[k] = ext}}

\* An answer shows every field of the user that the route maps, where the
\* route puts it: item_extra is the default for what the user has not, and
\* of several fields at one key one that the user has is shown.
AnswerShowsRow == pc = "replied" => \A ext \in Externals :
    LET values == Behind(ext) \ {Missing}
    IN  IF values # {} THEN Found(ext) \in values
        ELSE Found(ext) = IF profile.itemKey = NoKey /\ ext \in DOMAIN profile.itemExtra
                          THEN profile.itemExtra[ext] ELSE Missing
=============================================================================
