--------------------------- MODULE WorkflowValues ---------------------------
(***************************************************************************)
(* The data of internal/gitai/workflow: JSON values, templates and their   *)
(* interpolation, schemas, and the collect step's selections.              *)
(*                                                                         *)
(* A value is a pair of its JSON type and its content; a text is a         *)
(* sequence of parts, each a literal, a template token {{a.b}} as the path *)
(* <<"a", "b">>, or a closing brace "}}" that belongs to no token.  A      *)
(* template is a text.                                                     *)
(***************************************************************************)
EXTENDS Integers, SequencesExt, FiniteSetsExt

CONSTANTS StepKeys,       \* <<"step_0", "step_1", ...>>
          MaxExpansions   \* replacements after which a text is taken to grow forever

Nil == <<"null", 0>>
Text(parts) == <<"string", parts>>
Num(n) == <<"number", n>>
Arr(s) == <<"array", s>>
Obj(f) == <<"object", f>>
Missing == <<"missing", 0>>

Type(v) == v[1]
Is(v, type) == Type(v) = type

(* A map with the value of one key set.                                    *)
With(map, key, value) == [k \in DOMAIN map \cup {key} |-> IF k = key THEN value ELSE map[k]]

Lit(s) == <<"lit", <<s>>>>
Token(path) == <<"token", path>>
Brace == <<"brace", <<"}}">>>>
Unresolved == <<"unresolved", <<>>>>
Parts == {"lit", "token", "brace", "unresolved"} \X Seq(STRING)

(* A text of white space only is an empty one.                             *)
outputPresent(v) == v \notin {Nil, Text(<<>>)}

asInterfaceSlice(v) == IF Is(v, "array") THEN v[2] ELSE <<>>

----------------------------------------------------------------------------
(* Paths.  env has the input, the values and the outputs of a State.       *)

resolvePath(root, path) ==
    FoldLeft(LAMBDA v, p : IF Is(v, "object") /\ p \in DOMAIN v[2] THEN v[2][p] ELSE Missing, root, path)

FirstFound(candidates) ==
    LET found == {k \in DOMAIN candidates : candidates[k] # Missing}
    IN  IF found = {} THEN Missing ELSE candidates[Min(found)]

(* steps.k is the output of step k, steps.k.p a field of the output, else  *)
(* of the step's contract.                                                 *)
resolveStep(contract, path) ==
    LET output == contract[2].output
    IN  IF path = <<>> THEN output
        ELSE FirstFound(<<IF path[1] = "output" THEN resolvePath(contract, path) ELSE Missing,
                          resolvePath(output, path),
                          resolvePath(contract, path)>>)

resolvePathToken(path, env) ==
    CASE path[1] = "input" -> resolvePath(env.input, Tail(path))
      [] path[1] = "state" -> resolvePath(Obj(env.values), Tail(path))
      [] path[1] = "steps" /\ Len(path) > 1 /\ path[2] \in DOMAIN env.outputs ->
            resolveStep(env.outputs[path[2]], SubSeq(path, 3, Len(path)))
      [] path = <<"steps">> -> Obj(env.outputs)
      [] OTHER -> Missing

----------------------------------------------------------------------------
(* Templates *)

IsToken(part) == part[1] = "token"
HasToken(parts) == \E k \in DOMAIN parts : IsToken(parts[k])

(* A value printed into a text.  A text brings its own parts along, also   *)
(* from inside an array or an object; deeper values are one literal.       *)
Inner(v) == IF Is(v, "string") THEN v[2] ELSE <<Lit("v")>>
Printed(v) ==
    CASE Is(v, "null")   -> <<>>
      [] Is(v, "string") -> v[2]
      [] Is(v, "array")  -> <<Lit("[")>> \o FlattenSeq([k \in DOMAIN v[2] |-> Inner(v[2][k])])
      [] Is(v, "object") -> LET keys == SetToSeq(DOMAIN v[2])
                            IN  <<Lit("map[")>> \o FlattenSeq([k \in DOMAIN keys |-> Inner(v[2][keys[k]])])
      [] OTHER           -> <<Lit("v")>>

(* One round of interpolateString's loop: the first token is replaced, and *)
(* the text is searched again from its start.                              *)
ReplaceFirst(parts, env) ==
    LET k == SelectInSeq(parts, IsToken)
        v == resolvePathToken(parts[k][2], env)
    IN  IF v = Missing THEN <<Unresolved>>
        ELSE SubSeq(parts, 1, k - 1) \o Printed(v) \o SubSeq(parts, k + 1, Len(parts))

interpolateString(parts, env) ==
    LET expand[n \in 0..MaxExpansions, text \in Seq(Parts)] ==
            IF n = 0 \/ ~HasToken(text) THEN text ELSE expand[n - 1, ReplaceFirst(text, env)]
    IN  expand[MaxExpansions, parts]

(* What a template comes to: a value, an error (Missing), or nothing as    *)
(* the loop does not end (Endless).  A template that is one token is the   *)
(* token's value itself; a template without tokens is left as it is.       *)
Endless == <<"endless", 0>>
interpolateValue(template, env) ==
    IF Len(template) = 1 /\ IsToken(template[1]) THEN resolvePathToken(template[1][2], env)
    ELSE IF ~HasToken(template) THEN Text(template)
    ELSE LET parts == interpolateString(template, env)
         IN  CASE HasToken(parts) -> Endless
               [] \E k \in DOMAIN parts : parts[k] \in {Unresolved, Brace} -> Missing
               [] OTHER -> Text(parts)

(* The arguments of a tool: every template of the object.                  *)
interpolateArgs(args, env) ==
    LET values == [a \in DOMAIN args |-> interpolateValue(args[a], env)]
        bad(v) == \E a \in DOMAIN args : values[a] = v
    IN  CASE bad(Missing) -> Missing
          [] bad(Endless) -> Endless
          [] OTHER -> Obj(values)

----------------------------------------------------------------------------
(* Schemas: [type, required, properties], "" for no type.                  *)

matchesJSONSchemaType(expected, v) ==
    Type(v) = IF expected = "integer" THEN "number" ELSE expected

validatePayloadAgainstSchema(schema, v) ==
    /\ schema.type \in {"", "object"}
    /\ schema.required \subseteq DOMAIN v[2]
    /\ \A p \in DOMAIN schema.properties \cap DOMAIN v[2] :
          matchesJSONSchemaType(schema.properties[p], v[2][p])

WantsObject(schema) ==
    schema.type = "object" \/ (schema.type = "" /\ (schema.required # {} \/ DOMAIN schema.properties # {}))

(* schemas is the configuration's set of definitions, ref "" is no ref.    *)
validateOutputAgainstSchemaRef(schemas, ref, v) ==
    \/ ref = ""
    \/ /\ ref \in DOMAIN schemas
       /\ schemas[ref].type # "" => matchesJSONSchemaType(schemas[ref].type, v)
       /\ WantsObject(schemas[ref]) => Is(v, "object") /\ validatePayloadAgainstSchema(schemas[ref], v)

validateStepMaxOutputItems(max, v) == max > 0 /\ Is(v, "array") => Len(v[2]) <= max

summarizeShouldParseStructured(schemas, ref) ==
    /\ ref \in DOMAIN schemas
    /\ IF schemas[ref].type = "" THEN WantsObject(schemas[ref]) ELSE schemas[ref].type # "string"

----------------------------------------------------------------------------
(* Collect *)

Field(entry, f) == IF Is(entry, "object") /\ f \in DOMAIN entry[2] THEN entry[2][f] ELSE Missing

selectCollectValue(entry, mode) ==
    CASE mode = "entry" -> entry
      [] mode = "result" -> IF Field(entry, "result") = Missing THEN entry ELSE entry[2].result
      [] OTHER -> Field(entry, mode)

(* The selections that are present, in order; Missing when one fails.      *)
Collected(source, mode, flatten) ==
    LET selected == [k \in DOMAIN source |-> selectCollectValue(source[k], mode)]
        present == SelectSeq(selected, outputPresent)
        piece(v) == IF flatten /\ Is(v, "array") THEN v[2] ELSE <<v>>
    IN  IF \E k \in DOMAIN selected : selected[k] = Missing THEN Missing
        ELSE Arr(FlattenSeq([k \in DOMAIN present |-> piece(present[k])]))
=============================================================================
