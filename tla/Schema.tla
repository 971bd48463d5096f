------------------------------- MODULE Schema -------------------------------
(***************************************************************************)
(* internal/jsonschema: the check of decoded JSON values against the small *)
(* subset of JSON Schema that the tools use.                               *)
(*                                                                         *)
(* A value is a record with a kind.  What Go's type switch looks at is     *)
(* kept: a number is a float64, an int or a json.Number, a list of a       *)
(* schema is []any or a slice of a narrower type.  A text is a record with *)
(* its length in bytes and whatever else its user needs.                   *)
(***************************************************************************)
EXTENDS Integers, Sequences

Null == [kind |-> "null"]
Boolean(truth) == [kind |-> "boolean", truth |-> truth]
String(text) == [kind |-> "string", text |-> text]
Array(items) == [kind |-> "array", items |-> items]
Object(fields) == [kind |-> "object", fields |-> fields]

(* A number is its double, so that there are fractions; a json.Number may  *)
(* be too large for a float64.                                             *)
Number(go, double, fits) == [kind |-> "number", go |-> go, double |-> double, fits |-> fits]
GoInt(n) == Number("int", 2 * n, TRUE)
JsonNumber(n) == Number("json", 2 * n, TRUE)
HalfAfter(n) == Number("json", 2 * n + 1, TRUE)
Overflowing == Number("json", 0, FALSE)

(* The lists of a schema: []any, or a slice that the assertion refuses. *)
AnyList(items) == [go |-> "[]any", items |-> items]
StringList(items) == [go |-> "[]string", items |-> items]
Members(list) == {list.items[i] : i \in 1..Len(list.items)}

Has(schema, key) == key \in DOMAIN schema
-----------------------------------------------------------------------------
\* Faulty variant: the ints of a schema that was never encoded are ignored.
NumberOfDecoded(value) ==
    value.kind = "number" /\ value.go # "int" /\ (value.go = "json" => value.fits)

IsNumber(value) == value.kind = "number" /\ (value.go = "json" => value.fits)
IsInteger(value) == IsNumber(value) /\ value.double % 2 = 0

(* A limit that is absent, or no number, limits nothing. *)
AtMost(schema, key, double) ==
    Has(schema, key) /\ IsNumber(schema[key]) => double <= schema[key].double
AtLeast(schema, key, double) ==
    Has(schema, key) /\ IsNumber(schema[key]) => double >= schema[key].double
InRange(schema, value) ==
    AtLeast(schema, "minimum", value.double) /\ AtMost(schema, "maximum", value.double)

Equal(left, right) ==
    IF IsNumber(left) /\ IsNumber(right) THEN left.double = right.double ELSE left = right
Listed(schema, value) ==
    Has(schema, "enum") /\ schema.enum.go = "[]any" =>
        \E candidate \in Members(schema.enum) : Equal(candidate, value)

Declared(schema) == IF Has(schema, "properties") THEN DOMAIN schema.properties ELSE {}

(* The length of a Go string is that of its bytes. *)
LengthAllowed(schema, text) ==
    AtMost(schema, "maxLength", 2 * text.bytes) /\ AtLeast(schema, "minLength", 2 * text.bytes)

(* What validate asks of a value before it calls itself on its parts. *)
AcceptsObject(schema, fields) ==
    /\ Has(schema, "required") /\ schema.required.go = "[]any" =>
           Members(schema.required) \subseteq DOMAIN fields
    /\ Has(schema, "additionalProperties") /\ ~schema.additionalProperties =>
           DOMAIN fields \subseteq Declared(schema)
AcceptsArray(schema, items) ==
    AtMost(schema, "maxItems", 2 * Len(items)) /\ AtLeast(schema, "minItems", 2 * Len(items))
AcceptsType(schema, value) ==
    CASE ~Has(schema, "type") -> TRUE
      [] schema.type = "object" -> value.kind = "object" /\ AcceptsObject(schema, value.fields)
      [] schema.type = "array" -> value.kind = "array" /\ AcceptsArray(schema, value.items)
      [] schema.type = "string" -> value.kind = "string" /\ LengthAllowed(schema, value.text)
      [] schema.type = "integer" -> IsInteger(value) /\ InRange(schema, value)
      [] schema.type = "number" -> IsNumber(value) /\ InRange(schema, value)
      [] schema.type = "boolean" -> value.kind = "boolean"
      [] OTHER -> FALSE
AcceptsItself(schema, value) == Listed(schema, value) /\ AcceptsType(schema, value)

(* The values it then calls itself on, each with its schema. *)
Part(schema, value) == [schema |-> schema, value |-> value]
Parts(schema, value) ==
    CASE Has(schema, "type") /\ schema.type = "object" ->
             {Part(schema.properties[key], value.fields[key]) :
                 key \in DOMAIN value.fields \cap Declared(schema)}
      [] Has(schema, "type") /\ schema.type = "array" /\ Has(schema, "items") ->
             {Part(schema.items, value.items[i]) : i \in 1..Len(value.items)}
      [] OTHER -> {}

(* Validate returns no error.  No schema of a tool describes more than an  *)
(* object whose fields are scalars or lists of scalars (tools.go:189): the *)
(* items of its lists have no parts.                                       *)
AcceptsItem(schema, value) == AcceptsItself(schema, value) /\ Parts(schema, value) = {}
AcceptsField(schema, value) ==
    /\ AcceptsItself(schema, value)
    /\ \A part \in Parts(schema, value) : AcceptsItem(part.schema, part.value)
Accepts(schema, value) ==
    /\ AcceptsItself(schema, value)
    /\ \A part \in Parts(schema, value) : AcceptsField(part.schema, part.value)

(* ValidateRaw decodes an object; nothing at all, and null, are an empty one. *)
NoFields == [key \in {} |-> Null]
Decoded(raw) == IF raw.kind \in {"absent", "null"} THEN Object(NoFields) ELSE raw
AcceptsRaw(schema, raw) == Decoded(raw).kind = "object" /\ Accepts(schema, Decoded(raw))
-----------------------------------------------------------------------------
(* A schema that is encoded as JSON and decoded again: every number is a   *)
(* float64 and every list is []any.                                        *)
Rewritten(value) == IF value.kind = "number" THEN [value EXCEPT !.go = "float64"] ELSE value
RewrittenList(list) == [go |-> "[]any", items |-> list.items]

RewrittenEntry(schema, key) ==
    CASE key = "required" -> RewrittenList(schema[key])
      [] key = "enum" ->
             AnyList([i \in 1..Len(schema.enum.items) |-> Rewritten(schema.enum.items[i])])
      [] key \in {"minimum", "maximum", "minLength", "maxLength", "minItems", "maxItems"} ->
             Rewritten(schema[key])
      [] OTHER -> schema[key]

(* As deep as Accepts looks. *)
RewrittenItem(schema) == [key \in DOMAIN schema |-> RewrittenEntry(schema, key)]
RewrittenField(schema) ==
    [key \in DOMAIN schema |->
        IF key = "items" THEN RewrittenItem(schema.items) ELSE RewrittenEntry(schema, key)]
OverTheWire(schema) ==
    [key \in DOMAIN schema |->
        IF key = "properties"
        THEN [name \in DOMAIN schema.properties |-> RewrittenField(schema.properties[name])]
        ELSE RewrittenEntry(schema, key)]
=============================================================================
