------------------------------ MODULE GrpcJson ------------------------------
(***************************************************************************)
(* The other conversions that ts-proto generates for each message: to and  *)
(* from JSON, and from an object that has some of the fields.  Neither the *)
(* server nor the client calls them.  A JavaScript value is held with its  *)
(* kind, since Number, String and Boolean convert a value by its kind.     *)
(***************************************************************************)
EXTENDS GrpcWire, Sequences, TLC

CONSTANT NaN

Value(kind, v) == [kind |-> kind, value |-> v]

JsonNull == Value("null", <<>>)

-----------------------------------------------------------------------------
(* Conversions of JavaScript.  No string here spells a number, and a list  *)
(* comes only where a list is expected.                                    *)

Number(v) ==
    CASE v.kind = "number" -> v.value
      [] v.kind = "boolean" -> IF v.value THEN 1 ELSE 0
      [] v.kind = "string" -> IF v.value \in {"", " "} THEN 0 ELSE NaN
      [] v.kind = "object" -> NaN

String(v) ==
    CASE v.kind = "number" -> ToString(v.value)
      [] v.kind = "boolean" -> IF v.value THEN "true" ELSE "false"
      [] v.kind = "string" -> v.value
      [] v.kind = "object" -> "[object Object]"

Boolean(v) ==
    CASE v.kind = "number" -> v.value \notin {0, NaN}
      [] v.kind = "boolean" -> v.value
      [] v.kind = "string" -> v.value # ""
      [] v.kind \in {"object", "list"} -> TRUE

Convert(kind, v) ==
    CASE kind = "number" -> Number(v)
      [] kind = "string" -> String(v)
      [] kind = "boolean" -> Boolean(v)

\* A partial object is typed: its values are taken as they are.
Keep(kind, v) == v.value

-----------------------------------------------------------------------------
(* Reading an object                                                       *)

\* What object.f is: of anything but an object there is none.
Has(object, f) == object.kind = "object" /\ f \in DOMAIN object.value

IsSet(object, f) == Has(object, f) /\ object.value[f].kind # "null"

IsArray(object, f) == Has(object, f) /\ object.value[f].kind = "list"

Read(inner(_, _), convert(_, _), fields, object) ==
    [f \in DOMAIN fields |->
        CASE fields[f].list ->
               IF ~IsArray(object, f) THEN <<>>
               ELSE [i \in DOMAIN object.value[f].value |->
                        inner(fields[f].of, object.value[f].value[i])]
          [] ~fields[f].list /\ ~IsSet(object, f) -> fields[f].default
          [] ~fields[f].list /\ IsSet(object, f) ->
               IF fields[f].kind = "message"
               THEN inner(fields[f].of, object.value[f])
               ELSE convert(fields[f].kind, object.value[f])]

\* As on the wire: a list of tasks that have an assignee is the deepest there is.
Deepest(fields, v) == v

FromFlatJSON(fields, object) == Read(Deepest, Convert, fields, object)
FromInnerJSON(fields, object) == Read(FromFlatJSON, Convert, fields, object)
FromJSON(fields, object) == Read(FromInnerJSON, Convert, fields, object)

\* create is this too, of an empty object when it is given none.
FromFlatPartial(fields, object) == Read(Deepest, Keep, fields, object)
FromInnerPartial(fields, object) == Read(FromFlatPartial, Keep, fields, object)
FromPartial(fields, object) == Read(FromInnerPartial, Keep, fields, object)

-----------------------------------------------------------------------------
(* Writing an object: defaults are left out, numbers are whole, which       *)
(* Math.round does not change                                               *)

Write(inner(_, _), fields, m) ==
    Value("object",
          [f \in {f \in DOMAIN fields : m[f] # fields[f].default} |->
              IF fields[f].list
              THEN Value("list", [i \in DOMAIN m[f] |-> inner(fields[f].of, m[f][i])])
              ELSE IF fields[f].kind = "message" THEN inner(fields[f].of, m[f])
              ELSE Value(fields[f].kind, m[f])])

ToFlatJSON(fields, m) == Write(Deepest, fields, m)
ToInnerJSON(fields, m) == Write(ToFlatJSON, fields, m)
ToJSON(fields, m) == Write(ToInnerJSON, fields, m)

-----------------------------------------------------------------------------
(* What the conversions promise of a message                               *)

WithField(object, f, v) == Value("object", (f :> v) @@ object.value)

\* The same object with null for each field that it leaves out.
Nulled(fields, object) ==
    Value("object",
          [f \in DOMAIN fields |-> IF Has(object, f) THEN object.value[f] ELSE JsonNull])

\* What one copy of the generated code writes, the other reads.
Keeps(writer, reader, m) ==
    LET object == ToJSON(writer, m)
    IN  /\ FromJSON(reader, object) = m
        /\ FromJSON(reader, Nulled(reader, object)) = m
        /\ FromPartial(reader, object) = m
        /\ FromPartial(reader, Nulled(reader, object)) = m

\* Whatever a field is given in the place of its value, once it is read it lasts.
Settles(writer, reader, m, values) ==
    \A f \in DOMAIN writer, k \in DOMAIN values :
        LET read == FromJSON(reader, WithField(ToJSON(writer, m), f, values[k]))
        IN  FromJSON(reader, ToJSON(writer, read)) = read

=============================================================================
