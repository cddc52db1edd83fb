------------------------------ MODULE GrpcWire ------------------------------
(***************************************************************************)
(* How ts-proto puts messages on the wire: a message is a function of its  *)
(* field names; its encoding holds an entry for each field whose value is  *)
(* not the default, by tag; decoding starts from the defaults, takes the   *)
(* entries whose tags it knows and skips the others.  A tag holds the      *)
(* number of the field and its wire type.                                  *)
(***************************************************************************)
EXTENDS Naturals

CONSTANT Undefined

\* Fields of the generated code: a plain one with implicit presence, one that
\* may be undefined, one that holds a message, one that holds a list of them.
Field(tag, kind, default) ==
    [tag |-> tag, kind |-> kind, default |-> default, of |-> <<>>, list |-> FALSE]

Optional(tag, kind) == Field(tag, kind, Undefined)

Submessage(tag, fields) ==
    [tag |-> tag, kind |-> "message", default |-> Undefined, of |-> fields, list |-> FALSE]

Repeated(tag, fields) ==
    [tag |-> tag, kind |-> "message", default |-> <<>>, of |-> fields, list |-> TRUE]

-----------------------------------------------------------------------------
(* One level of a message *)

Named(fields, tag) == CHOOSE f \in DOMAIN fields : fields[f].tag = tag

Put(fields, m) ==
    [t \in {fields[f].tag : f \in {f \in DOMAIN fields : m[f] # fields[f].default}}
        |-> m[Named(fields, t)]]

Get(fields, wire) ==
    [f \in DOMAIN fields |->
        IF fields[f].tag \in DOMAIN wire THEN wire[fields[f].tag] ELSE fields[f].default]

-----------------------------------------------------------------------------
(* Messages within messages: a list of tasks that have an assignee is the  *)
(* deepest there is                                                        *)

Inner(codec(_, _), field, v) ==
    IF v = field.default \/ DOMAIN field.of = {} THEN v
    ELSE IF field.list THEN [i \in DOMAIN v |-> codec(field.of, v[i])]
    ELSE codec(field.of, v)

EncodeOuter(codec(_, _), fields, m) ==
    Put(fields, [f \in DOMAIN fields |-> Inner(codec, fields[f], m[f])])

DecodeOuter(codec(_, _), fields, wire) ==
    LET m == Get(fields, wire)
    IN  [f \in DOMAIN fields |-> Inner(codec, fields[f], m[f])]

EncodeNested(fields, m) == EncodeOuter(Put, fields, m)

DecodeNested(fields, wire) == DecodeOuter(Get, fields, wire)

Encode(fields, m) == EncodeOuter(EncodeNested, fields, m)

Decode(fields, wire) == DecodeOuter(DecodeNested, fields, wire)

=============================================================================
