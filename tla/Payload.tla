------------------------------ MODULE Payload ------------------------------
(***** What the payload of a message goes through between two endpoints: validation of its struct (the validate
       tags, run by validator.v9), encoding (the json tags, run by encoding/json), the generic JSON value that
       ParseRawJsonMessage makes of it, and decoding into the receiver's struct.  A value of a field is the class
       of values these four treat alike, and a payload differs from a good one in at most one field, at any
       depth. *****)
EXTENDS Naturals, Sequences

LOCAL Ext == INSTANCE SequencesExt

\* A validation tag: its name, the classes of values it rejects, whether a package has to register it.
Tag(name, rejects) == [name |-> name, rejects |-> rejects, custom |-> FALSE]

OmitEmpty == Tag("omitempty", {})
Required == Tag("required", {"zero", "nil"})
Max == Tag("max", {"long", "big", "rounded", "huge", "nan"})
Lte == Tag("lte", {"long", "big", "rounded", "huge", "nan"})
Min == Tag("min", {"zero", "empty", "nil", "low", "nan"})
Gt == Tag("gt", {"zero", "low", "nan"})
AtLeast(name) == Tag(name, {"low", "nan"})
Unique == Tag("unique", {"dup"})
Uri == Tag("uri", {"zero", "bad"})
Url == Tag("url", {"zero", "bad"})
In(name) == [name |-> name, rejects |-> {"zero", "bad", "bytes", "replaced"}, custom |-> TRUE]

\* A field of a struct: its name, Go type, json omitempty, tags, and the fields of what it holds.
Field(name, kind, tags, of, dive) ==
    [name |-> name, kind |-> kind, ptr |-> FALSE, omit |-> FALSE, notNull |-> FALSE,
     tags |-> tags, of |-> of, dive |-> dive]

Str(name, tags) == Field(name, "str", tags, <<>>, FALSE)
Int(name, tags) == Field(name, "int", tags, <<>>, FALSE)
Num(name, tags) == Field(name, "num", tags, <<>>, FALSE)
Bool(name, tags) == Field(name, "bool", tags, <<>>, FALSE)
Time(name, tags) == Field(name, "time", tags, <<>>, FALSE)
Any(name, tags) == Field(name, "any", tags, <<>>, FALSE)
Obj(name, tags, of) == Field(name, "obj", tags, of, TRUE)
Arr(name, tags, of) == Field(name, "arr", tags, of, TRUE)
Unchecked(name, tags, of) == Field(name, "arr", tags, of, FALSE)
Extensions == Field("extensions", "ext", <<>>, <<>>, FALSE)
Ptr(f) == [f EXCEPT !.ptr = TRUE]
Opt(f) == [f EXCEPT !.omit = TRUE]
NotNull(f) == [f EXCEPT !.notNull = TRUE]

\* A request or response: its type, the fields its constructor sets, all its fields.
Message(type, set, fields) == [type |-> type, set |-> set, fields |-> fields]

-----------------------------------------------------------------------------
\* The classes of values.  Numbers: "low" and "long" are outside a bound, "big" is an integer that the nearest float64
\* changes, "huge" one whose nearest float64 is 2^63, "overflow" a number beyond every float64 (a json.Number or a raw
\* message of 1e400), "nan" and "unencodable" what encoding/json refuses.  "bytes" is a string that is not UTF-8, "sub"
\* a time with a fraction of a second, "typed" a Go value in an interface{}.  Of extensions: "lexeme" is a value whose
\* spelling is not the canonical one, "reserved" an entry named vendorId, "blank" an entry without bytes.
KindValues ==
    [str |-> {"zero", "long", "bad", "bytes"}, int |-> {"zero", "low", "long", "big", "huge"},
     num |-> {"zero", "low", "long", "nan"}, bool |-> {"zero"}, time |-> {"zero", "sub"}, obj |-> {"zero"},
     arr |-> {"nil", "empty", "long", "dup"}, any |-> {"nil", "typed", "overflow", "unencodable"},
     ext |-> {"nil", "lexeme", "overflow", "reserved", "blank", "unencodable"}]

\* Classes that matter whatever the tags are.
AlwaysValues == {"zero", "nil", "empty", "big", "huge", "overflow", "nan", "unencodable", "bytes", "sub", "typed",
                 "lexeme", "reserved", "blank"}

Rejected(f) == UNION {f.tags[i].rejects : i \in DOMAIN f.tags}

Values(f) ==
    (IF f.ptr THEN {"nil"} ELSE {}) \cup (KindValues[f.kind] \cap (AlwaysValues \cup Rejected(f)))

\* Go's zero value of a field that nobody sets.
ZeroValue(f) == IF f.ptr \/ f.kind \in {"arr", "any", "ext"} THEN "nil" ELSE "zero"

-----------------------------------------------------------------------------
(* Validation (validator.v9, Validate.Struct): the tags that fail, in the order of the fields. *)

Optional(f) == f.tags # <<>> /\ f.tags[1] = OmitEmpty

\* The value for which a leading omitempty ends the validation of the field.
IsEmpty(f, v) == v = "nil" \/ (v = "zero" /\ ~f.ptr)

Rejects(tag, f, v) == v \in tag.rejects /\ ~(tag = Required /\ f.ptr /\ v = "zero")

\* The first tag that rejects the value: a field reports one error.
FirstRejection(f, v) ==
    LET failing == SelectSeq(f.tags, LAMBDA tag : Rejects(tag, f, v)) IN
    IF failing = <<>> \/ (Optional(f) /\ IsEmpty(f, v)) THEN <<>> ELSE <<failing[1].name>>

\* A nil pointer or interface fails the first tag, whatever it is.
NilErrors(f) == IF f.tags = <<>> \/ Optional(f) THEN <<>> ELSE <<f.tags[1].name>>

\* Of a struct only the fields are validated, not the tags of the field that holds it; one that is left zero reports
\* the errors of all its fields.
RECURSIVE FieldErrors(_, _)
FieldErrors(f, v) ==
    CASE v = "nil" /\ f.kind # "arr" -> NilErrors(f)
      [] v = "zero" /\ f.kind = "obj" ->
            Ext!FlattenSeq([i \in DOMAIN f.of |-> FieldErrors(f.of[i], ZeroValue(f.of[i]))])
      [] f.kind = "time" -> IF v = "zero" /\ f.notNull THEN <<"required">> ELSE <<>>
      [] OTHER -> FirstRejection(f, v)

-----------------------------------------------------------------------------
(* Encoding, the wire, and decoding (encoding/json, and the MarshalJSON and UnmarshalJSON of DateTime and
   CustomData). *)

Omitted(f, v) ==
    f.omit /\ (v \in {"nil", "empty"} \/ (v = "zero" /\ ~f.ptr /\ f.kind \in {"str", "int", "num", "bool"}))

\* CustomData.MarshalJSON: every extension is a member of the object, and has to hold one JSON value; one without
\* bytes is null, and one under the reserved name is skipped.
MarshalExtensions(v) ==
    CASE v = "unencodable" -> "error"
      [] v \in {"nil", "reserved"} -> "absent"
      [] v = "blank" -> "null"
      [] OTHER -> v

\* DateTime.MarshalJSON: RFC 3339 has no fraction of a second.
FormatTimestamp(v) == IF v = "sub" THEN "good" ELSE v

Encode(f, v) ==
    CASE f.kind = "ext" -> MarshalExtensions(v)
      [] v \in {"nan", "unencodable"} -> "error"
      [] Omitted(f, v) -> "absent"
      [] v = "nil" -> "null"
      [] f.kind = "time" -> FormatTimestamp(v)
      [] v = "bytes" -> "replaced"
      [] OTHER -> v

\* ParseRawJsonMessage reads every number as a float64, or fails where there is none, and every string as UTF-8;
\* parseRawJsonRequest writes them again.
Reparsed(j) ==
    CASE j = "big" -> "rounded"
      [] j = "huge" -> "2^63"
      [] j = "overflow" -> "error"
      [] j = "lexeme" -> "plain"
      [] j = "bytes" -> "replaced"
      [] OTHER -> j

\* DateTime.UnmarshalJSON: four bytes with one letter of null in its place are no timestamp, and read as null.
UnmarshalTime(j) == IF j = "almost null" THEN "zero" ELSE j

\* CustomData.UnmarshalJSON: the members other than vendorId, as they are; "nil" is a map without entries.
UnmarshalExtensions(j) == IF j = "absent" THEN "nil" ELSE j

\* No int holds 2^63.
Decode(f, j) ==
    CASE j \in {"mistyped", "2^63", "error"} -> "error"
      [] f.kind = "ext" -> UnmarshalExtensions(j)
      [] j \in {"absent", "null"} -> ZeroValue(f)
      [] f.kind = "time" -> UnmarshalTime(j)
      [] j = "typed" -> "generic"
      [] OTHER -> j

\* The value the receiver has for a value the sender can encode.
Conveyed(f, v) == Decode(f, Reparsed(Encode(f, v)))

-----------------------------------------------------------------------------
(* Payloads: good but for the value of the field at a path (through the elements of arrays), or as its constructor
   makes it, with the fields it does not set left zero, or with no field at all. *)

Good == [path |-> <<>>, value |-> "good"]
Constructed == [path |-> <<>>, value |-> "unset"]
Empty == [path |-> <<>>, value |-> "empty"]
NotObject == [path |-> <<>>, value |-> "mistyped"]

RECURSIVE Paths(_)
Paths(fields) ==
    UNION {{<<i>>} \cup {<<i>> \o p : p \in Paths(fields[i].of)} : i \in DOMAIN fields}

RECURSIVE FieldAt(_, _)
FieldAt(fields, path) ==
    LET f == fields[path[1]] IN IF Len(path) = 1 THEN f ELSE FieldAt(f.of, Tail(path))

\* Whether validation descends to a path: not into the elements of an array without dive.
RECURSIVE Descends(_, _)
Descends(fields, path) ==
    LET f == fields[path[1]] IN Len(path) = 1 \/ (f.dive /\ Descends(f.of, Tail(path)))

\* The fields that are zero in a constructed or an empty payload.
Unset(m, p) == IF p = Empty THEN m.fields ELSE SelectSeq(m.fields, LAMBDA f : f.name \notin m.set)

ZeroErrors(fields) == Ext!FlattenSeq([i \in DOMAIN fields |-> FieldErrors(fields[i], ZeroValue(fields[i]))])

\* The errors Validate.Struct returns for a payload of message m.
Errors(m, p) ==
    CASE p = Good -> <<>>
      [] p \in {Constructed, Empty} -> ZeroErrors(Unset(m, p))
      [] OTHER -> IF Descends(m.fields, p.path) THEN FieldErrors(FieldAt(m.fields, p.path), p.value) ELSE <<>>

\* json.Marshal of a payload; the value is "error" when it fails.
Marshalled(m, p) == IF p.path = <<>> THEN p ELSE [p EXCEPT !.value = Encode(FieldAt(m.fields, p.path), p.value)]

\* ParseRawJsonMessage and json.Unmarshal of what is on the wire; the value is "error" when it fails.  A zero value
\* arrives as the zero value, so a constructed payload arrives as it was.
Unmarshalled(m, w) ==
    CASE w = NotObject -> [w EXCEPT !.value = "error"]
      [] w.path = <<>> -> w
      [] OTHER -> [w EXCEPT !.value = Decode(FieldAt(m.fields, w.path), Reparsed(w.value))]

\* The payloads a program can build, and the ones a peer can put on the wire.
Payloads(m) ==
    {Good, Constructed}
    \cup UNION {{[path |-> p, value |-> v] : v \in Values(FieldAt(m.fields, p))} : p \in Paths(m.fields)}

WireValues(f) ==
    (Values(f) \ {"nil", "sub", "nan", "unencodable", "reserved", "blank"})
    \cup {"overflow"}
    \cup (IF f.name = "" THEN {"null"} ELSE {"absent", "null"})
    \cup (IF f.kind \in {"any", "ext"} THEN {} ELSE {"mistyped"})
    \cup (IF f.kind = "time" THEN {"almost null"} ELSE {})

WirePayloads(m) ==
    {Good, Empty, NotObject}
    \cup UNION {{[path |-> p, value |-> v] : v \in WireValues(FieldAt(m.fields, p))} : p \in Paths(m.fields)}

\* The custom tags of a struct, which its first validation looks up: an unregistered one makes validator.v9 panic.
RECURSIVE CustomTags(_)
CustomTags(fields) ==
    UNION {{fields[i].tags[k].name : k \in {k \in DOMAIN fields[i].tags : fields[i].tags[k].custom}}
               \cup CustomTags(fields[i].of) : i \in DOMAIN fields}

=============================================================================
