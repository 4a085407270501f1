--------------------------------- MODULE Wire ---------------------------------
(***************************************************************************)
(* How request and response bodies are coded (internal/wire/buffer.go).    *)
(* A layout is the sequence of codings that an encoder writes or a decoder *)
(* reads, in order; a coding is a pair of its kind and, for an array, the  *)
(* layout of one element.  Values are left out: what the peers of a        *)
(* connection must agree on is where each field starts and ends.           *)
(***************************************************************************)
EXTENDS Naturals, Sequences

Coding(kind) == <<kind, <<>>>>

\* Fixed-width integers; a bool and a float64 occupy one and eight bytes.
Int8 == Coding("1 byte")
Bool == Int8
Int16 == Coding("2 bytes")
Int32 == Coding("4 bytes")
Int64 == Coding("8 bytes")
Float64 == Int64
UUID == Coding("16 bytes")

\* Legacy strings have an int16 length, legacy bytes an int32 length; the
\* compact forms of both have an uvarint length.  -1, and 0 when compact, is null.
String == Coding("int16 length")
Bytes == Coding("int32 length")
CompactString == Coding("uvarint length")
CompactBytes == CompactString

\* A bare uvarint.
Uvarint == Coding("uvarint")

\* A section of tagged fields: the encoders write it empty, the decoders skip it.
TagSection == Coding("tags")

Array(element) == <<"int32 count", element>>
CompactArray(element) == <<"uvarint count", element>>

\* An array that its encoder always leaves empty (or null): it has no element
\* layout, and any reader of the same count coding can read it.
NoElements == <<>>

\* Fields that are there only when a condition on the version holds.
Opt(condition, fields) == IF condition THEN fields ELSE <<>>

Compact == {"uvarint", "uvarint length", "uvarint count", "tags"}
Legacy == {"int16 length", "int32 length", "int32 count"}
Arrays == {"int32 count", "uvarint count"}

\* A reader's layout agrees with what was written when it finds every field
\* where the writer put it.  A reader may stop before the end of the body, but
\* not before the end of an array element.
RECURSIVE SameFields(_, _)
SameFields(reader, writer) ==
  \A i \in 1..Len(reader) :
    /\ reader[i][1] = writer[i][1]
    /\ \/ writer[i][2] = NoElements
       \/ /\ Len(reader[i][2]) = Len(writer[i][2])
          /\ SameFields(reader[i][2], writer[i][2])

Reads(reader, writer) ==
  /\ Len(reader) <= Len(writer)
  /\ SameFields(reader, writer)

\* The kinds of coding a layout uses, the elements of its arrays included.
RECURSIVE Kinds(_)
Kinds(layout) ==
  {layout[i][1] : i \in 1..Len(layout)}
    \cup UNION {Kinds(layout[i][2]) : i \in 1..Len(layout)}

\* In a flexible body every array element that is a structure ends in a tag
\* section; an element of one field is a primitive and has none.
RECURSIVE ElementsTagged(_)
ElementsTagged(layout) ==
  \A i \in 1..Len(layout) :
    layout[i][1] \in Arrays =>
      LET element == layout[i][2]
      IN  /\ Len(element) > 1 => element[Len(element)] = TagSection
          /\ ElementsTagged(element)

\* The form that a request's or response's header announces for its body.
HasForm(layout, flexible) ==
  IF flexible THEN /\ Kinds(layout) \cap Legacy = {}
                   /\ ElementsTagged(layout)
              ELSE Kinds(layout) \cap Compact = {}
===============================================================================
