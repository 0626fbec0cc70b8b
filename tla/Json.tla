-------------------------------- MODULE Json --------------------------------
(***************************************************************************)
(* The documents that gstd answers and the client library reads.  The      *)
(* daemon writes a document as a sequence of tokens (gstd_json_builder.c;  *)
(* some callers cut such a text and paste another behind it), the client   *)
(* reads it back (libgstc_json.c).  A token is a kind and a text, a text a *)
(* sequence of words; commas and blanks are left out.  json-glib and       *)
(* jansson are external.                                                   *)
(***************************************************************************)
EXTENDS Naturals, Sequences, SequencesExt

CONSTANT Unquotable   \* names that are no JSON string when quotes are put around them

-----------------------------------------------------------------------------
(* gstd_json_builder.c *)

begin_object == <<"{", <<>>>>
end_object == <<"}", <<>>>>
begin_array == <<"[", <<>>>>
end_array == <<"]", <<>>>>
set_member_name(name) == <<"key", <<name>>>>
set_null_value == <<"null", <<>>>>

\* A NULL string, here no word at all, is written as "".
set_string_value(text) == <<"string", IF text = <<>> THEN <<"">> ELSE text>>

\* The values of the types JSON knows keep their kind, the others become strings.
set_value(type, text) ==
  <<CASE type = "boolean" -> "boolean"
      [] type \in {"int", "uint", "int64", "uint64"} -> "integer"
      [] type \in {"float", "double"} -> "real"
      [] OTHER -> "string", text>>

\* A name that is printed between quotes as it is; it is a string unless something in it
\* would have to be escaped.
print_name(name) == <<IF name \in Unquotable THEN "raw" ELSE "string", <<name>>>>

\* A nested document is one token.
Object(members) == <<begin_object>> \o members \o <<end_object>>
Array(items) == <<begin_array>> \o items \o <<end_array>>
Nested(tokens) == <<"text", tokens>>
Member(name, token) == <<set_member_name(name), token>>
String(name, text) == Member(name, set_string_value(text))
Value(name, type, text) == Member(name, set_value(type, text))

\* <<Item(s[1]), Item(s[2]), ...>>, and their concatenation.
Each(s, Item(_)) == [i \in DOMAIN s |-> Item(s[i])]
Joined(s, Item(_)) == FlattenSeq(Each(s, Item))

-----------------------------------------------------------------------------
(* jansson's json_loads and the access functions *)

Node(type, text) == [type |-> type, text |-> text, keys |-> <<>>, kids |-> <<>>]
Absent == Node("absent", <<>>)
Malformed == Node("malformed", <<>>)

\* The texts nested in the given ones, and in these, down to Nesting levels.  That is a bound
\* of the model: an answer holds an object, its properties, each of them and what it is.
Nesting == 8
Inner(texts) == UNION {{t[i][2] : i \in {j \in DOMAIN t : t[j][1] = "text"}} : t \in texts}
Texts(tokens) ==
  LET deep[d \in 0 .. Nesting] ==
        IF d = 0 THEN {tokens} ELSE LET above == deep[d - 1] IN above \cup Inner(above)
  IN deep[Nesting]

\* An object is keys and values in turn between its brackets, an array values only, and
\* nothing follows either.
Brackets == {"{", "}", "[", "]"}
Shaped(tokens) ==
  LET n == Len(tokens)
      inner == 2 .. n - 1
      keys == {i \in inner : tokens[i][1] = "key"}
  IN \/ n = 1 /\ tokens[1][1] \notin Brackets \cup {"key"}
     \/ /\ n > 1
        /\ \/ tokens[1] = begin_array /\ tokens[n] = end_array /\ keys = {}
           \/ /\ tokens[1] = begin_object /\ tokens[n] = end_object
              /\ n % 2 = 0 /\ keys = {i \in inner : i % 2 = 0}
        /\ \A i \in inner : tokens[i][1] \notin Brackets

\* The parser does not get past a name that should have been escaped.
HasRaw(tokens) == \E i \in DOMAIN tokens : tokens[i][1] = "raw"
WellFormed(tokens) == Shaped(tokens) /\ ~HasRaw(tokens)
IsDocument(tokens) == \A text \in Texts(tokens) : WellFormed(text)

\* The tree of a document.
Tree(tokens) ==
  LET tree[text \in Texts(tokens)] ==
        LET n == Len(text)
            Kid(i) == IF text[i][1] = "text" THEN tree[text[i][2]] ELSE Node(text[i][1], text[i][2])
        IN IF n = 1 THEN Kid(1)
           ELSE IF text[1] = begin_array
           THEN [Node("array", <<>>) EXCEPT !.kids = [k \in 1 .. n - 2 |-> Kid(k + 1)]]
           ELSE [Node("object", <<>>) EXCEPT !.keys = [k \in 1 .. (n - 2) \div 2 |-> text[2 * k][2][1]],
                                             !.kids = [k \in 1 .. (n - 2) \div 2 |-> Kid(2 * k + 1)]]
  IN tree[tokens]

json_loads(tokens) == IF IsDocument(tokens) THEN Tree(tokens) ELSE Malformed

json_object_get(node, name) ==
  IF node.type = "object" /\ \E i \in DOMAIN node.keys : node.keys[i] = name
  THEN node.kids[CHOOSE i \in DOMAIN node.keys : node.keys[i] = name]
  ELSE Absent

-----------------------------------------------------------------------------
(* libgstc_json.c: a status and, with OK, what was read *)

Read(ret, out) == [ret |-> ret, out |-> out]

gstc_json_get_value(json, name) ==
  LET root == json_loads(json)
      out == json_object_get(root, name)
  IN IF root.type = "malformed" THEN Read("MALFORMED", Absent)
     ELSE IF out = Absent THEN Read("NOT_FOUND", Absent)
     ELSE Read("OK", out)

gstc_json_get_int(json, name) ==
  LET data == gstc_json_get_value(json, name) IN
  IF data.ret # "OK" THEN Read(data.ret, <<>>)
  ELSE IF data.out.type # "integer" THEN Read("TYPE_ERROR", <<>>)
  ELSE Read("OK", data.out.text)

gstc_json_child_string(json, parent, name) ==
  LET data == gstc_json_get_value(json, parent)
      child == json_object_get(data.out, name)
  IN IF data.ret # "OK" THEN Read(data.ret, <<>>)
     ELSE IF child = Absent THEN Read("NOT_FOUND", <<>>)
     ELSE IF child.type # "string" THEN Read("TYPE_ERROR", <<>>)
     ELSE Read("OK", child.text)

\* The names of the objects in an array, each a text.
gstc_json_get_child_char_array(json, parent, array, name) ==
  LET data == gstc_json_get_value(json, parent)
      items == json_object_get(data.out, array)
      names == [i \in DOMAIN items.kids |-> json_object_get(items.kids[i], name)]
  IN IF data.ret # "OK" THEN Read(data.ret, <<>>)
     ELSE IF \/ data.out.type # "object" \/ items.type # "array"
             \/ \E i \in DOMAIN names : names[i].type # "string"
     THEN Read("TYPE_ERROR", <<>>)
     ELSE Read("OK", [i \in DOMAIN names |-> names[i].text[1]])
=============================================================================
