----------------------------- MODULE ConfValues -----------------------------
(***************************************************************************)
(* ConfigParser.cpp: what the server makes of a JSON document.  A          *)
(* configuration value is a pair of a kind and a content, a double without *)
(* fraction being cast to a "long", any other kept as a "double".          *)
(***************************************************************************)
EXTENDS ModuleNames, Doubles

\* A string is printed as JSON, and then loses its quotes and backslashes.
ConfString(s) == <<"string", Erased(StringifyString(s), {Quote, Backslash})>>

\* add_num, add_number_to_obj, and the same lines in add_array_for_obj, add_array
\* and new_array.  A mutant truncates every number.
ConfTruncated(m, s) ==
  LET d == Double(m, s)
  IN IF IsLong(d) THEN <<"long", Cast(d)>>
     ELSE <<"long", Number(d[2] \div 10 ^ (-d[3]), 0)>>
ConfNumber(m, s) ==
  LET d == Double(m, s)
  IN IF IsLong(d) THEN <<"long", Cast(d)>> ELSE <<"double", d>>

\* A boolean in an array is asked of the array: what lies in its union.
UnsetBool == <<"bool", "unset">>

\* A key is narrowed char by char: the low byte of U+0178 is that of "x".
Narrowed(k) == [i \in DOMAIN k |-> IF k[i] = "wide" THEN "x" ELSE k[i]]

\* The keys are visited in order, where "x" < "wide": the last one stays.
Precedes(k, l) ==
  \E i \in DOMAIN k :
    /\ SubSeq(k, 1, i - 1) = SubSeq(l, 1, i - 1)
    /\ l[i] = "wide" /\ k[i] # "wide"

KeyFor(n, keys) ==
  CHOOSE k \in keys :
    Narrowed(k) = n /\ \A l \in keys : Narrowed(l) = n => ~Precedes(k, l)

\* A value of the document, given those in it: an array (add_array, new_array,
\* add_array_for_obj) and an object (getKey, add_object, new_object,
\* add_obj_to_obj) leave out their nulls.
ConfArray(elements, conf) ==
  LET kept == Only(elements, {e \in ToSet(elements) : e[1] # "null"})
  IN <<"array", [i \in DOMAIN kept |->
                   IF kept[i][1] = "bool" THEN UnsetBool ELSE conf[kept[i]]]>>

ConfObject(members, conf) ==
  LET kept == {k \in DOMAIN members : members[k][1] # "null"}
  IN <<"object", [n \in {Narrowed(k) : k \in kept} |-> conf[members[KeyFor(n, kept)]]]>>

ConfAt(v, conf) ==
  CASE v[1] = "string" -> ConfString(v[2])
    [] v[1] = "number" -> ConfNumber(v[2], v[3])
    [] v[1] = "bool" -> v
    [] v[1] = "array" -> ConfArray(v[2], conf)
    [] v[1] = "object" -> ConfObject(v[2], conf)

ConfValue(v, depth) ==
  LET conf[u \in Nested(v, depth)] == ConfAt(u, conf) IN conf[v]

\* ReadFile: what is no object is refused.
Readable(t) ==
  LET doc == JsonParse(t) IN doc.ok /\ doc.val[1] = "object"

\* A value is nested less deep than its text is long.
ConfOf(t) == ConfValue(JsonParse(t).val, Len(t))

(***************************************************************************)
(* What the configuration keeps.                                           *)
(***************************************************************************)
\* A number that its double says, and that fits where it is cast.
NumberKept(m, s) == Shown(m, s) /\ (IsLong(Double(m, s)) => Fits(Double(m, s)))

\* No null, no number that is lost, no boolean in an array, no string that is not
\* plain, no key beyond one byte a char.
Plain(v, depth) ==
  \A u \in Nested(v, depth) :
    /\ u[1] # "null"
    /\ u[1] = "number" => NumberKept(u[2], u[3])
    /\ u[1] = "string" => PlainString(u[2])
    /\ u[1] = "array" => \A e \in Content(u) : e[1] # "bool"
    /\ u[1] = "object" => \A k \in DOMAIN u[2] : "wide" \notin ToSet(k)

\* A configuration value as the JSON value it says, in the digits of a double.
JsonAt(c, json) ==
  CASE c[1] \in {"string", "bool"} -> c
    [] c[1] \in {"long", "double"} -> Rounded(c[2])
    [] c[1] \in {"array", "object"} -> <<c[1], [k \in DOMAIN c[2] |-> json[c[2][k]]]>>

AsJson(c, depth) ==
  LET json[u \in Nested(c, depth)] == JsonAt(u, json) IN json[c]

\* The configuration says what the file says, as far as it can keep it, at
\* every depth: getKey, add_* and new_*.
ConfKeepsDocument ==
  \A v \in Documents :
    Readable(text) /\ Plain(v, Len(text)) => AsJson(ConfOf(text), Len(text)) = v
=============================================================================
