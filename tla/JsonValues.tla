---------------------------- MODULE JsonValues ----------------------------
(***************************************************************************)
(* JSON values, and the reading of their fields by the two parsers of      *)
(* configurations. A JSON value is a record of its type t and its value v. *)
(* A string is the sequence of its parts between the separators its reader *)
(* knows: the bars that join the key of a binding, the slashes of a path.  *)
(*                                                                         *)
(* The result of a reader is a set: {value}, or {} for an error, so that a *)
(* value built from several results is a comprehension, which is {} as     *)
(* soon as one of them is.                                                 *)
(***************************************************************************)
EXTENDS Integers, Sequences, Functions

Object(fields) == [t |-> "object", v |-> fields]
Array(items) == [t |-> "array", v |-> items]
String(parts) == [t |-> "string", v |-> parts]
Num(n) == [t |-> "int", v |-> n]
Bool(b) == [t |-> "bool", v |-> b]

Word(w) == <<w>>
Empty == Word("")
NoFields == [k \in {} |-> Empty]

(* A set of JSON values that holds what each of its members holds, each    *)
(* with a value of the kind its type says; strings have parts from W.      *)
JsonSet(J, W) ==
  /\ "" \in W
  /\ \A x \in J :
       /\ x.t = "int" => x.v \in Int
       /\ x.t = "string" => x.v \in Seq(W)
       /\ x.t = "array" => x.v \in Seq(J)
       /\ x.t = "object" => \A k \in DOMAIN x.v : x.v[k] \in J

(* Reading a field of an object.                                           *)
IsObject(x) == x.t = "object"
HasField(root, key) == IsObject(root) /\ key \in DOMAIN root.v

Required(root, key, type) ==
  IF HasField(root, key) /\ root.v[key].t = type THEN {root.v[key].v} ELSE {}

RequiredString(root, key) == Required(root, key, "string") \ {Empty}

Optional(root, key, type, fallback) ==
  IF HasField(root, key) THEN Required(root, key, type) ELSE {fallback}

(* What Parse makes of a value, or the error. *)
Then(result, Parse(_)) == UNION {Parse(r) : r \in result}

(* The items of an array, when each could be parsed and no key comes twice. *)
UniqueArray(parsed, specs, keys) ==
  IF (\A i \in DOMAIN parsed : parsed[i] # {}) /\ IsInjective(keys)
  THEN {specs} ELSE {}

ParseUniqueArray(items, Parse(_), Key(_)) ==
  LET parsed == [i \in DOMAIN items |->
                   IF IsObject(items[i]) THEN Parse(items[i]) ELSE {}]
      specs == [i \in DOMAIN items |-> CHOOSE s \in parsed[i] : TRUE]
  IN UniqueArray(parsed, specs, [i \in DOMAIN specs |-> Key(specs[i])])
=============================================================================
