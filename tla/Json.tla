-------------------------------- MODULE Json --------------------------------
(***************************************************************************)
(* json.encode and json.decode (lib/json/json.go).                         *)
(*                                                                         *)
(* encode walks an object graph: a sequence of objects [kind, n, of,       *)
(* array], that refer to one another by number.  of are the members, each  *)
(* a key and a value; n is the rank of a string.  Keys of a dict, and the  *)
(* names of a struct's fields, are strings; 0 is a key of another type.    *)
(* "other" has no encoding: a function, or a float that is not finite.     *)
(* array is what the pointer of an object points to: itself, but a tuple   *)
(* is a slice, and the slices t[:n] of a tuple point to the array of t.    *)
(*                                                                         *)
(* A text is a sequence of tokens [t, n].  The characters of strings and   *)
(* numbers, and white space, are left out; decoded values are trees, as    *)
(* those of Ordering.                                                      *)
(***************************************************************************)
EXTENDS Ordering
LOCAL INSTANCE SequencesExt

CONSTANTS
  KeyLists,    (* the keys of the dicts, and the names of fields           *)
  MaxMembers   (* bound on the length of lists and tuples                  *)

ASSUME JsonAssumption == KeyLists \subseteq Seq(Nat) /\ MaxMembers \in Nat

Mark(t) == [t |-> t, n |-> 0]
Literals == {"null", "string"}

Encoded(text) == [err |-> "none", text |-> text]
NotEncoded(err) == [err |-> err, text |-> <<>>]

(* The objects a program can add to those of h, of n in all.  A list or a  *)
(* dict may have got any member since; a tuple or a struct has those that  *)
(* it was made from.                                                       *)
Arrays(S) == UNION {[1 .. m -> [key : {0}, val : S]] : m \in 0 .. MaxMembers}
Tables(S) ==
  UNION {{[j \in DOMAIN ks |-> [key |-> ks[j], val |-> f[j]]] : f \in [DOMAIN ks -> S]} : ks \in KeyLists}
Object(kinds, of, array) == [kind : kinds, n : {1}, of : of, array : {array}]
NewObjects(h, n) ==
  LET self == Len(h) + 1
      earlier == DOMAIN h
      structs == {of \in Tables(earlier) : \A j \in DOMAIN of : of[j].key # 0}
      slices(t) == {SubSeq(h[t].of, 1, m) : m \in 0 .. Len(h[t].of)}
  IN  Object(Literals \cup {"other"}, {<<>>}, 0)
      \cup Object({"list"}, Arrays(1 .. n), self) \cup Object({"dict"}, Tables(1 .. n), self)
      \cup Object({"tuple"}, Arrays(earlier), self) \cup Object({"struct"}, structs, self)
      \cup UNION {Object({"tuple"}, slices(t), h[t].array) : t \in {t \in earlier : h[t].kind = "tuple"}}

ByKey(of) == SetToSortSeq(ToSet(of), LAMBDA a, b : a.key < b.key)
-----------------------------------------------------------------------------
RECURSIVE Emit(_, _, _)

(* The members, with commas between them, up to the first that fails. *)
EmitMembers(h, path, of, keyed) ==
  FoldLeft(LAMBDA s, j :
             LET r == Emit(h, path, of[j].val)
                 label == IF keyed THEN <<[t |-> "string", n |-> of[j].key], Mark(":")>> ELSE <<>>
             IN  IF s.err # "none" THEN s
                 ELSE IF r.err # "none" THEN r
                 ELSE Encoded(s.text \o (IF j > 1 THEN <<Mark(",")>> ELSE <<>>) \o label \o r.text),
           Encoded(<<>>), UpTo(Len(of)))

Within(open, r, close) ==
  IF r.err # "none" THEN r ELSE Encoded(<<Mark(open)>> \o r.text \o <<Mark(close)>>)

(* A pointer on the path from the argument means a cycle.  The entries of  *)
(* a dict and the fields of a struct are sorted.                           *)
Emit(h, path, x) ==
  LET o == h[x]
      inner == path \cup {o.array}
  IN  CASE o.array \in path -> NotEncoded("cycle")
        [] o.kind \in Literals -> Encoded(<<[t |-> o.kind, n |-> o.n]>>)
        [] o.kind \in {"list", "tuple"} -> Within("[", EmitMembers(h, inner, o.of, FALSE), "]")
        [] o.kind = "dict" /\ \E j \in DOMAIN o.of : o.of[j].key = 0 -> NotEncoded("key")
        [] o.kind \in {"dict", "struct"} ->
             Within("{", EmitMembers(h, inner, ByKey(o.of), TRUE), "}")
        [] OTHER -> NotEncoded("type")

Encode(h, x) == Emit(h, {}, x)
-----------------------------------------------------------------------------
Invalid == [ok |-> FALSE, next |-> 0, val |-> Scalar("NoneType", 0)]
Parsed(val, next) == [ok |-> TRUE, next |-> next, val |-> val]
Ahead(s, i) == IF i <= Len(s) THEN s[i].t ELSE "end of file"

(* dict.SetKey: a key that is there already keeps its place. *)
SetKey(e, k, v) ==
  IF k \in KeysOf(e)
  THEN [j \in DOMAIN e |-> IF j > 1 /\ j % 2 = 0 /\ e[j - 1] = k THEN v ELSE e[j]]
  ELSE e \o <<k, v>>

RECURSIVE Parse(_, _), ParseArray(_, _, _), ParseObject(_, _, _)

ParseArray(s, i, elems) ==
  LET elem == Parse(s, i)
      after == Ahead(s, elem.next)
      more == Append(elems, elem.val)
  IN  CASE ~elem.ok -> Invalid
        [] elem.ok /\ after = "," -> ParseArray(s, elem.next + 1, more)
        [] elem.ok /\ after = "]" -> Parsed(Compound("list", more), elem.next + 1)
        [] OTHER -> Invalid

ParseObject(s, i, entries) ==
  LET key == Parse(s, i)
      named == key.ok /\ key.val.t = "string" /\ Ahead(s, key.next) = ":"
      value == Parse(s, key.next + 1)
      after == Ahead(s, value.next)
      more == SetKey(entries, key.val, value.val)
  IN  CASE ~named \/ ~value.ok -> Invalid
        [] named /\ value.ok /\ after = "," -> ParseObject(s, value.next + 1, more)
        [] named /\ value.ok /\ after = "}" -> Parsed(Compound("dict", more), value.next + 1)
        [] OTHER -> Invalid

Parse(s, i) ==
  LET b == Ahead(s, i)
      empty == Ahead(s, i + 1)
  IN  CASE b = "string" -> Parsed(Scalar("string", s[i].n), i + 1)
        [] b = "null" -> Parsed(Scalar("NoneType", 0), i + 1)
        [] b = "[" -> IF empty = "]" THEN Parsed(Compound("list", <<>>), i + 2)
                      ELSE ParseArray(s, i + 1, <<>>)
        [] b = "{" -> IF empty = "}" THEN Parsed(Compound("dict", <<>>), i + 2)
                      ELSE ParseObject(s, i + 1, <<>>)
        [] OTHER -> Invalid

(* A wrong decode, that takes what it needs and leaves the rest. *)
DecodePrefix(s) == Parse(s, 1)

Decode(s) == LET r == Parse(s, 1) IN IF r.next = Len(s) + 1 THEN r ELSE Invalid
-----------------------------------------------------------------------------
(* What an object contains at any depth. *)
Members(h, x) == {h[x].of[j].val : j \in DOMAIN h[x].of}
Contained(h, x) ==
  FoldLeft(LAMBDA S, j : S \cup UNION {Members(h, y) : y \in S}, Members(h, x), UpTo(Len(h)))
Whole(h, x) == {x} \cup Contained(h, x)

(* Something contains itself; a tuple contains a slice that shares its     *)
(* array, though perhaps not the element through which it does.            *)
Cyclic(h, x) == \E y \in Whole(h, x) : y \in Contained(h, y)
SharesArray(h, x) ==
  \E y \in Whole(h, x) : \E z \in Contained(h, y) : h[y].array = h[z].array /\ h[y].array # 0
Unencodable(h, x) ==
  \E y \in Whole(h, x) :
    \/ h[y].kind = "other"
    \/ h[y].kind = "dict" /\ \E j \in DOMAIN h[y].of : h[y].of[j].key = 0

(* The value that encode's argument should be read back as: tuples become  *)
(* lists, structs become dicts.                                            *)
RECURSIVE ReadBack(_, _)
ReadBack(h, x) ==
  LET o == h[x]
      vals == [j \in DOMAIN o.of |-> ReadBack(h, o.of[j].val)]
  IN  CASE o.kind = "null" -> Scalar("NoneType", 0)
        [] o.kind = "string" -> Scalar("string", o.n)
        [] o.kind \in {"list", "tuple"} -> Compound("list", vals)
        [] OTHER -> Compound("dict", FoldLeft(LAMBDA e, j : e \o <<Scalar("string", o.of[j].key), vals[j]>>,
                                              <<>>, UpTo(Len(o.of))))

RECURSIVE SameValue(_, _)
SameValue(x, y) ==
  /\ x.t = y.t /\ x.n = y.n /\ Len(x.e) = Len(y.e)
  /\ IF x.t = "dict"
     THEN \A j \in Pairs(x.e) : /\ x.e[2 * j - 1] \in KeysOf(y.e)
                                /\ SameValue(x.e[2 * j], ValueAt(y.e, x.e[2 * j - 1]))
     ELSE \A i \in DOMAIN x.e : SameValue(x.e[i], y.e[i])

(* encode fails just if it meets a cycle, a slice of a tuple in the tuple, *)
(* or something without an encoding, and says cycle only of the first two; *)
(* otherwise decode reads its result back as an equal value.               *)
EncodedFaithfully(h, x) ==
  LET r == Encode(h, x)
      back == Decode(r.text)
      again == Cyclic(h, x) \/ SharesArray(h, x)
  IN  /\ r.err = "none" <=> ~again /\ ~Unencodable(h, x)
      /\ r.err = "cycle" => again
      /\ r.err = "none" => /\ back.ok
                           /\ SameValue(back.val, ReadBack(h, x))

(* The grammar of RFC 8259, by how a text can be cut into parts. *)
RECURSIVE IsValue(_), IsArray(_), IsObject(_)
Cut(s, c) == [first |-> SubSeq(s, 1, c - 1), rest |-> SubSeq(s, c + 1, Len(s))]
Commas(s) == {c \in 2 .. Len(s) - 1 : s[c].t = ","}
IsArray(s) == IsValue(s) \/ \E c \in Commas(s) : IsValue(Cut(s, c).first) /\ IsArray(Cut(s, c).rest)
IsEntry(s) == Len(s) > 2 /\ s[1].t = "string" /\ s[2].t = ":" /\ IsValue(SubSeq(s, 3, Len(s)))
IsObject(s) == IsEntry(s) \/ \E c \in Commas(s) : IsEntry(Cut(s, c).first) /\ IsObject(Cut(s, c).rest)
IsValue(s) ==
  \/ Len(s) = 1 /\ s[1].t \in Literals
  \/ Len(s) > 1 /\ LET inside == SubSeq(s, 2, Len(s) - 1)
                   IN  \/ s[1].t = "[" /\ Last(s).t = "]" /\ (inside = <<>> \/ IsArray(inside))
                       \/ s[1].t = "{" /\ Last(s).t = "}" /\ (inside = <<>> \/ IsObject(inside))

(* decode accepts just the texts of the grammar. *)
DecodedExactly(s) == Decode(s).ok <=> IsValue(s)
=============================================================================
