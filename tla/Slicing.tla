------------------------------- MODULE Slicing ------------------------------
(***************************************************************************)
(* Sequences and their indices (starlark/eval.go, value.go, library.go):   *)
(* x[i], x[lo:hi:step], ranges and the methods of lists that take an       *)
(* index.  seq is one sequence, a list, a tuple or a range; the program    *)
(* replaces it by slices of itself and, if it is a list, updates it.       *)
(*                                                                         *)
(* Go's int has IntBits bits and wraps; an index or a stride must fit in   *)
(* half as many, as int32 is half of the int of the platforms in use.  An  *)
(* operand that may be omitted is <<>> if it is, and <<n>> if it is n.     *)
(***************************************************************************)
EXTENDS Integers, Sequences
Seqs == INSTANCE SequencesExt

CONSTANTS
  IntBits,     (* width of int; index operands have half of it            *)
  Elem,        (* elements of the lists and tuples at the start            *)
  MaxSeq,      (* bound on the length of a list                            *)
  RangeArgs,   (* the <<start, stop, step>> of the ranges at the start     *)
  IndexArgs,   (* indices and strides that the program uses                *)
  Calls        (* bound on the slices and updates of a run                 *)

ASSUME SlicingAssumption ==
  /\ IntBits \in Nat \ {0} /\ IntBits % 2 = 0 /\ MaxSeq \in Nat /\ Calls \in Nat
  /\ IndexArgs \subseteq Int
  /\ \A a \in RangeArgs : a \in Int \X Int \X Int /\ a[3] # 0

VARIABLES
  seq,    (* the sequence: [kind, elems] or [kind, start, stop, step, len]  *)
  calls   (* number of slices and updates so far                            *)

slicingVars == <<seq, calls>>
-----------------------------------------------------------------------------
(* Go's arithmetic: results modulo the width, division towards zero. *)
Wrap(n) == ((n + 2 ^ (IntBits - 1)) % (2 ^ IntBits)) - 2 ^ (IntBits - 1)
Quo(a, b) ==
  LET q == (IF a < 0 THEN -a ELSE a) \div (IF b < 0 THEN -b ELSE b)
  IN  IF a < 0 <=> b < 0 THEN q ELSE -q
Rem(a, b) == a - b * Quo(a, b)
Signum(n) == IF n > 0 THEN 1 ELSE IF n < 0 THEN -1 ELSE 0

IsInt32(n) == -(2 ^ (IntBits \div 2 - 1)) <= n /\ n < 2 ^ (IntBits \div 2 - 1)

(* A list or tuple, a range and the panic of rangeLen. *)
Plain(kind, elems) == [kind |-> kind, elems |-> elems]
Panic == [kind |-> "panic"]

(* A range's length, for a step that is not zero. *)
RangeLen(start, stop, step) ==
  CASE step > 0 /\ stop > start -> Wrap(Quo(Wrap(stop - 1 - start), step) + 1)
    [] step < 0 /\ start > stop -> Wrap(Quo(Wrap(start - 1 - stop), Wrap(-step)) + 1)
    [] OTHER -> 0
Range3(start, stop, step) ==
  IF step = 0 THEN Panic
  ELSE [kind |-> "range", start |-> start, stop |-> stop, step |-> step,
        len |-> RangeLen(start, stop, step)]

Length(s) == IF s.kind = "range" THEN s.len ELSE Len(s.elems)
Element(s, i) == IF s.kind = "range" THEN Wrap(s.start + i * s.step) ELSE s.elems[i + 1]
Contents(s) == [i \in 1 .. Length(s) |-> Element(s, i - 1)]
-----------------------------------------------------------------------------
(* asIndex, and indices for positive strides. *)
AsIndex(v, n, default) ==
  IF v = <<>> THEN default ELSE IF v[1] < 0 THEN v[1] + n ELSE v[1]
Clamp(i, n) == IF i < 0 THEN 0 ELSE IF i > n THEN n ELSE i
Indices(lo, hi, n) == <<Clamp(AsIndex(lo, n, 0), n), Clamp(AsIndex(hi, n, n), n)>>

(* Wrong bounds: a negative stride whose end is clamped to zero. *)
BoundsDownToZero(lo, hi, step, n) ==
  IF step > 0
  THEN LET b == Indices(lo, hi, n) IN <<b[1], Seqs!Max({b[1], b[2]})>>
  ELSE LET end == Seqs!Max({AsIndex(hi, n, -1), 0})
       IN  <<Seqs!Max({Seqs!Min({AsIndex(lo, n, n - 1), n - 1}), end}), end>>

(* The start and end that slice passes on; equal if the result is empty. *)
Bounds(lo, hi, step, n) ==
  IF step > 0
  THEN LET b == Indices(lo, hi, n) IN <<b[1], Seqs!Max({b[1], b[2]})>>
  ELSE LET end == Seqs!Max({AsIndex(hi, n, -1), -1})
       IN  <<Seqs!Max({Seqs!Min({AsIndex(lo, n, n - 1), n - 1}), end}), end>>

(* The loop of List.Slice and Tuple.Slice. *)
Every(elems, start, end, step) ==
  LET from[i \in Int] ==
        IF Signum(end - i) # Signum(step) THEN <<>> ELSE <<elems[i + 1]>> \o from[i + step]
  IN  from[start]

SliceRange(r, start, end, step) ==
  Range3(Wrap(r.start + r.step * start), Wrap(r.start + r.step * end), Wrap(r.step * step))

SliceFrom(s, b, step) ==
  IF s.kind = "range" THEN SliceRange(s, b[1], b[2], step)
  ELSE Plain(s.kind, IF step = 1 THEN SubSeq(s.elems, b[1] + 1, b[2])
                     ELSE Every(s.elems, b[1], b[2], step))

(* slice fails unless the operands are of 32 bits and the stride is not    *)
(* zero.                                                                   *)
Stride(step) == IF step = <<>> THEN 1 ELSE step[1]
SliceFails(lo, hi, step) ==
  Stride(step) = 0 \/ \E v \in {lo, hi, step} : v # <<>> /\ ~IsInt32(v[1])
Slice(s, lo, hi, step) == SliceFrom(s, Bounds(lo, hi, Stride(step), Length(s)), Stride(step))

(* getIndex, setIndex, list.pop: the position of a valid index. *)
Position(i, n) == IF i < 0 THEN i + n ELSE i
IndexFails(i, n) == ~IsInt32(i) \/ Position(i, n) \notin 0 .. n - 1

(* rangeValue.contains, and rangeEqual. *)
RangeHas(r, v) ==
  /\ IsInt32(v)
  /\ LET delta == Wrap(v - r.start)
     IN  /\ Rem(delta, r.step) = 0
         /\ Quo(delta, r.step) \in 0 .. r.len - 1
RangeEqual(a, b) ==
  /\ a.len = b.len
  /\ a.len # 0 => a.start = b.start
  /\ a.len > 1 => a.step = b.step
-----------------------------------------------------------------------------
(* A wrong list.insert, that adds the length twice to a negative index.    *)
WithInsertedTwice(s, i, x) ==
  LET j == Position(Position(i, Len(s)), Len(s))
  IN  IF j >= Len(s) THEN Append(s, x) ELSE Seqs!InsertAt(s, Seqs!Max({j, 0}) + 1, x)

(* The elements that list.insert, list.pop, list.remove leave; where       *)
(* list.index and list.remove find a value, or -1.                         *)
WithInserted(s, i, x) ==
  LET j == Position(i, Len(s))
  IN  IF j >= Len(s) THEN Append(s, x) ELSE Seqs!InsertAt(s, Seqs!Max({j, 0}) + 1, x)
PopFails(i, n) == Position(i, n) \notin 0 .. n - 1
WithoutAt(s, i) == Seqs!RemoveAt(s, Position(i, Len(s)) + 1)
Found(s, x, lo, hi) ==
  LET b == Indices(lo, hi, Len(s))
      at == {j \in b[1] .. b[2] - 1 : s[j + 1] = x}
  IN  IF at = {} THEN -1 ELSE Seqs!Min(at)
-----------------------------------------------------------------------------
Optional == {<<>>} \cup {<<n>> : n \in IndexArgs}

SlicingInit ==
  /\ \/ \E kind \in {"list", "tuple"}, n \in 0 .. MaxSeq :
          \E elems \in [1 .. n -> Elem] : seq = Plain(kind, elems)
     \/ \E a \in RangeArgs : seq = Range3(a[1], a[2], a[3])
  /\ calls = 0

Replace(s) == calls < Calls /\ calls' = calls + 1 /\ seq' = s
Update(elems) == seq.kind = "list" /\ Len(elems) <= MaxSeq /\ Replace(Plain("list", elems))

TakeSlice ==
  /\ seq.kind \in {"list", "tuple", "range"}
  /\ \E lo, hi, step \in Optional :
       ~SliceFails(lo, hi, step) /\ Replace(Slice(seq, lo, hi, step))

(* The methods of a list that no one iterates over and that is not frozen; *)
(* those that fail change nothing.                                         *)
AppendTo == seq.kind = "list" /\ \E x \in Elem : Update(Append(seq.elems, x))
ExtendBy ==
  seq.kind = "list" /\ \E more \in {seq.elems} \cup {<<x>> : x \in Elem} : Update(seq.elems \o more)
InsertInto ==
  seq.kind = "list" /\ \E i \in IndexArgs, x \in Elem : Update(WithInserted(seq.elems, i, x))
PopFrom ==
  /\ seq.kind = "list"
  /\ \E i \in IndexArgs : ~PopFails(i, Len(seq.elems)) /\ Update(WithoutAt(seq.elems, i))
RemoveFrom ==
  /\ seq.kind = "list"
  /\ \E x \in Elem : /\ Found(seq.elems, x, <<>>, <<>>) # -1
                     /\ Update(Seqs!RemoveAt(seq.elems, Found(seq.elems, x, <<>>, <<>>) + 1))
AssignTo ==
  /\ seq.kind = "list"
  /\ \E i \in IndexArgs, x \in Elem :
       /\ ~IndexFails(i, Len(seq.elems))
       /\ Update([seq.elems EXCEPT ![Position(i, Len(seq.elems)) + 1] = x])
ClearIt == Update(<<>>)

SlicingNext ==
  TakeSlice \/ AppendTo \/ ExtendBy \/ InsertInto \/ PopFrom \/ RemoveFrom \/ AssignTo \/ ClearIt
SlicingSpec == SlicingInit /\ [][SlicingNext]_slicingVars
-----------------------------------------------------------------------------
(* doc/spec.md on slice expressions: with positive stride the effective    *)
(* bounds are those given, n added if negative, moved into 0 .. n, an      *)
(* omitted one being infinite; with negative stride, moved into -1 .. n-1. *)
(* The result has the elements at start, start + stride... until the end   *)
(* is reached or passed.                                                   *)
Effective(v, n, default, lowest, highest) ==
  LET i == IF v = <<>> THEN default ELSE IF v[1] < 0 THEN v[1] + n ELSE v[1]
  IN  IF i < lowest THEN lowest ELSE IF i > highest THEN highest ELSE i
ReachesEnd(p, end, k) == IF k > 0 THEN p >= end ELSE p <= end
Chosen(n, lo, hi, k) ==
  LET start == IF k > 0 THEN Effective(lo, n, 0, 0, n) ELSE Effective(lo, n, n - 1, -1, n - 1)
      end == IF k > 0 THEN Effective(hi, n, n, 0, n) ELSE Effective(hi, n, -1, -1, n - 1)
      count == Seqs!Min({c \in 0 .. n : ReachesEnd(start + c * k, end, k)})
  IN  [j \in 1 .. count |-> start + (j - 1) * k]
Selected(s, lo, hi, k) == LET c == Chosen(Len(s), lo, hi, k) IN [j \in DOMAIN c |-> s[c[j] + 1]]

IsSequence == seq.kind \in {"list", "tuple", "range"}

(* A slice of a list, a tuple or a range, itself perhaps a slice, has the  *)
(* elements that the language specification selects; a range holds what it *)
(* lists, for values of 32 bits; and ranges are equal if they list the     *)
(* same.  (If nothing leaves the width of int: Fits; RangeStep is about    *)
(* what does.)                                                             *)
SlicesExact ==
  IsSequence =>
    /\ \A lo, hi, step \in Optional :
         ~SliceFails(lo, hi, step) =>
           LET s == Slice(seq, lo, hi, step)
           IN  /\ Contents(s) = Selected(Contents(seq), lo, hi, Stride(step))
               /\ seq.kind = "range" => (RangeEqual(seq, s) <=> Contents(seq) = Contents(s))
    /\ seq.kind = "range" =>
         \A v \in {i \in IndexArgs : IsInt32(i)} :
           RangeHas(seq, v) <=> \E j \in DOMAIN Contents(seq) : Contents(seq)[j] = v

Part(lo, hi) == Selected(seq.elems, lo, hi, 1)

(* Indices mean the same to the methods of a list as to its slices:        *)
(* L.insert(i, x) makes L[:i] + [x] + L[i:]; L.pop(i) leaves L[:i] and     *)
(* what follows L[i], and is refused where L[i] is; L.index(x, lo, hi) is  *)
(* the first position of L[lo:hi] at which x is.                           *)
ListsExact ==
  seq.kind = "list" =>
    LET n == Len(seq.elems)
    IN  /\ \A i \in IndexArgs, x \in Elem :
             WithInserted(seq.elems, i, x) = Part(<<>>, <<i>>) \o <<x>> \o Part(<<i>>, <<>>)
        /\ \A i \in IndexArgs :
             LET after == IF i = -1 THEN <<>> ELSE Part(<<i + 1>>, <<>>)
             IN  /\ PopFails(i, n) <=> i \notin -n .. n - 1
                 /\ IsInt32(i) => (IndexFails(i, n) <=> PopFails(i, n))
                 /\ ~PopFails(i, n) => WithoutAt(seq.elems, i) = Part(<<>>, <<i>>) \o after
        /\ \A lo, hi \in Optional, x \in Elem :
             LET at == Found(seq.elems, x, lo, hi)
                 part == Part(lo, hi)
             IN  IF at = -1 THEN \A j \in DOMAIN part : part[j] # x
                 ELSE \E j \in DOMAIN part :
                        /\ part[j] = x /\ \A l \in 1 .. j - 1 : part[l] # x
                        /\ at = Effective(lo, n, 0, 0, n) + j - 1

(* What keeps a program within the width of int: the elements of its       *)
(* ranges lie between -V and V, and the step of a range that was sliced c  *)
(* times between -S[c] and S[c], for a V and an S that leave room for the  *)
(* difference of two elements and for one step past them.                  *)
Limit == 2 ^ (IntBits - 1)
Fits(V, S) ==
  /\ V \in Nat /\ S \in [0 .. Calls + 1 -> Nat]
  /\ \A a \in RangeArgs : a[1] \in -V .. V /\ a[2] \in -V .. V /\ a[3] \in -S[0] .. S[0]
  /\ \A c \in 0 .. Calls :
       /\ S[c] <= S[c + 1]
       /\ \A k \in IndexArgs : IsInt32(k) => S[c] * k \in -S[c + 1] .. S[c + 1]
  /\ \A c \in 0 .. Calls + 1 : 2 * V + S[c] < Limit
  /\ \A v \in IndexArgs : IsInt32(v) => -Limit < v - V /\ v + V < Limit

(* The step of a range never becomes zero (library.go:873: "caller must    *)
(* ensure that step is non-zero"), however it is sliced.                   *)
CallerEnsuresStep == seq.kind # "panic"
=============================================================================
