-------------------------------- MODULE Sstl --------------------------------
(***************************************************************************)
(* The sstl serializer (src/src/util/sstl.hpp): the byte format written by *)
(* the traverse<writing> specialisations and the cursor-driven reader      *)
(* (context_data::skip, drop, read_size and the traverse<reading>          *)
(* specialisations), applied the way ssdb::umap applies it: a record is    *)
(* the key followed by the value, saved by one version of the program and  *)
(* loaded by another.                                                      *)
(*                                                                         *)
(* A type is a record: [k |-> "bool"], [k |-> "int", w |-> sizeof(T)],     *)
(* [k |-> "size"] (size_type), [k |-> "str"] (a byte string),              *)
(* [k |-> "ptr"] (unique_ptr), [k |-> "vec", of |-> T] (vector of a        *)
(* complex T), [k |-> "set", of |-> T] (std::set of integers), and         *)
(* [k |-> "doc", f |-> items] for a class whose serialize  *)
(* calls ctx on each item in order; an item is a type, [k |-> "null"]      *)
(* (ctx.null()) or [k |-> "name", s |-> bytes] (ctx.name(str)).            *)
(* A buffer is a sequence of bytes (0..255); a cursor is the offset of     *)
(* context_data::begin from the start of the buffer, end is Len(buf).     *)
(***************************************************************************)
EXTENDS Integers, Sequences, SequencesExt

CONSTANTS
  Versions,   \* the value's serialize() of each program version: doc types
  KeyType,    \* the type of the map's key
  Keys,       \* keys the program saves
  IntVals,    \* candidate integer values (each type keeps those that fit)
  StrVals,    \* byte strings the program saves
  MaxElems,   \* longest vector the program saves
  max_level   \* context_data::max_level(): 128 in the code

\* enum class byte (sstl.hpp:140-154)
TERM  == 0
DOC   == 1
BFALSE == 2
BTRUE == 3
U8V   == 4
U8S   == 5
U32V  == 6
U32S  == 7
U64V  == 8
U64S  == 9
NULLV == 31
Sized  == {U8S, U32S, U64S}
Valued == {U8V, U32V, U64V}

\* A value read into uninitialised storage: any value of the type.
Indeterminate == -1
\* A placeholder value for the items that carry no data (null, name, ptr).
None == "none"
SizeT == [k |-> "size"]

(***************************************************************************)
(* Numbers on the wire are big-endian (std::be_t).                         *)
(***************************************************************************)
BE(v, w) == [i \in 1..w |-> (v \div (256 ^ (w - i))) % 256]

RECURSIVE BEVal(_)
BEVal(s) == IF s = <<>> THEN 0 ELSE BEVal(Front(s)) * 256 + Last(s)

\* remaining(): end - begin as size_t; a cursor past end wraps it to a
\* value larger than any buffer.
Remaining(buf, p) == IF p <= Len(buf) THEN Len(buf) - p ELSE 2 ^ 30

\* read(out, n): the cursor after it; on EOF begin = end.
ReadRaw(buf, p, n) == IF Remaining(buf, p) >= n THEN p + n ELSE Len(buf)

\* The width of the size that follows a type byte.
SizeWidth(t) == CASE t \in {U8V, U8S} -> 1 [] t \in {U32V, U32S} -> 4 [] OTHER -> 8

(***************************************************************************)
(* read_size(type): the size and the cursor after it; a size beyond the    *)
(* remaining data (or an EOF inside the size) aborts with begin = end and  *)
(* size 0.                                                                 *)
(***************************************************************************)
read_size(buf, p, t) ==
  LET w == SizeWidth(t)
      n == BEVal(SubSeq(buf, p + 1, p + w))
  IN  IF Remaining(buf, p) >= w /\ Remaining(buf, p + w) >= n
        THEN [p |-> p + w, n |-> n]
        ELSE [p |-> Len(buf), n |-> 0]

(***************************************************************************)
(* skip(level): skips one value (level 0) or to the end of the current     *)
(* document (level 1).  Metadata bytes (0x20 and above) are passed over    *)
(* without ending a value, reserved bytes (0x0A..0x1E) abort.              *)
(***************************************************************************)
SkipValue(buf, q, b) ==
  CASE b = U8V   -> ReadRaw(buf, q, 1)
    [] b = U32V  -> ReadRaw(buf, q, 4)
    [] b = U64V  -> ReadRaw(buf, q, 8)
    [] b \in Sized -> LET rs == read_size(buf, q, b) IN rs.p + rs.n
    [] OTHER     -> q

LevelAfter(level, b) ==
  CASE b = TERM -> level - 1 [] b = DOC -> level + 1 [] OTHER -> level

RECURSIVE skip(_, _, _)
skip(buf, p, level) ==
  IF ~(p < Len(buf) /\ (level # 0 \/ buf[p + 1] # TERM)) THEN p
  ELSE LET b == buf[p + 1] IN
       IF b > NULLV THEN skip(buf, p + 1, level)
       ELSE IF b > U64S /\ b < NULLV THEN Len(buf)
       ELSE LET q == SkipValue(buf, p + 1, b)
                l == LevelAfter(level, b)
            IN  IF l = 0 THEN q ELSE skip(buf, q, l)

\* drop(): skips every value up to the current document's terminator.
RECURSIVE drop(_, _)
drop(buf, p) ==
  IF p < Len(buf) /\ buf[p + 1] # TERM THEN drop(buf, skip(buf, p, 0)) ELSE p

(***************************************************************************)
(* Writing.  size_type::type_sized/type_value and operator+=(size_type):   *)
(* a size below 256 is one byte, otherwise a big-endian u32 (sizes in the  *)
(* model are far below 2^32, so the u64 form never arises).                *)
(***************************************************************************)
TypeSized(n) == IF n < 256 THEN U8S ELSE U32S
TypeValue(n) == IF n < 256 THEN U8V ELSE U32V
SizeBytes(n) == IF n < 256 THEN <<n>> ELSE BE(n, 4)

\* write_sized(data, size): zero size is bit_false.
write_sized(data) ==
  IF data = <<>> THEN <<BFALSE>>
  ELSE <<TypeSized(Len(data))>> \o SizeBytes(Len(data)) \o data

\* traverse<simple>::my_type, chosen by sizeof(T).
MyType(w) == CASE w = 1 -> U8V [] w = 4 -> U32V [] w = 8 -> U64V
                [] OTHER -> IF w < 256 THEN U8S ELSE U32S
IsSizedType(w) == MyType(w) \in {U8S, U32S}

\* traverse<simple>: writing; zero is bit_false (sstl.hpp:781-800).
EncInt(w, v) ==
  IF v = 0 THEN <<BFALSE>>
  ELSE IF IsSizedType(w) THEN write_sized(BE(v, w))
  ELSE <<MyType(w)>> \o BE(v, w)

\* traverse<bool>: writing (sstl.hpp:852-855).
EncBool(v) == <<IF v THEN BTRUE ELSE BFALSE>>

\* traverse<size_type>: writing (sstl.hpp:884-898).
EncSize(n) == IF n = 0 THEN <<BFALSE>> ELSE <<TypeValue(n)>> \o SizeBytes(n)

\* traverse_container_simple of bytes: writing (sstl.hpp:562-573).
EncStr(s) == IF s = <<>> THEN <<BFALSE>> ELSE write_sized(s)

\* null() and the unique_ptr/shared_ptr traverses write a null value.
EncNull == <<NULLV>>

RECURSIVE Enc(_, _), EncDoc(_, _), EncVec(_, _), EncSet(_, _), EncDeque(_, _)

\* traverse<class>: writing (sstl.hpp:735-741): the items between a
\* document byte and a terminator; null() writes a null value, name() the
\* bytes of the name.
EncDoc(t, v) == <<DOC>> \o FlattenSeq([i \in DOMAIN t.f |-> Enc(t.f[i], v[i])]) \o <<TERM>>

\* traverse_container: writing (sstl.hpp:513-527) with the vector's lambda
\* (sstl.hpp:1068-1078): the count, then every element.
EncVec(t, v) ==
  IF v = <<>> THEN <<BFALSE>>
  ELSE <<DOC>> \o EncSize(Len(v)) \o FlattenSeq([i \in DOMAIN v |-> Enc(t.of, v[i])])
       \o <<TERM>>

\* traverse<std::set>: writing (sstl.hpp:1139-1147): the count, then every
\* key in the set's (ascending) order, inside traverse_container.
EncSet(t, v) ==
  IF v = {} THEN <<BFALSE>>
  ELSE LET ks == SetToSortSeq(v, LAMBDA a, b : a < b)
       IN  <<DOC>> \o EncSize(Cardinality(v))
           \o FlattenSeq([i \in DOMAIN ks |-> Enc(t.of, ks[i])]) \o <<TERM>>

\* traverse<std::deque>: writing (sstl.hpp:1118-1124): every element, with
\* no count before them, inside traverse_container.
EncDeque(t, v) ==
  IF v = <<>> THEN <<BFALSE>>
  ELSE <<DOC>> \o FlattenSeq([i \in DOMAIN v |-> Enc(t.of, v[i])]) \o <<TERM>>

\* context_data::traverse: the specialisation for the type.
Enc(t, v) ==
  CASE t.k = "bool" -> EncBool(v)
    [] t.k = "int"  -> EncInt(t.w, v)
    [] t.k = "size" -> EncSize(v)
    [] t.k = "str"  -> EncStr(v)
    [] t.k \in {"ptr", "null"} -> EncNull
    [] t.k = "name" -> t.s
    [] t.k = "doc"  -> EncDoc(t, v)
    [] t.k = "vec"  -> EncVec(t, v)
    [] t.k = "set"  -> EncSet(t, v)
    [] t.k = "deque" -> EncDeque(t, v)

(***************************************************************************)
(* The value a default-constructed object of the type holds.               *)
(***************************************************************************)
RECURSIVE Default(_)
Default(t) ==
  CASE t.k = "bool" -> FALSE
    [] t.k \in {"int", "size"} -> 0
    [] t.k \in {"str", "vec", "deque"} -> <<>>
    [] t.k = "set"  -> {}
    [] t.k = "doc"  -> [i \in DOMAIN t.f |-> Default(t.f[i])]
    [] OTHER        -> None

(***************************************************************************)
(* Reading.  Every reader returns [v |-> the object, p |-> the cursor].    *)
(* The object starts as the caller's (a default-constructed one in umap),  *)
(* and a reader that finds no value of its own leaves it as it is.         *)
(***************************************************************************)
Res(v, p) == [v |-> v, p |-> p]

\* The common tail of the readers: a null value is stepped over, anything
\* else ends the document (drop()).
NullOrDrop(v, buf, p) ==
  IF buf[p + 1] = NULLV THEN Res(v, p + 1) ELSE Res(v, drop(buf, p))

\* read(&data, sizeof(T)) into an uninitialised data_type.
ReadData(buf, p, w) ==
  IF Remaining(buf, p) >= w THEN Res(BEVal(SubSeq(buf, p + 1, p + w)), p + w)
  ELSE Res(Indeterminate, Len(buf))

\* traverse<simple>: reading (sstl.hpp:802-843).
ReadInt(w, v, buf, p) ==
  LET b == buf[p + 1] IN
  IF b = BFALSE THEN Res(0, p + 1)
  ELSE IF b = MyType(w) /\ IsSizedType(w) THEN
         LET rs == read_size(buf, p + 1, b) IN
         IF rs.n = w THEN ReadData(buf, rs.p, w)
         ELSE Res(v, drop(buf, rs.p + w))
  ELSE IF b = MyType(w) THEN ReadData(buf, p + 1, w)
  ELSE NullOrDrop(v, buf, p)

\* traverse<size_type>: reading (sstl.hpp:900-924).
ReadSize(v, buf, p) ==
  LET b == buf[p + 1] IN
  IF b = BFALSE THEN Res(0, p + 1)
  ELSE IF b \in Valued THEN LET rs == read_size(buf, p + 1, b) IN Res(rs.n, rs.p)
  ELSE NullOrDrop(v, buf, p)

\* traverse_container_simple of bytes: reading (sstl.hpp:589-637).
ReadStr(v, buf, p) ==
  LET b == buf[p + 1] IN
  IF b = BFALSE THEN Res(<<>>, p + 1)
  ELSE IF b \in Sized THEN
         LET rs == read_size(buf, p + 1, b)
         IN  Res(SubSeq(buf, rs.p + 1, rs.p + rs.n), rs.p + rs.n)
  ELSE NullOrDrop(v, buf, p)

\* traverse<bool>: reading (sstl.hpp:858-875).
ReadBool(v, buf, p) ==
  LET b == buf[p + 1] IN
  IF b \in {BFALSE, BTRUE} THEN Res(b = BTRUE, p + 1)
  ELSE NullOrDrop(v, buf, p)

\* context::name(str): reading (sstl.hpp:700-710).
ReadName(s, v, buf, p) ==
  IF Remaining(buf, p) >= Len(s) /\ SubSeq(buf, p + 1, p + Len(s)) = s
    THEN Res(v, p + Len(s))
    ELSE Res(v, drop(buf, p))

\* Where a read element goes: the vector's and the deque's emplace_back, or
\* the set's emplace_hint, which keeps one copy of a key.
Insert(t, v, x) == IF t.k \in {"vec", "deque"} THEN Append(v, x) ELSE v \cup {x}

RECURSIVE Dec(_, _, _, _, _), DecFields(_, _, _, _, _, _), DecElems(_, _, _, _, _),
          DecDoc(_, _, _, _, _), DecContainer(_, _, _, _), ReadDoc(_, _, _, _, _),
          ReadContainer(_, _, _, _, _)

\* context::operator()(a, b, ...): the items of a document in order, each
\* read by its own reader at the level the document reached.
DecFields(f, v, buf, p, lvl, i) ==
  IF i > Len(f) THEN Res(v, p)
  ELSE LET r == Dec(f[i], v[i], buf, p, lvl)
       IN  DecFields(f, [v EXCEPT ![i] = r.v], buf, r.p, lvl, i + 1)

\* The container's `while (ctx)` loop, with operator bool: not at the end
\* and not at a terminator; each element is read into a default one.
DecElems(t, v, buf, p, lvl) ==
  IF p < Len(buf) /\ buf[p + 1] # TERM
    THEN LET r == Dec(t.of, Default(t.of), buf, p, lvl)
         IN  DecElems(t, Insert(t, v, r.v), buf, r.p, lvl)
    ELSE Res(v, p)

\* Mutant: the level check admits a document at max_level.
DecDocAtMaxLevel(t, v, buf, p, lvl) ==
  IF lvl + 1 <= max_level
    THEN LET r == DecFields(t.f, v, buf, p, lvl + 1, 1) IN Res(r.v, skip(buf, r.p, 1))
    ELSE Res(v, skip(buf, p, 1))

\* A document after its DOC byte: serialize only below max_level, then
\* skip(1) to just past its terminator.
DecDoc(t, v, buf, p, lvl) ==
  IF lvl + 1 < max_level
    THEN LET r == DecFields(t.f, v, buf, p, lvl + 1, 1) IN Res(r.v, skip(buf, r.p, 1))
    ELSE Res(v, skip(buf, p, 1))

\* The container's lambda after its DOC byte (the vector's at
\* sstl.hpp:1068-1083, the set's at 1139-1155, the deque's at 1118-1130):
\* the count into a local size_type (the deque has none), the elements up
\* to the terminator; then skip(1).
DecContainer(t, buf, p, lvl) ==
  IF lvl + 1 < max_level
    THEN LET n == IF t.k = "deque" THEN Res(0, p) ELSE Dec(SizeT, 0, buf, p, lvl + 1)
             r == DecElems(t, Default(t), buf, n.p, lvl + 1)
         IN  Res(r.v, skip(buf, r.p, 1))
    ELSE Res(Default(t), skip(buf, p, 1))

\* traverse<class>: reading (sstl.hpp:744-766).
ReadDoc(t, v, buf, p, lvl) ==
  IF Remaining(buf, p) = 0 THEN Res(v, p)
  ELSE IF buf[p + 1] = DOC THEN DecDoc(t, v, buf, p + 1, lvl)
  ELSE NullOrDrop(v, buf, p)

\* traverse_container: reading (sstl.hpp:529-556): a document or bit_false
\* clears the container first.
ReadContainer(t, v, buf, p, lvl) ==
  IF Remaining(buf, p) = 0 THEN Res(v, p)
  ELSE IF buf[p + 1] = DOC THEN DecContainer(t, buf, p + 1, lvl)
  ELSE IF buf[p + 1] = BFALSE THEN Res(Default(t), p + 1)
  ELSE NullOrDrop(v, buf, p)

\* null() and the pointer traverses read by skipping one value: skip(0).
ReadSkipped(v, buf, p) == Res(v, skip(buf, p, 0))

\* context_data::traverse: the specialisation for the type.
Dec(t, v, buf, p, lvl) ==
  CASE t.k \in {"ptr", "null"} -> ReadSkipped(v, buf, p)
    [] t.k = "name" -> ReadName(t.s, v, buf, p)
    [] t.k = "int"  -> IF p < Len(buf) THEN ReadInt(t.w, v, buf, p) ELSE Res(v, p)
    [] t.k = "bool" -> IF Remaining(buf, p) = 0 THEN Res(v, p) ELSE ReadBool(v, buf, p)
    [] t.k = "size" -> IF Remaining(buf, p) = 0 THEN Res(v, p) ELSE ReadSize(v, buf, p)
    [] t.k = "str"  -> IF Remaining(buf, p) = 0 THEN Res(v, p) ELSE ReadStr(v, buf, p)
    [] t.k = "doc"  -> ReadDoc(t, v, buf, p, lvl)
    [] t.k \in {"vec", "set", "deque"} -> ReadContainer(t, v, buf, p, lvl)

(***************************************************************************)
(* The values a program version saves: integers that fit the type, the     *)
(* given byte strings, vectors of at most MaxElems elements.               *)
(***************************************************************************)
RECURSIVE Values(_), FieldValues(_)
FieldValues(f) ==
  IF f = <<>> THEN {<<>>}
  ELSE {Append(s, x) : s \in FieldValues(Front(f)), x \in Values(Last(f))}

Values(t) ==
  CASE t.k = "bool" -> BOOLEAN
    [] t.k = "int"  -> {x \in IntVals : x \div (256 ^ (t.w - 1)) < 256}
    [] t.k = "str"  -> StrVals
    [] t.k = "doc"  -> FieldValues(t.f)
    [] t.k \in {"vec", "deque"} -> SeqOf(Values(t.of), MaxElems)
    [] t.k = "set"  -> SUBSET Values(t.of)
    [] OTHER        -> {None}

(***************************************************************************)
(* The record of ssdb::umap: the key, then the value.                      *)
(***************************************************************************)
VARIABLES
  ver,   \* the version whose serialize() wrote the stored record
  key,   \* the key it saved
  val,   \* the value it saved
  rec,   \* the record's bytes, as sstl::save returned them
  rver,  \* the version that loaded the record last
  out    \* {} before a load; then {what it produced: key, value, cursor}

vars == <<ver, key, val, rec, rver, out>>

\* umap::write (ssdb.hpp:312-316) of the entry the last load produced: the
\* loading version saves the key and value it holds; sstl::save probes the
\* size, then writes ctx(key) and ctx(value) into a buffer of that size.
Save(o) ==
  /\ ver' = rver /\ key' = o.key /\ val' = o.val
  /\ rec' = Enc(KeyType, o.key) \o Enc(rver, o.val)
  /\ out' = {}
  /\ UNCHANGED rver

\* The map holds a record some version saved.
Init == \E w \in Versions, k \in Keys : \E x \in Values(w) :
          /\ ver = w /\ key = k /\ val = x
          /\ rec = Enc(KeyType, k) \o Enc(w, x)
          /\ rver = w /\ out = {}

\* umap's reload (ssdb.hpp:237-258): a context_data over the record, the
\* key read into K key{}, then the value into pair.second = {}, at level 0.
Load(r) ==
  /\ LET kr == Dec(KeyType, Default(KeyType), rec, 0, 0)
         vr == Dec(r, Default(r), rec, kr.p, 0)
     IN  out' = {[key |-> kr.v, val |-> vr.v, p |-> vr.p]}
  /\ rver' = r
  /\ UNCHANGED <<ver, key, val, rec>>

Next == \/ \E o \in out : Save(o)
        \/ \E r \in Versions : Load(r)

Spec == Init /\ [][Next]_vars

-----------------------------------------------------------------------------
(***************************************************************************)
(* The compatibility the header of sstl.hpp promises, as a definition over *)
(* types rather than bytes.  Two versions of an item match when they are   *)
(* the same kind of item (a document matches any version of itself).  A    *)
(* reader version rt of a record written by version wt gets, for each of   *)
(* its items, the written value when the writer has a matching item at     *)
(* that position, and the default otherwise (items added later, or deleted *)
(* and replaced by null); documents and vectors that would be read at      *)
(* max_level or deeper keep their default.                                 *)
(***************************************************************************)
RECURSIVE Matches(_, _)
Matches(rt, wt) ==
  /\ rt.k = wt.k
  /\ rt.k = "int"  => rt.w = wt.w
  /\ rt.k = "name" => rt.s = wt.s
  /\ rt.k \in {"vec", "set", "deque"} => Matches(rt.of, wt.of)

RECURSIVE Expect(_, _, _, _)
Expect(rt, wt, v, lvl) ==
  CASE rt.k = "doc" ->
         IF lvl + 1 < max_level
           THEN [i \in DOMAIN rt.f |->
                   IF i \in DOMAIN wt.f /\ Matches(rt.f[i], wt.f[i])
                     THEN Expect(rt.f[i], wt.f[i], v[i], lvl + 1)
                     ELSE Default(rt.f[i])]
           ELSE Default(rt)
    [] rt.k \in {"vec", "deque"} ->
         IF lvl + 1 < max_level
           THEN [i \in DOMAIN v |-> Expect(rt.of, wt.of, v[i], lvl + 1)]
           ELSE <<>>
    [] rt.k = "set" -> IF lvl + 1 < max_level THEN v ELSE {}
    [] OTHER -> v

(***************************************************************************)
(* Loading a record saved by any version, older, newer or the same, gives *)
(* the key that was saved and the value the compatibility rules of the     *)
(* sstl.hpp header promise, and leaves the cursor exactly at the end of    *)
(* the record: skip, drop, read_size and every reader agree with the       *)
(* writer on where each value ends, metadata and payload bytes that look   *)
(* like type codes included.                                               *)
(***************************************************************************)
LoadContract ==
  \A o \in out :
    /\ o.key = key
    /\ o.val = Expect(rver, ver, val, 0)
    /\ o.p = Len(rec)

=============================================================================
