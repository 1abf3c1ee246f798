------------------------------- MODULE MCSstl -------------------------------
(***************************************************************************)
(* Three versions of a class saved through ssdb::umap, evolved the way the *)
(* sstl.hpp header allows: items are only appended, a deleted item is      *)
(* replaced by ctx.null(), and an added item may be preceded by a name.    *)
(* The nested class evolves too, so that an older reader must skip a name  *)
(* and a value inside a document and then go on reading after it.         *)
(***************************************************************************)
EXTENDS Sstl

I16  == [k |-> "int", w |-> 2]
I8   == [k |-> "int", w |-> 1]
Bool == [k |-> "bool"]
Str  == [k |-> "str"]
Null == [k |-> "null"]
Name == [k |-> "name", s |-> <<67>>]

\* the nested class: ctx(x, s), later ctx(x, s); ctx.name("C"); ctx(c)
Elem1 == [k |-> "doc", f |-> <<I8, Str>>]
Elem2 == [k |-> "doc", f |-> <<I8, Str, Name, Bool>>]

\* version 1: ctx(a, b, h, c)
V1 == [k |-> "doc", f |-> <<I16, Bool, Elem1, Str>>]
\* version 2: b deleted (ctx.null()), the vector d added
V2 == [k |-> "doc", f |-> <<I16, Null, Elem1, Str, [k |-> "vec", of |-> Elem1]>>]
\* version 3: the nested class evolved, a pointer and a std::set added
V3 == [k |-> "doc", f |-> <<I16, Null, Elem2, Str, [k |-> "vec", of |-> Elem2],
                            [k |-> "ptr"], [k |-> "set", of |-> I8]>>]

MCVersions == {V1, V2, V3}
\* 287 is the bytes 0x01 0x1F (document, null); 32 is a metadata byte.
MCIntVals == {0, 32, 287}
\* A string holding a terminator and a null byte.
MCStrVals == {<<>>, <<0, 31>>}
\* The map's key: a std::deque<std::string>, which is written without a
\* count; its first string holds a metadata byte and a terminator, its
\* second is empty and written as a false byte.
DequeKey == [k |-> "deque", of |-> Str]
MCKeys == {<<<<32, 0>>, <<>>>>}
====
