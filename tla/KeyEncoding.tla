---------------------------- MODULE KeyEncoding ----------------------------
(* The two byte formats of a row: the index key, whose byte order must be the *)
(* order of the values (encoding.rs), and the stored row (row.rs).            *)
(*                                                                            *)
(* A byte is a digit below Base.  An integer takes two bytes, a length one;   *)
(* the code's widths (2, 4, 8 and 4) and its other fixed-width types repeat   *)
(* the integer's case with another tag.                                       *)
EXTENDS SqlValues

CONSTANT Base           \* number of byte values (256); the last is 0xFF

ASSUME BaseAssumption == Base \in Nat /\ Base % 2 = 0 /\ Base > 2

MaxByte == Base - 1
Half == (Base * Base) \div 2

\* The number of an "int" or a "float" is here its bit pattern, signed or with
\* the sign bit first; "other" stands for TIME, JSON, arrays and intervals.

BigEndian(n) == <<n \div Base, n % Base>>
LittleEndian(n) == <<n % Base, n \div Base>>
Unsigned(b) == b[1] * Base + b[2]
Signed(n) == IF n >= Half THEN n - 2 * Half ELSE n

-----------------------------------------------------------------------------
(* encoding.rs                                                                *)

Escape(s) == FlattenSeq([i \in DOMAIN s |-> IF s[i] = 0 THEN <<0, MaxByte>> ELSE <<s[i]>>])

\* A plausible slip: a zero byte is not escaped.
encode_memcomparable_value_unescaped(val) ==
    CASE val.ty = "null"   -> <<1>>
      [] val.ty = "int"    -> <<2>> \o BigEndian((val.n + Half) % (2 * Half))
      [] val.ty = "float"  -> <<2>> \o BigEndian(IF val.n >= Half THEN 2 * Half - 1 - val.n
                                                                  ELSE val.n + Half)
      [] val.ty = "string" -> <<2>> \o val.s \o <<0, 0>>
      [] val.ty = "other"  -> <<MaxByte>>

\* The sign bit is flipped, a negative float is inverted, a string is escaped
\* and ends in two zero bytes; every other type is the one byte 0xFF.
encode_memcomparable_value(val) ==
    CASE val.ty = "null"   -> <<1>>
      [] val.ty = "int"    -> <<2>> \o BigEndian((val.n + Half) % (2 * Half))
      [] val.ty = "float"  -> <<2>> \o BigEndian(IF val.n >= Half THEN 2 * Half - 1 - val.n
                                                                  ELSE val.n + Half)
      [] val.ty = "string" -> <<2>> \o Escape(val.s) \o <<0, 0>>
      [] val.ty = "other"  -> <<MaxByte>>

\* The bytes of an escaped string, and how many of b they take.
RECURSIVE Unescape(_, _)
Unescape(b, i) ==
    CASE i > Len(b)       -> [s |-> <<>>, used |-> i - 1]
      [] b[i] # 0         -> LET r == Unescape(b, i + 1) IN [r EXCEPT !.s = <<b[i]>> \o @]
      [] i = Len(b)       -> [s |-> <<>>, used |-> i]
      [] b[i + 1] = MaxByte -> LET r == Unescape(b, i + 2) IN [r EXCEPT !.s = <<0>> \o @]
      [] b[i + 1] = 0     -> [s |-> <<>>, used |-> i + 1]
      [] OTHER            -> [s |-> <<>>, used |-> i]

\* The value of type ty (the tag tells it) at the front of b and its length.
decode_memcomparable_value(b, ty) ==
    IF b[1] = 1 THEN [val |-> Null, used |-> 1]
    ELSE CASE ty = "int" ->
                [val |-> Number(ty, Signed((Unsigned(SubSeq(b, 2, 3)) + Half) % (2 * Half))), used |-> 3]
           [] ty = "float" ->
                LET u == Unsigned(SubSeq(b, 2, 3))
                IN [val |-> Number(ty, IF u < Half THEN 2 * Half - 1 - u ELSE u - Half), used |-> 3]
           [] ty = "string" ->
                LET r == Unescape(b, 2) IN [val |-> Text(r.s), used |-> r.used]

encode_index_prefix(vals) ==
    FlattenSeq([i \in DOMAIN vals |-> encode_memcomparable_value(vals[i])]) \o <<0>>

encode_composite_index_key(vals, id) == encode_index_prefix(vals) \o BigEndian(id)
encode_index_key_max(vals) == encode_index_prefix(vals) \o <<MaxByte, MaxByte>>

RECURSIVE decode_memcomparable_values(_, _)
decode_memcomparable_values(b, tys) ==
    IF b = <<>> THEN <<>>
    ELSE LET d == decode_memcomparable_value(b, Head(tys))
         IN <<d.val>> \o decode_memcomparable_values(SubSeq(b, d.used + 1, Len(b)), Tail(tys))

decode_composite_index_key(b, tys) ==
    [vals |-> decode_memcomparable_values(SubSeq(b, 1, Len(b) - 3), tys),
     id   |-> Unsigned(SubSeq(b, Len(b) - 1, Len(b)))]

-----------------------------------------------------------------------------
(* row.rs                                                                     *)

encode_value(val) ==
    CASE val.ty = "null"   -> <<0>>
      [] val.ty = "int"    -> <<1>> \o LittleEndian((val.n + 2 * Half) % (2 * Half))
      [] val.ty = "float"  -> <<2>> \o LittleEndian(val.n)
      [] val.ty = "string" -> <<3, Len(val.s)>> \o val.s

decode_value(b) ==
    CASE b[1] = 0 -> [val |-> Null, used |-> 1]
      [] b[1] = 1 -> [val |-> Number("int", Signed(Unsigned(<<b[3], b[2]>>))), used |-> 3]
      [] b[1] = 2 -> [val |-> Number("float", Unsigned(<<b[3], b[2]>>)), used |-> 3]
      [] b[1] = 3 -> [val |-> Text(SubSeq(b, 3, 2 + b[2])), used |-> 2 + b[2]]

\* A magic byte, the number of values, the values.
to_bytes(vals) == <<MaxByte, Len(vals)>> \o FlattenSeq([i \in DOMAIN vals |-> encode_value(vals[i])])

RECURSIVE DecodeValues(_, _)
DecodeValues(b, n) ==
    IF n = 0 THEN <<>>
    ELSE LET d == decode_value(b) IN <<d.val>> \o DecodeValues(SubSeq(b, d.used + 1, Len(b)), n - 1)

from_bytes(b) == DecodeValues(SubSeq(b, 3, Len(b)), b[2])

-----------------------------------------------------------------------------
(* The orders the formats have to agree with.                                 *)

ByteLess(x, y) ==
    \/ \E i \in DOMAIN x : /\ i \in DOMAIN y /\ x[i] < y[i]
                           /\ \A j \in 1 .. i - 1 : x[j] = y[j]
    \/ Len(x) < Len(y) /\ SubSeq(y, 1, Len(x)) = x

\* NULL first, then numbers by size (a float's negatives run backwards), strings by bytes.
ValueLess(a, b) ==
    CASE a.ty = "null"   -> b.ty # "null"
      [] b.ty = "null"   -> FALSE
      [] a.ty = "int"    -> a.n < b.n
      [] a.ty = "float"  -> LET num(n) == IF n >= Half THEN Half - 1 - n ELSE n IN num(a.n) < num(b.n)
      [] a.ty = "string" -> ByteLess(a.s, b.s)

KeyLess(vs, i, ws, j) ==
    \/ \E k \in DOMAIN vs : /\ ValueLess(vs[k], ws[k])
                            /\ \A m \in 1 .. k - 1 : vs[m] = ws[m]
    \/ vs = ws /\ i < j

\* Two keys of an index compare, as bytes, as their values and then their row ids
\* do; the prefix and key_max of a value bracket exactly the keys of that value,
\* which is what equality and range scans rely on; and a key gives back its
\* values and its row id (encode_index_prefix, encode_index_key_max, decode).
KeyLaw(vs, i, ws, j, tys) ==
    LET a == encode_composite_index_key(vs, i)
        b == encode_composite_index_key(ws, j)
    IN /\ ByteLess(a, b) <=> KeyLess(vs, i, ws, j)
       /\ IsPrefix(encode_index_prefix(ws), a) <=> vs = ws
       /\ (ByteLess(encode_index_prefix(ws), a) /\ ~ByteLess(encode_index_key_max(ws), a)) <=> vs = ws
       /\ decode_composite_index_key(a, tys) = [vals |-> vs, id |-> i]

\* A stored row is read back value for value, strings with any bytes included.
RowLaw(vs) == from_bytes(to_bytes(vs)) = vs
=============================================================================
