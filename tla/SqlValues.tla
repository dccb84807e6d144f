----------------------------- MODULE SqlValues -----------------------------
(* SQL values and how they compare (value.rs).                                *)
(*                                                                            *)
(* A value is [ty, n, s]: its type, its number and its text.  A number is     *)
(* counted in halves, so that 1 is the double 0.5 and every integer is even;  *)
(* floats hold every integer below F64Exact.                                  *)
EXTENDS Integers, Sequences, SequencesExt

CONSTANT F64Exact       \* the first power of two at which f64 skips integers (2^53)

Number(ty, n) == [ty |-> ty, n |-> n, s |-> <<>>]
Text(s) == [ty |-> "string", n |-> 0, s |-> s]
Null == [ty |-> "null", n |-> 0, s |-> <<>>]

Numbers == {"int", "bigint", "double", "decimal"}
is_numeric(a) == a.ty \in Numbers

\* The number a text reads as, in halves; a text that is none reads as NaN.
NaN == -1000000
ParseNumber(s) == CASE s = <<"1">> -> 2 [] s = <<"2">> -> 4 [] OTHER -> NaN

Truncate(h) == IF h >= 0 THEN 2 * (h \div 2) ELSE -2 * ((-h) \div 2)

to_i64(a) == CASE is_numeric(a) -> Truncate(a.n)
               [] a.ty = "string" -> ParseNumber(a.s)
               [] OTHER -> NaN

\* A float near 2^53 keeps only even integers.
RoundF64(h) == IF h >= 2 * F64Exact THEN 4 * (h \div 4) ELSE h

to_f64(a) == CASE is_numeric(a) -> RoundF64(a.n)
               [] a.ty = "string" -> ParseNumber(a.s)
               [] OTHER -> NaN

to_decimal(a) == CASE is_numeric(a) -> a.n
                   [] a.ty = "string" -> ParseNumber(a.s)
                   [] OTHER -> NaN

Order(x, y) == CASE x = NaN \/ y = NaN -> "none"
                 [] x < y -> "lt" [] x = y -> "eq" [] OTHER -> "gt"

\* A plausible slip: mixed numbers are compared as integers.
compare_numeric_as_i64(a, b) == Order(to_i64(a), to_i64(b))

compare_numeric(a, b) ==
    CASE "decimal" \in {a.ty, b.ty} -> Order(to_decimal(a), to_decimal(b))
      [] "double" \in {a.ty, b.ty}  -> Order(to_f64(a), to_f64(b))
      [] OTHER                      -> Order(to_i64(a), to_i64(b))

TextLess(x, y) ==
    LET rank(c) == CHOOSE i \in 1 .. 4 : <<"1", "2", "a", "b">>[i] = c
    IN \/ \E i \in DOMAIN x \intersect DOMAIN y :
             rank(x[i]) < rank(y[i]) /\ \A j \in 1 .. i - 1 : x[j] = y[j]
       \/ Len(x) < Len(y) /\ IsPrefix(x, y)

\* PartialOrd: NULL below everything, a text against a number by what it reads as.
partial_cmp(a, b) ==
    CASE a.ty = "null" /\ b.ty = "null" -> "eq"
      [] a.ty = "null" -> "lt"
      [] b.ty = "null" -> "gt"
      [] a.ty = "string" /\ b.ty = "string" ->
           IF a.s = b.s THEN "eq" ELSE IF TextLess(a.s, b.s) THEN "lt" ELSE "gt"
      [] a.ty = "interval" /\ b.ty = "interval" -> Order(a.n, b.n)
      [] a.ty = b.ty /\ is_numeric(a) -> Order(a.n, b.n)
      [] OTHER -> compare_numeric(a, b)

\* PartialEq: intervals, and a text and a number, are never equal.
eq(a, b) ==
    CASE a.ty = "null" /\ b.ty = "null" -> TRUE
      [] a.ty = "string" /\ b.ty = "string" -> a.s = b.s
      [] a.ty = b.ty /\ is_numeric(a) -> a.n = b.n
      [] is_numeric(a) /\ is_numeric(b) -> compare_numeric(a, b) = "eq"
      [] OTHER -> FALSE

\* The comparison operators of an expression.
evaluate_binary_op(a, op, b) ==
    CASE op = "="  -> eq(a, b)
      [] op = "<>" -> ~eq(a, b)
      [] op = "<"  -> partial_cmp(a, b) = "lt"
      [] op = "<=" -> partial_cmp(a, b) \in {"lt", "eq"}
      [] op = ">"  -> partial_cmp(a, b) = "gt"
      [] op = ">=" -> partial_cmp(a, b) \in {"gt", "eq"}

Between(x, low, high) == evaluate_binary_op(x, ">=", low) /\ evaluate_binary_op(x, "<=", high)
InList(x, list) == \E i \in DOMAIN list : eq(x, list[i])
=============================================================================
