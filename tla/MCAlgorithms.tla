---------------------------- MODULE MCAlgorithms ----------------------------
(* The pure algorithms over bounded inputs: every sample is an initial state  *)
(* of MCSql, and the sample "tree" runs the B-tree.                           *)
EXTENDS BTree, KeyEncoding, SqlFunctions

VARIABLE sample

\* Keys of the tree: prefixes of one another among them.
MCKeys == {<<0>>, <<0, 0>>, <<0, 1>>, <<1>>, <<1, 0>>, <<1, 0, 1>>, <<2>>}

\* A composite index over an INTEGER or a string, then a float; row ids 0 and 255-like.
Ints == {Number("int", n) : n \in {-Half, -1, 0, 1, Half - 1}} \union {Null}
Floats == {Number("float", n) : n \in {0, 1, Half - 1, Half, Half + 1, 2 * Half - 1}}
Strings == {Text(s) : s \in UNION {[1 .. n -> {0, 1, MaxByte}] : n \in 0 .. 2}}
Columns == [k : {"key"}, v : Ints \X Floats, w : Ints \X Floats, tys : {<<"int", "float">>}]
           \union [k : {"key"}, v : Strings \X Strings, w : {<<x, y>> : x \in Strings, y \in {Null}}
                                                            \union {<<x, x>> : x \in Strings},
                   tys : {<<"string", "string">>}]

Rows == [k : {"row"}, vals : UNION {[1 .. n -> Ints \union {Number("float", Half + 1), Text(<<0, MaxByte>>),
                                                            Text(<<>>)}] : n \in 0 .. 3}]

SomeValues == {Number("int", 2), Number("bigint", 4), Number("double", 3), Number("double", 2), Number("decimal", 3),
              Number("bigint", 2 * F64Exact + 2), Number("double", 2 * F64Exact), Null, Number("interval", 1),
              Text(<<"1">>), Text(<<"a">>), Text(<<>>)}
Comparisons == [k : {"compare"}, a : SomeValues, b : SomeValues, c : SomeValues]

Sums == [k : {"arithmetic"}, l : MinInt .. -MinInt - 1, r : MinInt .. -MinInt - 1]

Words(chars, n) == UNION {[1 .. m -> chars] : m \in 0 .. n}
TextArgs == [k : {"text"}, s : Words({"a", "b"}, 3), t : Words({"a", "%"}, 2) \union {<<"b", "a">>}, n : 0 .. 4]
Fields == [k : {"format"}, s : Words({"a", ",", "\"", "'", ";"}, 2), t : Words({"\"", "'", ";"}, 2) \union {<<"\\">>, <<"\n">>}]

Years == {1900, 1999, 2000, 2023, 2024}
DateArgs == [k : {"date"}, d : {d \in [y : Years, m : {1, 2, 3, 12}, d : {1, 28, 29, 30, 31}] :
                                    d.d <= days_in_month(d.y, d.m)},
             iv : [months : {-13, -1, 0, 1, 12, 25}, days : {-1, 0, 30}, ticks : {-1, 0, DayTicks + 1}]]

Samples == Columns \union Rows \union Comparisons \union Sums \union TextArgs \union Fields \union DateArgs
           \union {[k |-> "tree"]}

AlgorithmsInit == BTreeInit /\ sample \in Samples
AlgorithmsNext == sample.k = "tree" /\ BTreeNext /\ UNCHANGED sample

-----------------------------------------------------------------------------

\* The byte order of index keys is the order of the values and row ids; keys, stored
\* rows, CSV fields and scripts of literals give back what they were made of; and the text
\* functions fit together (encoding.rs, Row::to_bytes, Row::from_bytes, helpers.rs,
\* expression.rs).
EncodingsReadBack ==
    /\ sample.k = "key" => \A i, j \in {0, Base * Base - 1} : KeyLaw(sample.v, i, sample.w, j, sample.tys)
    /\ sample.k = "row" => RowLaw(sample.vals)
    /\ sample.k = "text" => TextLaw(sample.s, sample.t, sample.n)
    /\ sample.k = "format" => FormatLaw(sample.s, sample.t)

\* Comparison is one total order wherever it is decided; INTEGER arithmetic is arithmetic
\* modulo 2^Width; date arithmetic follows the calendar (value.rs, evaluate_binary_op,
\* evaluate_arithmetic_op, add_interval_to_date).
ValuesCompareAndCompute ==
    /\ sample.k = "compare" => CompareLaw(sample.a, sample.b, sample.c)
    /\ sample.k = "arithmetic" => ArithmeticLaw(sample.l, sample.r)
    /\ sample.k = "date" => DateLaw(sample.d, sample.iv)
=============================================================================
