---------------------------- MODULE SqlFunctions ----------------------------
(* What arithmetic and the functions of expressions return (expression.rs),   *)
(* and the text formats COPY, SCRIPT and RUNSCRIPT write and read (helpers.rs). *)
(*                                                                            *)
(* A text is a sequence of characters, a character a one-letter string.       *)
(* Integers have Width bits; a date is [y, m, d], a day has DayTicks ticks.   *)
EXTENDS SqlValues, FiniteSets

CONSTANTS Width,        \* bits of an INTEGER (32)
          DayTicks      \* clock ticks of a day (microseconds)

-----------------------------------------------------------------------------
(* Integer arithmetic wraps; division truncates and refuses a zero divisor.   *)

MinInt == -(2 ^ (Width - 1))
Wrap(n) == ((n - MinInt) % (2 ^ Width)) + MinInt
Quotient(l, r) == LET abs(n) == IF n < 0 THEN -n ELSE n
                  IN IF (l < 0) = (r < 0) THEN abs(l) \div abs(r) ELSE -(abs(l) \div abs(r))

evaluate_arithmetic_op(l, op, r) ==
    CASE op = "+" -> Wrap(l + r)
      [] op = "-" -> Wrap(l - r)
      [] op = "*" -> Wrap(l * r)
      [] op = "/" -> Quotient(l, r)
      [] op = "%" -> l - r * Quotient(l, r)

\* CASE x WHEN k1 THEN r1 ... ELSE e, and DECODE, which takes its arguments flat.
FirstMatch(base, keys) == {i \in DOMAIN keys : eq(base, keys[i]) /\ \A j \in 1 .. i - 1 : ~eq(base, keys[j])}
Case(base, keys, results, else) ==
    IF FirstMatch(base, keys) = {} THEN else ELSE results[CHOOSE i \in FirstMatch(base, keys) : TRUE]

RECURSIVE DecodeFrom(_, _, _)
DecodeFrom(base, args, i) ==
    CASE i + 1 <= Len(args) /\ eq(base, args[i]) -> args[i + 1]
      [] i + 1 <= Len(args)                      -> DecodeFrom(base, args, i + 2)
      [] i = Len(args)                           -> args[i]
      [] OTHER                                   -> Null
Decode(base, args) == DecodeFrom(base, args, 1)

Coalesce(args) == LET known == {i \in DOMAIN args : args[i].ty # "null"}
                  IN IF known = {} THEN Null
                     ELSE args[CHOOSE i \in known : \A j \in known : i <= j]

-----------------------------------------------------------------------------
(* Text functions.                                                            *)

Smaller(x, y) == IF x < y THEN x ELSE y
Larger(x, y) == IF x > y THEN x ELSE y

substring_from(s, from) == SubSeq(s, Larger(from, 1), Len(s))
substring_impl(s, from, len) ==
    LET start == Larger(from, 1)
    IN IF len <= 0 THEN <<>> ELSE SubSeq(s, start, Smaller(start + len - 1, Len(s)))

LeftOf(s, n) == IF n <= 0 THEN <<>> ELSE SubSeq(s, 1, Smaller(n, Len(s)))
RightOf(s, n) == IF n <= 0 THEN <<>> ELSE SubSeq(s, Larger(Len(s) - n, 0) + 1, Len(s))

OccursAt(t, s, k) == k + Len(t) - 1 <= Len(s) /\ SubSeq(s, k, k + Len(t) - 1) = t
Places(t, s) == {k \in 1 .. Len(s) + 1 : OccursAt(t, s, k)}

\* INSTR, CHARINDEX: 0 when absent, 1 for the empty text whatever the start.
Instr(s, t, from) ==
    LET found == {k \in Places(t, s) : k >= Larger(from, 1)}
    IN CASE t = <<>> -> 1
         [] Larger(from, 1) > Len(s) \/ found = {} -> 0
         [] OTHER -> CHOOSE k \in found : \A j \in found : k <= j

LTrim(s, chars) ==
    LET keep == {i \in DOMAIN s : ~Contains(chars, s[i])}
    IN IF keep = {} THEN <<>> ELSE SubSeq(s, CHOOSE i \in keep : \A j \in keep : i <= j, Len(s))
RTrim(s, chars) == Reverse(LTrim(Reverse(s), chars))
BTrim(s, chars) == LTrim(RTrim(s, chars), chars)

\* Rust's split: the pieces between the leftmost, non-overlapping occurrences.
RECURSIVE Split(_, _)
Split(s, d) ==
    IF Places(d, s) = {} THEN <<s>>
    ELSE LET k == CHOOSE i \in Places(d, s) : \A j \in Places(d, s) : i <= j
         IN <<SubSeq(s, 1, k - 1)>> \o Split(SubSeq(s, k + Len(d), Len(s)), d)

Join(parts, sep) ==
    FlattenSeq([i \in DOMAIN parts |-> IF i = 1 THEN parts[i] ELSE sep \o parts[i]])

SplitPart(s, d, part) ==
    IF part \in DOMAIN Split(s, d) THEN Split(s, d)[part] ELSE <<>>

Replace(s, from, to) == Join(Split(s, from), to)

\* CONCAT_WS: NULL arguments are left out, not joined as empty texts.
ConcatWs(sep, args) ==
    LET known == SelectSeq(args, LAMBDA a : a # Null)
    IN Join([i \in DOMAIN known |-> known[i].s], sep)

\* The padding is cycled; an empty one pads nothing; a long text is cut.
Padding(p, n) == IF p = <<>> THEN <<>> ELSE [i \in 1 .. n |-> p[((i - 1) % Len(p)) + 1]]
LPad(s, n, p) == IF Len(s) >= n THEN SubSeq(s, 1, n) ELSE Padding(p, n - Len(s)) \o s
RPad(s, n, p) == IF Len(s) >= n THEN SubSeq(s, 1, n) ELSE s \o Padding(p, n - Len(s))

Repeat(s, n) == FlattenSeq([i \in 1 .. n |-> s])

\* The first place of a character in `from` decides; past the end of `to` it goes.
translate(s, from, to) ==
    LET place(c) == CHOOSE i \in DOMAIN from : from[i] = c /\ \A j \in 1 .. i - 1 : from[j] # c
        image(c) == CASE ~Contains(from, c) -> <<c>>
                      [] place(c) <= Len(to) -> <<to[place(c)]>>
                      [] OTHER -> <<>>
    IN FlattenSeq([i \in DOMAIN s |-> image(s[i])])

\* LIKE knows a % at either end of the pattern only.
Like(s, p) ==
    CASE p # <<>> /\ p[1] = "%" /\ Last(p) = "%" -> Places(SubSeq(p, 2, Len(p) - 1), s) # {}
      [] p # <<>> /\ p[1] = "%"                  -> IsSuffix(Tail(p), s)
      [] p # <<>> /\ Last(p) = "%"               -> IsPrefix(Front(p), s)
      [] OTHER                                   -> s = p

RECURSIVE LikeMeans(_, _)
LikeMeans(s, p) ==
    CASE p = <<>>      -> s = <<>>
      [] p[1] = "%"    -> \E k \in 0 .. Len(s) : LikeMeans(SubSeq(s, k + 1, Len(s)), Tail(p))
      [] OTHER         -> s # <<>> /\ s[1] = p[1] /\ LikeMeans(Tail(s), Tail(p))

\* Where LIKE falls short of its meaning: a % inside the pattern, and the
\* pattern that is one % (the code slices [1..0] there and panics).
InnerWildcard(p) == p = <<"%">> \/ \E i \in 2 .. Len(p) - 1 : p[i] = "%"

-----------------------------------------------------------------------------
(* COPY and SCRIPT.                                                           *)

Doubled(s, q) == FlattenSeq([i \in DOMAIN s |-> IF s[i] = q THEN <<q, q>> ELSE <<s[i]>>])

format_csv_field(s, delimiter) ==
    IF {delimiter, "\"", "\n"} \intersect Range(s) # {}
      THEN <<"\"">> \o Doubled(s, "\"") \o <<"\"">> ELSE s

RECURSIVE ParseCsv(_, _, _, _)
ParseCsv(line, delimiter, current, quoted) ==
    LET push(n) == ParseCsv(SubSeq(line, n, Len(line)), delimiter, Append(current, line[1]), quoted)
        turn(q) == ParseCsv(Tail(line), delimiter, current, q)
    IN CASE line = <<>> -> <<current>>
         [] quoted /\ line[1] = "\"" ->
              IF Len(line) > 1 /\ line[2] = "\"" THEN push(3) ELSE turn(FALSE)
         [] ~quoted /\ line[1] = "\"" -> turn(TRUE)
         [] ~quoted /\ line[1] = delimiter ->
              <<current>> \o ParseCsv(Tail(line), delimiter, <<>>, FALSE)
         [] OTHER -> push(2)
parse_csv_line(line, delimiter) == ParseCsv(line, delimiter, <<>>, FALSE)

to_sql_literal(s) == <<"'">> \o Doubled(s, "'") \o <<"'">>

\* A script is cut at semicolons outside quotes; a quote after a backslash does
\* not count as one.
split_sql_script(content) ==
    LET close(st) == IF st.current = <<>> THEN st.stmts ELSE Append(st.stmts, st.current)
        step(st, ch) ==
            CASE ch = "'" /\ st.prev # "\\" ->
                   [st EXCEPT !.quoted = ~@, !.current = Append(@, ch), !.prev = ch]
              [] ch = ";" /\ ~st.quoted -> [st EXCEPT !.stmts = close(st), !.current = <<>>, !.prev = ch]
              [] OTHER -> [st EXCEPT !.current = Append(@, ch), !.prev = ch]
    IN close(FoldLeft(step, [stmts |-> <<>>, current |-> <<>>, quoted |-> FALSE, prev |-> "0"], content))

-----------------------------------------------------------------------------
(* Dates and intervals: [months, days, ticks].                                *)

days_in_month(year, month) ==
    CASE month \in {1, 3, 5, 7, 8, 10, 12} -> 31
      [] month \in {4, 6, 9, 11} -> 30
      [] month = 2 -> IF (year % 4 = 0 /\ year % 100 # 0) \/ year % 400 = 0 THEN 29 ELSE 28

\* chrono: the days before a date, and the date some days later.
DayNumber(d) ==
    LET y == d.y - 1
        before == <<0, 31, 59, 90, 120, 151, 181, 212, 243, 273, 304, 334>>[d.m]
        leap == (d.y \div 4 - y \div 4) - (d.y \div 100 - y \div 100) + (d.y \div 400 - y \div 400)
    IN 365 * y + y \div 4 - y \div 100 + y \div 400 + before + (IF d.m > 2 THEN leap ELSE 0) + d.d
DatesNear(y) == {d \in [y : y - 1 .. y + 1, m : 1 .. 12, d : 1 .. 31] :
                    d.d <= days_in_month(d.y, d.m)}
PlusDays(d, n) == IF n = 0 THEN d ELSE CHOOSE e \in DatesNear(d.y) : DayNumber(e) = DayNumber(d) + n

\* Months first, the day cut to the month reached, then the days.
AddMonths(d, months) ==
    LET index == d.y * 12 + d.m - 1 + months
        y == index \div 12
        m == (index % 12) + 1
    IN [y |-> y, m |-> m, d |-> Smaller(d.d, days_in_month(y, m))]

add_interval_to_date(d, iv) == PlusDays(AddMonths(d, iv.months), iv.days)

add_interval_to_datetime(dt, iv) ==
    LET ticks == dt.ticks + iv.ticks
    IN [date |-> PlusDays(AddMonths(dt.date, iv.months), iv.days + ticks \div DayTicks),
        ticks |-> ticks % DayTicks]

Negated(iv) == [months |-> -iv.months, days |-> -iv.days, ticks |-> -iv.ticks]

\* DATEDIFF subtracts; a difference of dates has days, one of timestamps ticks.
DateDiff(d, e) == DayNumber(d) - DayNumber(e)
DateTrunc(unit, d) == CASE unit = "YEAR" -> [d EXCEPT !.m = 1, !.d = 1]
                        [] unit = "MONTH" -> [d EXCEPT !.d = 1]
                        [] OTHER -> d
extract_field(d, field) ==
    CASE field = "YEAR" -> d.y [] field = "MONTH" -> d.m [] field = "DAY" -> d.d
      [] field = "DOY" -> DayNumber(d) - DayNumber([y |-> d.y, m |-> 1, d |-> 1]) + 1
      [] field = "DOW" -> DayNumber(d) % 7

-----------------------------------------------------------------------------
(* What the definitions above have to satisfy, on any arguments.              *)

\* Values a comparison is decided for: NULL against anything, text against text,
\* numbers that f64 holds exactly.
Exact(a) == is_numeric(a) => a.n < 2 * F64Exact
Decided(a, b) == \/ "null" \in {a.ty, b.ty}
                 \/ a.ty = "string" /\ b.ty = "string"
                 \/ is_numeric(a) /\ is_numeric(b) /\ Exact(a) /\ Exact(b)

\* Where comparison is decided it is one total order shared by =, <, <=, ORDER BY
\* and BETWEEN, across the numeric types and NULL (PartialEq, PartialOrd,
\* compare_numeric); and CASE, DECODE and COALESCE pick the first match.
CompareLaw(a, b, c) ==
    /\ Decided(a, b) =>
         /\ eq(a, b) <=> partial_cmp(a, b) = "eq"
         /\ partial_cmp(a, b) = "lt" <=> partial_cmp(b, a) = "gt"
         /\ evaluate_binary_op(a, "<=", b) <=> ~evaluate_binary_op(a, ">", b)
         /\ is_numeric(a) /\ is_numeric(b) => (eq(a, b) <=> a.n = b.n)
    /\ Decided(a, b) /\ Decided(b, c) /\ Decided(a, c) =>
         /\ evaluate_binary_op(a, "<=", b) /\ evaluate_binary_op(b, "<=", c)
              => evaluate_binary_op(a, "<=", c)
         /\ Between(a, b, c) /\ Between(b, a, c) => eq(a, b)
         /\ InList(a, <<b, c>>) <=> \E x \in {b, c} : eq(a, x)
    /\ Decode(a, <<b, a, c, b, c>>) = Case(a, <<b, c>>, <<a, b>>, c)
    /\ Coalesce(<<a, b>>).ty = "null" <=> a.ty = "null" /\ b.ty = "null"

\* INTEGER arithmetic is arithmetic modulo 2^Width: + and - undo each other even
\* across the wrap, and / and % fit together with the sign of the dividend
\* (evaluate_arithmetic_op; MinInt / -1 panics in the code and is left out).
ArithmeticLaw(l, r) ==
    /\ evaluate_arithmetic_op(evaluate_arithmetic_op(l, "+", r), "-", r) = l
    /\ r \notin {0, -1} =>
         LET q == evaluate_arithmetic_op(l, "/", r)
             m == evaluate_arithmetic_op(l, "%", r)
         IN /\ l = evaluate_arithmetic_op(evaluate_arithmetic_op(q, "*", r), "+", m)
            /\ (m = 0 \/ (m < 0) = (l < 0))

\* The text functions fit together: a text is its LEFT and the rest, its parts
\* joined, its trimmed middle; INSTR finds the first place and REPLACE leaves
\* none; a padded text has the length asked for and keeps the text; TRANSLATE
\* agrees with REPLACE on one character; LIKE means what % says at the ends.
TextLaw(s, t, n) ==
    /\ LeftOf(s, n) \o substring_from(s, n + 1) = s
    /\ RightOf(s, n) = Reverse(LeftOf(Reverse(s), n))
    /\ substring_impl(s, n, 2) = LeftOf(substring_from(s, n), 2)
    /\ t # <<>> =>
         LET k == Instr(s, t, n)
         IN /\ k # 0 => OccursAt(t, s, k) /\ k >= n
            /\ k = 0 <=> (\A j \in Places(t, s) : j < n)
            /\ ConcatWs(t, <<Null>> \o [i \in 1 .. Len(Split(s, t)) |-> Text(SplitPart(s, t, i))]) = s
            /\ ~Contains(t, "b") => Places(t, Replace(s, t, <<"b">>)) = {}
            /\ Len(LPad(s, n, t)) = n /\ Len(RPad(s, n, t)) = n
            /\ n >= Len(s) => RightOf(LPad(s, n, t), Len(s)) = s
            /\ translate(s, <<t[1], t[1]>>, <<"b", "a">>) = Replace(s, <<t[1]>>, <<"b">>)
            /\ translate(s, <<t[1]>>, <<>>) = Replace(s, <<t[1]>>, <<>>)
    /\ LET core == BTrim(s, t)
       IN \E i, j \in 0 .. Len(s) :
            /\ s = SubSeq(s, 1, i) \o core \o SubSeq(s, j + 1, Len(s))
            /\ Range(SubSeq(s, 1, i)) \union Range(SubSeq(s, j + 1, Len(s))) \subseteq Range(t)
            /\ core # <<>> => ~Contains(t, Head(core)) /\ ~Contains(t, Last(core))
    /\ ~InnerWildcard(t) => (Like(s, t) <=> LikeMeans(s, t))
    /\ Repeat(s, n) = IF n = 0 THEN <<>> ELSE s \o Repeat(s, n - 1)

\* A line COPY TO writes is read by COPY FROM field for field, delimiters and
\* quotes inside the fields included (format_csv_field, parse_csv_line), and a
\* script of literals is cut back into its statements (to_sql_literal,
\* split_sql_script) unless a backslash comes before a quote.
FormatLaw(s, t) ==
    /\ parse_csv_line(Join(<<format_csv_field(s, ","), format_csv_field(t, ",")>>, <<",">>), ",") = <<s, t>>
    /\ ~Contains(s \o t, "\\") =>
         split_sql_script(Join(<<to_sql_literal(s), to_sql_literal(t)>>, <<";">>))
            = <<to_sql_literal(s), to_sql_literal(t)>>

\* Months move the month index by exactly their number and never leave the month
\* reached; days count real days; the clock carries into the date; subtracting
\* an interval of days and ticks undoes adding it; DATE_TRUNC and EXTRACT agree
\* with the calendar (add_interval_to_date, add_interval_to_datetime,
\* days_in_month, extract_field).
DateLaw(d, iv) ==
    LET months == AddMonths(d, iv.months)
        at == [date |-> d, ticks |-> 0]
        plain == [iv EXCEPT !.months = 0]
        nextMonth == AddMonths([d EXCEPT !.d = 1], 1)
    IN /\ months.y * 12 + months.m = d.y * 12 + d.m + iv.months
       /\ months.d \in 1 .. d.d
       /\ days_in_month(d.y, d.m) = DayNumber(nextMonth) - DayNumber([d EXCEPT !.d = 1])
       /\ DateDiff(add_interval_to_date(d, iv), months) = iv.days
       /\ add_interval_to_datetime(add_interval_to_datetime(at, plain), Negated(plain)) = at
       /\ DateDiff(d, DateTrunc("YEAR", d)) = extract_field(d, "DOY") - 1
       /\ extract_field(DateTrunc("MONTH", d), "DAY") = 1
=============================================================================
