----------------------------- MODULE ReedSolomon -----------------------------
(***************************************************************************)
(* The matrix of the Reed-Solomon code, its solution for the blocks that   *)
(* are missing, and its application to the data.  The recovery block of    *)
(* exponent e is the sum of the input blocks, the i-th one times the i-th  *)
(* base to the power of e.                                                 *)
(***************************************************************************)
EXTENDS Galois, SequencesExt

\* 0 if either is 0.
gcd[a \in 0 .. Limit, b \in 0 .. Limit] ==
    IF a = 0 \/ b = 0 THEN a + b
    ELSE IF a > b THEN gcd[a % b, b] ELSE gcd[a, b % a]

Indexes(present, which) ==
    LET index[n \in 0 .. Len(present)] ==
            IF n = 0 THEN << >>
            ELSE IF present[n] = which THEN Append(index[n - 1], n) ELSE index[n - 1]
    IN  index[Len(present)]

UsableLogs == Indexes([l \in 1 .. Limit - 1 |-> gcd[Limit, l] = 1], TRUE)

\* SetInput: the base of every input block.  There are never more than Half of
\* them, which is how many usable logs there are.
Bases16(n) == [i \in 1 .. n |-> AntilogTable[UsableLogs[i]]]
Bases8(n) == [i \in 1 .. n |-> i % Count]

OutputRow(present, exponent) == [present |-> present, exponent |-> exponent]

Rows(outputrows, which) ==
    LET index == Indexes([r \in DOMAIN outputrows |-> outputrows[r].present], which)
    IN  [k \in DOMAIN index |-> outputrows[index[k]]]

NoMatrix == << >>

\* The left and the right matrix side by side: the present recovery blocks that
\* stand for a missing input, then the recovery blocks to be made.
Matrix(base, present, outputrows) ==
    LET dpi == Indexes(present, TRUE)
        dmi == Indexes(present, FALSE)
        datapresent == Len(dpi)
        datamissing == Len(dmi)
        incount == Len(present)
        rows == SubSeq(Rows(outputrows, TRUE), 1, datamissing) \o Rows(outputrows, FALSE)
        left(row, col) ==
            IF col <= datapresent THEN Power(base[dpi[col]], rows[row].exponent)
            ELSE IF row = col - datapresent THEN 1 ELSE 0
        right(row, col) ==
            IF col <= datamissing THEN Power(base[dmi[col]], rows[row].exponent)
            ELSE IF row = col THEN 1 ELSE 0
    IN  [row \in 1 .. Len(rows) |->
            [col \in 1 .. incount + Len(rows) |->
                IF col <= incount THEN left(row, col) ELSE right(row, col - incount)]]

\* One round: the row is scaled and taken from every other row.  No rows are swapped.
Eliminate(m, row, leftcols) ==
    LET pivotvalue == m[row][leftcols + row]
        scaled == [col \in DOMAIN m[row] |-> Over(m[row][col], pivotvalue)]
    IN  IF m = NoMatrix \/ pivotvalue = 0 THEN NoMatrix
        ELSE [row2 \in DOMAIN m |->
                IF row2 = row THEN scaled
                ELSE [col \in DOMAIN m[row2] |->
                        Minus(m[row2][col], Times(scaled[col], m[row2][leftcols + row]))]]

GaussElim(m, datamissing, leftcols) ==
    LET solved[row \in 0 .. datamissing] ==
            IF row = 0 THEN m ELSE Eliminate(solved[row - 1], row, leftcols)
    IN  solved[datamissing]

\* The left matrix, or NoMatrix if it cannot be computed.
Compute(base, present, outputrows) ==
    LET datamissing == Len(Indexes(present, FALSE))
        incount == Len(present)
        m == Matrix(base, present, outputrows)
        solved == GaussElim(m, datamissing, incount)
    IN  IF datamissing > Len(Rows(outputrows, TRUE)) \/ m = << >> THEN NoMatrix
        ELSE [row \in DOMAIN solved |-> SubSeq(solved[row], 1, incount)]

\* InternalProcess of 16 bits: a factor's products with the low and the high half of a
\* value are looked up in two tables and added.  With 8 bits the code looks up the
\* product of the whole factor and value in one table.
HalfCount == shift[Bits \div 2]
Long(factor) ==
    LET fl == factor % HalfCount
        fh == factor - fl
        L == [i \in 0 .. HalfCount - 1 |-> Plus(Times(fl, i), Times(i, fh))]
        H == [i \in 0 .. Count \div HalfCount - 1 |->
                Plus(Times(fl, i * HalfCount), Times(fh, i * HalfCount))]
    IN  [v \in Values |-> Plus(L[v % HalfCount], H[v \div HalfCount])]
LongMultiply == [factor \in Values |-> Long(factor)]

Process(factor, input, output) ==
    IF factor = 0 THEN output
    ELSE [k \in DOMAIN output |-> Plus(output[k], LongMultiply[factor][input[k]])]

\* Every output block, from all of the input blocks.
OutputOf(factors, inputs, size) ==
    LET out[i \in 0 .. Len(inputs)] ==
            IF i = 0 THEN [k \in 1 .. size |-> 0]
            ELSE Process(factors[i], inputs[i], out[i - 1])
    IN  out[Len(inputs)]
Outputs(matrix, inputs, size) ==
    [row \in DOMAIN matrix |-> OutputOf(matrix[row], inputs, size)]
=============================================================================
