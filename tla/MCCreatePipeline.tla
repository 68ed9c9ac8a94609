-------------------------- MODULE MCCreatePipeline --------------------------
\* Four blocks, three of the first file and one of the second, three buffers.
EXTENDS CreatePipeline

MCSourceFiles == <<"f", "g">>
MCFileOf == [i \in 0 .. 3 |-> IF i < 3 THEN "f" ELSE "g"]
MCFileBlockCount == [f \in {"f", "g"} |-> IF f = "f" THEN 3 ELSE 1]
=============================================================================
