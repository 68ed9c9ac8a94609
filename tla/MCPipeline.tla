----------------------------- MODULE MCPipeline -----------------------------
\* Four blocks of two files through three buffers, with failures and a GPU.
EXTENDS Pipeline

MCFileOf == [i \in 0 .. 3 |-> IF i < 2 THEN "f" ELSE "g"]
MCFileBlockCount == [f \in {"f", "g"} |-> 2]
=============================================================================
