------------------------------ MODULE MCFnMemo ------------------------------
(* Instances of FnMemo for TLC. *)
EXTENDS FnMemo, TLC

CONSTANTS f1, f2, n1, n2, v1, v2, v3

MCFiles == {f1, f2}
MCOneFile == {f1}
MCChunks == {n1, n2}
MCValues == {v1, v2, v3}

\* Contents with one chunk, with a second one, and with none.
MCChunksOf == [v \in MCValues |-> CASE v = v1 -> {n1} [] v = v2 -> {n1, n2} [] OTHER -> {}]
Application(timestamps, caught) == [timestamps |-> timestamps, caught |-> caught]
MCTimestamps == {Application(TRUE, FALSE)}
MCBoth == {Application(FALSE, FALSE), Application(TRUE, TRUE)}
=============================================================================
