--------------------------- MODULE MCProgressStore ---------------------------
(* Two frames ids, two runs, one of them with two streams. *)
EXTENDS ProgressStore

CONSTANTS a, b, c

MCRecord ==
    [id : {a, b}, run : {"r1"}, stream : {0, 1}, op : {"append"}, seq : {0}]
    \cup [id : {a}, run : {"r2"}, stream : {0}, op : {"append", "commitStream"}, seq : {0}]
    \cup [id : {c}, run : {"r1"}, stream : {0}, op : {"clearStream", "clearRun"}, seq : {0}]

MCRequest ==
    [op : {"append"}, batch : {<<>>} \cup [1..1 -> MCRecord] \cup [1..2 -> MCRecord]]
    \cup [op : {"prune"}, runs : {{"r1"}, {"r2"}}]
    \cup {[op |-> "read"]}

\* One of the two frame ids stands for text outside ASCII.
MCWide == {a}
==============================================================================
