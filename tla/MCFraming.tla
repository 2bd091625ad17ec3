------------------------------ MODULE MCFraming ------------------------------
(* The frames of the repository's fixtures, and those the reader drops.       *)
EXTENDS Framing

MCLayouts ==
    {[head |-> <<"id", "event">>, data |-> 1],   \* an event of the transaction stream
     [head |-> <<"event">>, data |-> 2],         \* a broadcast whose JSON spans two lines
     [head |-> <<"id", "event">>, data |-> 0],   \* no data: dropped, with its id
     [head |-> <<"comment">>, data |-> 0]}       \* keep-alive

=============================================================================
