-------------------------------- MODULE Fifo --------------------------------
(***************************************************************************)
(* What a queue between two threads promises: messages come out in the     *)
(* order in which they went in, each once, and none that was not put in.   *)
(***************************************************************************)
EXTENDS Sequences

CONSTANT Message

VARIABLES
    queue,  \* what is in the queue
    out     \* history: what was taken out of it

Init == queue = <<>> /\ out = <<>>

Put(m) == queue' = Append(queue, m) /\ UNCHANGED out

Take ==
    /\ queue # <<>>
    /\ queue' = Tail(queue)
    /\ out' = Append(out, Head(queue))

Next == Take \/ \E m \in Message : Put(m)

Spec == Init /\ [][Next]_<<queue, out>>
=============================================================================
