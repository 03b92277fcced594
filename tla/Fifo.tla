-------------------------------- MODULE Fifo --------------------------------
(***************************************************************************)
(* What pipes promise: a reader is given the bytes in the order in which    *)
(* the writers put them in, no more than Capacity of them wait inside, none *)
(* is lost while the pipe is open, and no pipe disturbs another.            *)
(***************************************************************************)
EXTENDS Naturals, Sequences

CONSTANTS Client, Pipe, Capacity

VARIABLES
  in,    \* what each client still has to write
  open,  \* whether each pipe has an end that is open
  q,     \* what waits in each pipe
  out    \* what a read has given to each client, until the call returns

vars == <<in, open, q, out>>

Init ==
  /\ in = [c \in Client |-> <<>>] /\ out = [c \in Client |-> <<>>]
  /\ open = [g \in Pipe |-> FALSE] /\ q = [g \in Pipe |-> <<>>]

Only(f, c) == [f EXCEPT ![c] = f'[c]]

Write(c) == in[c] = <<>> /\ in' = Only(in, c) /\ UNCHANGED <<open, q, out>>

\* The first of the bytes go behind those that wait, as far as there is room;
\* the writer may then give up.
Put(c, g) ==
  \E n \in 0 .. Len(in[c]) :
    /\ q' = [q EXCEPT ![g] = @ \o SubSeq(in[c], 1, n)] /\ Len(q'[g]) <= Capacity
    /\ in' = Only(in, c) /\ in'[c] \in {SubSeq(in[c], n + 1, Len(in[c])), <<>>}
    /\ UNCHANGED <<open, out>>

\* The first of those that wait go to the reader.
Get(c, g) ==
  /\ out[c] = <<>> /\ out' = Only(out, c)
  /\ q' = Only(q, g) /\ q[g] = out'[c] \o q'[g]
  /\ UNCHANGED <<in, open>>

Return(c) == out' = [out EXCEPT ![c] = <<>>] /\ UNCHANGED <<in, open, q>>

\* A new pipe is empty; one with both ends closed is gone, and what was in it.
Create(g) == ~open[g] /\ open' = [open EXCEPT ![g] = TRUE] /\ UNCHANGED <<in, q, out>>
Drop(g) ==
  /\ open[g] /\ open' = [open EXCEPT ![g] = FALSE] /\ q' = [q EXCEPT ![g] = <<>>]
  /\ UNCHANGED <<in, out>>

Next ==
  \/ \E c \in Client : Write(c) \/ Return(c) \/ \E g \in Pipe : Put(c, g) \/ Get(c, g)
  \/ \E g \in Pipe : Create(g) \/ Drop(g)

Spec == Init /\ [][Next]_vars
==============================================================================
