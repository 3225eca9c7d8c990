---------------------------- MODULE AtomicChunk ----------------------------
(***************************************************************************)
(* What the file system promises about one chunk: its cells behave as      *)
(* atomic registers.  A write changes one cell at one instant and takes    *)
(* its place after all earlier writes; a read answers with the value of    *)
(* that instant.  0 is the answer of a client that has not read.           *)
(***************************************************************************)
EXTENDS Naturals

CONSTANTS Clients, Cells

VARIABLES val,     \* contents of each cell
          answer   \* what each client has read and not yet consumed

Init == /\ val = [cell \in Cells |-> 0]
        /\ answer = [c \in Clients |-> 0]

\* Stamps grow: a write is newer than everything in the chunk.
Write(cell) == /\ val'[cell] \in Nat
               /\ \A d \in Cells : val[d] < val'[cell]
               /\ val' = [val EXCEPT ![cell] = val'[cell]]
               /\ UNCHANGED answer

Read(c, cell) == answer' = [answer EXCEPT ![c] = val[cell]] /\ UNCHANGED val

Consume(c) == answer' = [answer EXCEPT ![c] = 0] /\ UNCHANGED val

Next == \E cell \in Cells :
          Write(cell) \/ \E c \in Clients : Read(c, cell) \/ Consume(c)

Spec == Init /\ [][Next]_<<val, answer>>
============================================================================
