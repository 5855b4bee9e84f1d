------------------------------ MODULE FrameQueue ------------------------------
(***************************************************************************)
(* What an elementary-stream FIFO of the ts_muxer promises its two sides:  *)
(* a queue of whole frames with a byte budget.  A frame that is offered    *)
(* enters the queue exactly when its bytes fit; frames leave one at a      *)
(* time, whole, in the order they entered, and none that entered is lost.  *)
(* FrameFifo, the byte ring with its two threads, is checked against it.   *)
(***************************************************************************)
EXTENDS Integers, Sequences

CONSTANTS
  Capacity,     \* bytes of the FIFO
  Overhead,     \* bytes stored with each frame
  Frame         \* the frames: records with an id and a size

VARIABLES
  queue,        \* the frames stored, oldest first
  used,         \* the bytes they take
  offered,      \* id of the last frame offered
  got           \* the frame taken last

(* No frame was taken yet.                                                 *)
NoFrame == [id |-> 0, size |-> 0]

qvars == <<queue, used, offered, got>>

Need(f) == f.size + Overhead

QInit == queue = << >> /\ used = 0 /\ offered = 0 /\ got = NoFrame

Put(f) ==
  /\ f.id = offered + 1
  /\ offered' = f.id
  /\ \/ /\ used + Need(f) <= Capacity
        /\ queue' = Append(queue, f)
        /\ used' = used + Need(f)
     \/ /\ used + Need(f) > Capacity
        /\ UNCHANGED <<queue, used>>
  /\ UNCHANGED got

Get ==
  /\ queue # << >>
  /\ got' = Head(queue)
  /\ queue' = Tail(queue)
  /\ used' = used - Need(Head(queue))
  /\ UNCHANGED offered

QNext == (\E f \in Frame : Put(f)) \/ Get

QSpec == QInit /\ [][QNext]_qvars

=============================================================================
