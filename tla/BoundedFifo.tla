---------------------------- MODULE BoundedFifo ----------------------------
(***************************************************************************)
(* What a bounded queue promises: items come out in the order they went    *)
(* in, each once, and never more than depth are in it.  A reader may be    *)
(* given the first item before the item leaves the queue.                  *)
(***************************************************************************)
EXTENDS Integers, Sequences

CONSTANTS Item, NoItem, depth

VARIABLES
  items,     \* the queue
  reading    \* the item a reader has been given, which is still in the queue

FifoInit == items = << >> /\ reading = NoItem

Push(v) ==
  /\ Len(items) < depth
  /\ items' = Append(items, v)
  /\ UNCHANGED reading

Read ==
  /\ items # << >> /\ reading = NoItem
  /\ reading' = Head(items)
  /\ UNCHANGED items

Pop ==
  /\ items # << >> /\ reading \in {NoItem, Head(items)}
  /\ items' = Tail(items)
  /\ reading' = NoItem

Peeked == reading' = NoItem /\ UNCHANGED items

Clear ==
  /\ reading = NoItem
  /\ items' = << >>
  /\ UNCHANGED reading

FifoNext ==
  \/ \E v \in Item : Push(v)
  \/ Read
  \/ Pop
  \/ Peeked
  \/ Clear

FifoSpec == FifoInit /\ [][FifoNext]_<<items, reading>>
=============================================================================
