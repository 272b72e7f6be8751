--------------------------- MODULE InputEventReader ---------------------------
(***************************************************************************)
(* InputEventCircularReader (src/libsensors/InputEventReader.cpp), the     *)
(* buffer between the input device of a sensor and its driver.             *)
(*                                                                         *)
(* The buffer is twice as long as the number of events it holds: a read    *)
(* goes straight to mHead even when it runs over mBufferEnd, and what      *)
(* went over is copied to the front afterwards.  Pointers into the buffer  *)
(* are indices, mBufferEnd being numEvents.                                *)
(***************************************************************************)
EXTENDS Integers, Sequences

CONSTANTS Events,      \* what a cell of the buffer may hold
          numEvents,   \* the capacity given to the constructor
          Garbage      \* the contents of the buffer before anything is read

ASSUME ReaderAssumption == numEvents \in Nat \ {0} /\ Garbage \in Events

VARIABLES mBuffer, mHead, mCurr, mFreeSpace,
          received     \* history: what the last read() returned

vars == <<mBuffer, mHead, mCurr, mFreeSpace, received>>

Cells == 0 .. 2 * numEvents - 1

Init ==
  /\ mBuffer = [c \in Cells |-> Garbage]
  /\ mHead = 0
  /\ mCurr = 0
  /\ mFreeSpace = numEvents
  /\ received = << >>

(* What read() puts at mHead.                                              *)
Received(k, s) ==
  [c \in Cells |-> IF c \in mHead .. mHead + k - 1 THEN s[c - mHead + 1] ELSE mBuffer[c]]

(* Mutant: the copy forgotten.                                             *)
Wrapped_NoCopy(b, head) == b

(* The copy of what went over the end.                                     *)
Wrapped(b, head) ==
  IF head > numEvents
  THEN [c \in Cells |-> IF c < head - numEvents THEN b[c + numEvents] ELSE b[c]]
  ELSE b

MovedHead(head) == IF head > numEvents THEN head - numEvents ELSE head

(* fill(): the kernel returns k events, at most mFreeSpace.  A failing     *)
(* read leaves all as it is.                                               *)
Fill(k, s) ==
  /\ mFreeSpace > 0
  /\ k <= mFreeSpace
  /\ mBuffer' = Wrapped(Received(k, s), mHead + k)
  /\ mHead' = MovedHead(mHead + k)
  /\ mFreeSpace' = mFreeSpace - k
  /\ received' = s
  /\ UNCHANGED mCurr

(* readEvent(): whether there is an event, and where.                      *)
Available == numEvents - mFreeSpace
Current   == mBuffer[mCurr]

(* next(), which the drivers call when readEvent() has found an event.     *)
Advance == IF mCurr + 1 >= numEvents THEN 0 ELSE mCurr + 1

TakeEvent ==
  /\ Available > 0
  /\ mCurr' = Advance
  /\ mFreeSpace' = mFreeSpace + 1
  /\ UNCHANGED <<mBuffer, mHead, received>>

Next ==
  \/ \E k \in 1 .. numEvents : \E s \in [1 .. k -> Events] : Fill(k, s)
  \/ TakeEvent

Spec == Init /\ [][Next]_vars

-----------------------------------------------------------------------------
(* Properties.                                                             *)

TypeOK ==
  /\ mBuffer \in [Cells -> Events]
  /\ mHead \in 0 .. numEvents
  /\ mCurr \in 0 .. numEvents - 1
  /\ mFreeSpace \in 0 .. numEvents
  /\ received \in Seq(Events)

(* The cell that follows c by j, going back to the front at the end.       *)
Follow(c, j) == IF c + j < numEvents THEN c + j ELSE c + j - numEvents

(* The write position is where the events end, so a read of mFreeSpace     *)
(* events, or the copy to the front, never overwrites one not yet taken.   *)
HeadFollows ==
  \/ mHead = mCurr + Available
  \/ mHead = mCurr + Available - numEvents
  \/ mHead = numEvents /\ mCurr + Available = 0

(* The events not yet taken, oldest first.                                 *)
Contents == [j \in 1 .. Available |-> mBuffer[Follow(mCurr, j - 1)]]

(* The reader is a queue: whatever sizes the reads have, the events come   *)
(* out as they went in, each once.                                         *)
Abstract == INSTANCE EventQueue WITH queue <- Contents, Capacity <- numEvents

ImplementsQueue == Abstract!QueueSpec
=============================================================================
