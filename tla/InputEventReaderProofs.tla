------------------------ MODULE InputEventReaderProofs ------------------------
(* The reader of input events is a queue, for every capacity and every set  *)
(* of events.                                                               *)
EXTENDS InputEventReader, SequenceTheorems, TLAPS

ReaderInv == TypeOK /\ HeadFollows

(* The reader starts empty, with both positions at the front.               *)
LEMMA ReaderInvInit == Init => ReaderInv
BY ReaderAssumption DEF Init, ReaderInv, TypeOK, HeadFollows, Available, Cells

(* The copy to the front fills the buffer with events.                      *)
LEMMA WrappedType ==
  ASSUME NEW b \in [Cells -> Events], NEW head \in 0 .. 2 * numEvents
  PROVE  Wrapped(b, head) \in [Cells -> Events]
<1>1. CASE head > numEvents
  <2>1. \A c \in Cells : c < head - numEvents => c + numEvents \in Cells
    BY <1>1, ReaderAssumption DEF Cells
  <2> QED BY <1>1, <2>1 DEF Wrapped
<1>2. CASE ~(head > numEvents)
  BY <1>2 DEF Wrapped
<1> QED BY <1>1, <1>2

(* A read moves the head to where the events now end, past the end of the   *)
(* buffer and back to the front when it must, and stays inside the buffer.  *)
LEMMA FillKeepsInv ==
  ASSUME ReaderInv, NEW k \in 1 .. numEvents, NEW s \in [1 .. k -> Events], Fill(k, s)
  PROVE  ReaderInv'
<1> USE ReaderAssumption DEF ReaderInv, TypeOK, HeadFollows, Available
<1>1. Received(k, s) \in [Cells -> Events]
  BY DEF Received, Cells, Fill
<1>2. mBuffer' \in [Cells -> Events]
  <2>1. mHead + k \in 0 .. 2 * numEvents
    OBVIOUS
  <2> QED BY <1>1, <2>1, WrappedType DEF Fill
<1>3. mHead' \in 0 .. numEvents /\ mFreeSpace' \in 0 .. numEvents /\ mCurr' = mCurr
  BY DEF Fill, MovedHead
<1>4. received' \in Seq(Events)
  BY DEF Fill
<1>5. HeadFollows'
  BY DEF Fill, MovedHead
<1> QED BY <1>2, <1>3, <1>4, <1>5

(* next() keeps the head where the events end.                              *)
LEMMA TakeKeepsInv ==
  ASSUME ReaderInv, TakeEvent
  PROVE  ReaderInv'
BY ReaderAssumption DEF ReaderInv, TypeOK, HeadFollows, Available, TakeEvent, Advance

(* What a read leaves in the buffer at the places in use: the events that   *)
(* were there, and then the new ones.                                       *)
LEMMA FillCells ==
  ASSUME ReaderInv, NEW k \in 1 .. numEvents, NEW s \in [1 .. k -> Events], Fill(k, s),
         NEW j \in 1 .. Available + k
  PROVE  mBuffer'[Follow(mCurr, j - 1)] =
           IF j <= Available THEN mBuffer[Follow(mCurr, j - 1)] ELSE s[j - Available]
<1> DEFINE c == Follow(mCurr, j - 1)
<1> USE ReaderAssumption DEF ReaderInv, TypeOK, HeadFollows, Available
<1>1. c \in 0 .. numEvents - 1 /\ c \in Cells /\ c + numEvents \in Cells
  BY DEF Follow, Cells, Fill
<1>2. CASE mHead + k > numEvents /\ c < mHead + k - numEvents
  <2>1. mBuffer'[c] = Received(k, s)[c + numEvents]
    BY <1>1, <1>2 DEF Fill, Wrapped
  <2>2. mBuffer'[c] = s[c + numEvents - mHead + 1]
    BY <1>1, <1>2, <2>1 DEF Received
  <2>3. j > Available /\ c + numEvents - mHead + 1 = j - Available
    BY <1>2 DEF Follow, Fill
  <2> QED BY <2>2, <2>3
<1>3. CASE ~(mHead + k > numEvents /\ c < mHead + k - numEvents)
  <2>1. mBuffer'[c] = Received(k, s)[c]
    BY <1>1, <1>3 DEF Fill, Wrapped
  <2>2. mBuffer'[c] = IF c \in mHead .. mHead + k - 1 THEN s[c - mHead + 1] ELSE mBuffer[c]
    BY <1>1, <2>1 DEF Received
  <2>3. j <= Available => c \notin mHead .. mHead + k - 1
    BY <1>3 DEF Follow, Fill
  <2>4. j > Available => c \in mHead .. mHead + k - 1 /\ c - mHead + 1 = j - Available
    BY <1>3 DEF Follow, Fill
  <2> QED BY <2>2, <2>3, <2>4
<1> QED BY <1>2, <1>3

(* A place in use is a cell of the buffer.                                  *)
LEMMA FollowInside ==
  ASSUME NEW c \in 0 .. numEvents - 1, NEW free \in 0 .. numEvents
  PROVE  /\ numEvents - free \in 0 .. numEvents
         /\ \A j \in 1 .. numEvents - free : Follow(c, j - 1) \in Cells
BY ReaderAssumption DEF Follow, Cells

(* The contents of the reader are a sequence of events.                     *)
LEMMA ContentsType ==
  ASSUME TypeOK
  PROVE  Contents \in Seq(Events) /\ Len(Contents) = Available /\ Available \in 0 .. numEvents
<1>1. Available \in 0 .. numEvents /\ \A j \in 1 .. Available : Follow(mCurr, j - 1) \in Cells
  BY FollowInside DEF TypeOK, Available
<1>2. \A j \in 1 .. Available : mBuffer[Follow(mCurr, j - 1)] \in Events
  BY <1>1 DEF TypeOK
<1> QED BY <1>1, <1>2 DEF Contents

(* And so they are after a step.                                            *)
LEMMA ContentsTypeAfter ==
  ASSUME TypeOK'
  PROVE  /\ Contents' \in Seq(Events) /\ Len(Contents') = Available'
         /\ Available' \in 0 .. numEvents
<1>0. mBuffer' \in [Cells -> Events] /\ mCurr' \in 0 .. numEvents - 1 /\ mFreeSpace' \in 0 .. numEvents
  BY DEF TypeOK, Cells
<1>1. Available' \in 0 .. numEvents /\ \A j \in 1 .. Available' : Follow(mCurr', j - 1) \in Cells
  BY <1>0, FollowInside DEF Available
<1>2. \A j \in 1 .. Available' : mBuffer'[Follow(mCurr', j - 1)] \in Events
  BY <1>0, <1>1
<1> QED BY <1>1, <1>2 DEF Contents

(* A read appends to the queue.                                             *)
LEMMA FillIsFill ==
  ASSUME ReaderInv, NEW k \in 1 .. numEvents, NEW s \in [1 .. k -> Events], Fill(k, s)
  PROVE  Abstract!Fill
<1>0. TypeOK'
  BY FillKeepsInv DEF ReaderInv
<1>1. Available' = Available + k /\ mCurr' = mCurr
  BY ReaderAssumption DEF Fill, Available, ReaderInv, TypeOK
<1>2. /\ Contents \in Seq(Events) /\ Len(Contents) = Available
      /\ Contents' \in Seq(Events) /\ Len(Contents') = Available + k
      /\ Available \in 0 .. numEvents
  BY <1>0, <1>1, ContentsType, ContentsTypeAfter DEF ReaderInv
<1>3. s \in Seq(Events) /\ Len(s) = k
  OBVIOUS
<1>4. ASSUME NEW j \in 1 .. Available + k
      PROVE  Contents'[j] = IF j <= Available THEN Contents[j] ELSE s[j - Available]
  <2>1. Contents'[j] = mBuffer'[Follow(mCurr, j - 1)]
    BY <1>1 DEF Contents, Follow
  <2>2. CASE j <= Available
    <3>1. Contents[j] = mBuffer[Follow(mCurr, j - 1)]
      BY <1>2, <2>2 DEF Contents
    <3> QED BY <2>1, <2>2, <3>1, FillCells
  <2>3. CASE ~(j <= Available)
    BY <2>1, <2>3, FillCells
  <2> QED BY <2>2, <2>3
<1>5. Contents \o s \in Seq(Events) /\ Len(Contents \o s) = Available + k
  BY <1>2, <1>3
<1>6. ASSUME NEW j \in 1 .. Available + k
      PROVE  (Contents \o s)[j] = IF j <= Available THEN Contents[j] ELSE s[j - Available]
  BY <1>2, <1>3
<1>7. Contents' = Contents \o s
  BY <1>2, <1>4, <1>5, <1>6, SeqEqual
<1>8. k \in 0 .. numEvents - Len(Contents)
  BY <1>2, ReaderAssumption DEF Fill, Available, ReaderInv, TypeOK
<1> QED BY <1>7, <1>8 DEF Abstract!Fill, Fill

(* next() takes the oldest event off the queue.                             *)
LEMMA TakeIsTake ==
  ASSUME ReaderInv, TakeEvent
  PROVE  Abstract!Take
<1>0. TypeOK'
  BY TakeKeepsInv DEF ReaderInv
<1>1. Available' = Available - 1 /\ Available > 0 /\ mBuffer' = mBuffer
  BY ReaderAssumption DEF TakeEvent, Available, ReaderInv, TypeOK
<1>2. /\ Contents \in Seq(Events) /\ Len(Contents) = Available
      /\ Contents' \in Seq(Events) /\ Len(Contents') = Available - 1
      /\ Available \in 0 .. numEvents
  BY <1>0, <1>1, ContentsType, ContentsTypeAfter DEF ReaderInv
<1>3. \A j \in 1 .. Available - 1 : Contents'[j] = Contents[j + 1]
  <2>1. \A j \in 1 .. Available - 1 : Follow(mCurr', j - 1) = Follow(mCurr, j)
    BY <1>1, <1>2, ReaderAssumption DEF TakeEvent, Advance, Follow, ReaderInv, TypeOK
  <2> QED BY <1>1, <1>2, <2>1 DEF Contents
<1>4. Contents # << >>
  BY <1>1, <1>2
<1>5. /\ Tail(Contents) \in Seq(Events) /\ Len(Tail(Contents)) = Available - 1
      /\ \A j \in 1 .. Available - 1 : Tail(Contents)[j] = Contents[j + 1]
  BY <1>1, <1>2
<1>6. Contents' = Tail(Contents)
  BY <1>2, <1>3, <1>5, SeqEqual
<1> QED BY <1>4, <1>6 DEF Abstract!Take, TakeEvent

(* The positions of the reader stay inside the buffer, and the head is      *)
(* always where the events not yet taken end, so that no read overwrites    *)
(* one of them.                                                             *)
THEOREM ReaderPositions == Spec => [](TypeOK /\ HeadFollows)
<1>1. ReaderInv /\ [Next]_vars => ReaderInv'
  <2> SUFFICES ASSUME ReaderInv, [Next]_vars PROVE ReaderInv'
    OBVIOUS
  <2>1. CASE UNCHANGED vars
    BY <2>1 DEF vars, ReaderInv, TypeOK, HeadFollows, Available
  <2>2. CASE Next
    BY <2>2, FillKeepsInv, TakeKeepsInv DEF Next
  <2> QED BY <2>1, <2>2
<1>2. ReaderInv <=> TypeOK /\ HeadFollows
  BY DEF ReaderInv
<1> QED BY <1>1, <1>2, ReaderInvInit, PTL DEF Spec

(* The reader implements a queue: the driver sees the events of its device  *)
(* in order, none lost, none twice, whatever the sizes of the reads.        *)
THEOREM ReaderIsQueue == Spec => ImplementsQueue
<1>1. Init => Abstract!QueueInit
  BY ReaderAssumption DEF Init, Abstract!QueueInit, Contents, Available
<1>2. ReaderInv /\ [Next]_vars => [Abstract!QueueNext]_<<Contents, received>>
  <2> SUFFICES ASSUME ReaderInv, [Next]_vars PROVE [Abstract!QueueNext]_<<Contents, received>>
    OBVIOUS
  <2>1. CASE UNCHANGED vars
    BY <2>1 DEF vars, Contents, Available
  <2>2. CASE Next
    BY <2>2, FillIsFill, TakeIsTake DEF Next, Abstract!QueueNext
  <2> QED BY <2>1, <2>2
<1>3. ReaderInv <=> TypeOK /\ HeadFollows
  BY DEF ReaderInv
<1> QED BY <1>1, <1>2, <1>3, ReaderPositions, PTL DEF Spec, ImplementsQueue, Abstract!QueueSpec
=============================================================================
