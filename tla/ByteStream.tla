----------------------------- MODULE ByteStream -----------------------------
(***************************************************************************)
(* src/src/byte_stream.cc: a byte stream kept in one string and two        *)
(* offsets.  Bytes are written at end_ and read at begin_; a push that     *)
(* would run off the string's end first moves what is buffered to its      *)
(* head.  The counters are modelled without their 64-bit width.            *)
(***************************************************************************)
EXTENDS Integers, Sequences

CONSTANTS
    Capacity,   \* capacity_
    Bytes,      \* the values a byte can have
    Blank,      \* the byte the string is filled with when it is made
    Writes,     \* the strings a writer may push
    PopBeyond,  \* by how much a caller's pop may exceed what is buffered
    MaxPushed   \* bound: bytes a writer offers in all

ASSUME CapacityAssumption == Capacity \in Nat
ASSUME BytesAssumption    == Blank \in Bytes
ASSUME WritesAssumption   == Writes \subseteq Seq(Bytes)
ASSUME BoundsAssumption   == PopBeyond \in Nat /\ MaxPushed \in Nat

VARIABLES
    content_,     \* the string: Capacity + 1 places, the last never written
    begin_,       \* offset of the oldest byte buffered
    end_,         \* offset after the newest byte buffered
    pushed_cnt_,  \* bytes_pushed()
    popped_cnt_,  \* bytes_popped()
    is_closed_,   \* Writer::close was called
    error_,       \* set_error was called
    accepted,     \* history: the bytes pushes have stored
    taken         \* history: the bytes pops have removed, as peek showed them

vars == << content_, begin_, end_, pushed_cnt_, popped_cnt_, is_closed_,
           error_, accepted, taken >>

Smaller(a, b) == IF a < b THEN a ELSE b

available_capacity == Capacity - (end_ - begin_)
bytes_buffered     == end_ - begin_
peek               == [i \in 1 .. bytes_buffered |-> content_[begin_ + i - 1]]
is_finished        == is_closed_ /\ begin_ = end_

Init ==
    /\ content_ = [i \in 0 .. Capacity |-> Blank]
    /\ begin_ = 0 /\ end_ = 0
    /\ pushed_cnt_ = 0 /\ popped_cnt_ = 0
    /\ is_closed_ = FALSE /\ error_ = FALSE
    /\ accepted = << >> /\ taken = << >>

(***************************************************************************)
(* The bytes a push moves and stores.  Base is where the buffered bytes    *)
(* begin after the move (begin_ itself when no move is needed), Stored how *)
(* many of the new bytes fit.                                              *)
(***************************************************************************)
BaseNeverMoves(data) == begin_                 \* mutant: no move to the head
Base(data) == IF end_ + Len(data) > Capacity THEN 0 ELSE begin_

NewAt(data) == Base(data) + bytes_buffered      \* where the new bytes go

StoredAll(data) == Len(data)                   \* mutant: no cut at capacity_
Stored(data) == Smaller(Len(data), Capacity - NewAt(data))

\* The places the moved bytes and the new bytes are copied to.
KeptPlaces(data) == Base(data) .. (NewAt(data) - 1)
NewPlaces(data)  == NewAt(data) .. (NewAt(data) + Stored(data) - 1)

WrittenUnmoved(data) ==                        \* mutant: offsets move, bytes stay
    [i \in 0 .. Capacity |->
        IF i \in NewPlaces(data) THEN data[i - NewAt(data) + 1] ELSE content_[i]]
MovedAndWritten(data) ==
    [i \in 0 .. Capacity |->
        IF i \in KeptPlaces(data) THEN content_[begin_ + (i - Base(data))]
        ELSE IF i \in NewPlaces(data) THEN data[i - NewAt(data) + 1]
        ELSE content_[i]]

Push(data) ==
    /\ pushed_cnt_ + Len(data) <= MaxPushed
    /\ IF is_closed_
         THEN UNCHANGED << content_, begin_, end_, pushed_cnt_, accepted >>
         ELSE /\ content_' = MovedAndWritten(data)
              /\ begin_' = Base(data)
              /\ end_' = NewAt(data) + Stored(data)
              /\ pushed_cnt_' = pushed_cnt_ + Stored(data)
              /\ accepted' = accepted \o SubSeq(data, 1, Stored(data))
    /\ UNCHANGED << popped_cnt_, is_closed_, error_, taken >>

Close ==
    /\ is_closed_' = TRUE
    /\ UNCHANGED << content_, begin_, end_, pushed_cnt_, popped_cnt_, error_,
                    accepted, taken >>

SetError ==
    /\ error_' = TRUE
    /\ UNCHANGED << content_, begin_, end_, pushed_cnt_, popped_cnt_,
                    is_closed_, accepted, taken >>

(***************************************************************************)
(* Reader::pop.  In the second branch the code moves begin_ up to end_     *)
(* first and then adds their difference, by now 0, to popped_cnt_.         *)
(***************************************************************************)
Pop(len) ==
    /\ IF begin_ + len <= end_
         THEN /\ begin_' = begin_ + len
              /\ popped_cnt_' = popped_cnt_ + len
         ELSE /\ begin_' = end_
              /\ popped_cnt_' = popped_cnt_ + (end_ - begin_')
    /\ taken' = taken \o SubSeq(peek, 1, Smaller(len, bytes_buffered))
    /\ UNCHANGED << content_, end_, pushed_cnt_, is_closed_, error_, accepted >>

(***************************************************************************)
(* read( reader, len, out ): peek and pop up to len bytes.  Peek shows all *)
(* that is buffered, so the helper's loop runs once.                       *)
(***************************************************************************)
Read(len) == Pop(Smaller(len, bytes_buffered))

Next ==
    \/ \E data \in Writes : Push(data)
    \/ Close
    \/ SetError
    \/ \E len \in 0 .. bytes_buffered + PopBeyond : Pop(len)
    \/ \E len \in 0 .. Capacity : Read(len)

Spec == Init /\ [][Next]_vars

-----------------------------------------------------------------------------
\* Every variable has its type, and the offsets stay in the string: what push
\* copies (byte_stream.cc:28-43) never reaches beyond capacity_.
TypeOK ==
    /\ content_ \in [0 .. Capacity -> Bytes]
    /\ begin_ \in Nat /\ end_ \in Nat
    /\ begin_ <= end_ /\ end_ <= Capacity
    /\ pushed_cnt_ \in Nat /\ popped_cnt_ \in Nat
    /\ is_closed_ \in BOOLEAN /\ error_ \in BOOLEAN
    /\ accepted \in Seq(Bytes) /\ taken \in Seq(Bytes)

\* The bytes stored so far are the bytes removed so far followed by the bytes
\* peek shows: moving the buffered bytes to the head of the string
\* (byte_stream.cc:30) loses, repeats and reorders none of them.
NothingLostOrReordered == accepted = taken \o peek

\* bytes_pushed and bytes_popped count what was stored and what was removed
\* (byte_stream.hh:48,59: "Total number of bytes cumulatively popped from
\* stream"), so that their difference is what is buffered.
CountersMatchBytes ==
    /\ pushed_cnt_ = Len(accepted)
    /\ popped_cnt_ = Len(taken)

\* A push into an open stream stores as many of its bytes as there is room for
\* in the whole stream (byte_stream.hh:43), wherever in the string the buffered
\* bytes lie.
PushFillsRoom ==
    [][\A data \in Writes :
          Push(data) /\ ~is_closed_ =>
              Len(accepted') = Len(accepted) + Smaller(Len(data), available_capacity)]_vars

\* The string and its two offsets implement the bounded queue of Fifo.tla.
FifoOfStream ==
    [cap |-> Capacity, buf |-> peek, closed |-> is_closed_, error |-> error_,
     pushed |-> pushed_cnt_, popped |-> popped_cnt_]

Abstract == INSTANCE ByteFifo WITH fifo <- FifoOfStream

ImplementsFifo == Abstract!Spec
=============================================================================
