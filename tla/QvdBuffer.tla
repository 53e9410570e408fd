---------------------------- MODULE QvdBuffer ----------------------------
(***************************************************************************)
(* The fixed buffer of qvdbuffer.c: an array of BUFFER_SIZE bytes with the *)
(* index of the next byte to write out (offset) and the index where the    *)
(* next byte read is stored (size).  The live bytes are data[offset] to    *)
(* data[size-1]; nothing is ever moved down, the space in front of offset  *)
(* comes back only when the buffer is drained and reset.                   *)
(*                                                                         *)
(* A byte is a number: its position, from 1, in the stream it belongs to.  *)
(* 0 is the zero the array is initialised with.  That is all the relay     *)
(* can tell apart: it copies bytes and never looks at them.                *)
(***************************************************************************)
EXTENDS Naturals, Sequences

CONSTANT BUFFER_SIZE  \* capacity of the array, 65536 in the code

ASSUME BufferSizeAssumption == BUFFER_SIZE \in Nat \ {0}

Slots == 0 .. BUFFER_SIZE - 1

QvdBuffers == [data : [Slots -> Nat], offset : Nat, size : Nat]

QvdBufferInit == [data |-> [i \in Slots |-> 0], offset |-> 0, size |-> 0]

\* Mutant: a buffer with no room left still asks for bytes.
CanReadFull(b) == b.size <= BUFFER_SIZE

QvdBufferCanRead(b) == b.size < BUFFER_SIZE

QvdBufferCanWrite(b) == b.offset < b.size

QvdBufferReset(b) == [b EXCEPT !.offset = 0, !.size = 0]

\* Mutant: the room is counted from the wrong index.
RoomAfterOffset(b) == BUFFER_SIZE - b.offset

\* The room read(2) and curl_easy_recv are given: data+size to the array's end.
Room(b) == BUFFER_SIZE - b.size

\* The bytes write(2) and curl_easy_send are given: data+offset, size-offset long.
Live(b) == [i \in 1 .. b.size - b.offset |-> b.data[b.offset + i - 1]]

\* Mutant: the bytes are stored at data+offset, the reading pointer.
FillAtOffset(b, bytes) ==
  [b EXCEPT !.data = [i \in Slots |->
                        IF i \in b.offset .. b.offset + Len(bytes) - 1
                        THEN bytes[i - b.offset + 1] ELSE b.data[i]],
            !.size = @ + Len(bytes)]

\* What a successful read leaves: the bytes at data+size, size moved past them.
QvdBufferRead(b, bytes) ==
  [data |-> [i \in Slots |-> IF i \in b.size .. b.size + Len(bytes) - 1
                             THEN bytes[i - b.size + 1] ELSE b.data[i]],
   offset |-> b.offset,
   size |-> b.size + Len(bytes)]

\* Mutant: whatever was written, the buffer is taken for drained.
DrainAll(b, n) == QvdBufferReset(b)

\* Mutant: the drained buffer is not reset.
DrainNoReset(b, n) == [b EXCEPT !.offset = @ + n]

\* What a write that took n bytes leaves: the drained buffer is reset.
QvdBufferWrite(b, n) ==
  IF b.offset + n >= b.size THEN QvdBufferReset(b)
                            ELSE [b EXCEPT !.offset = @ + n]
=============================================================================
