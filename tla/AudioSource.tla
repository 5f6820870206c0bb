----------------------------- MODULE AudioSource ------------------------------
(***************************************************************************)
(* RingBufferAudioSource (components/audio/audio_transfer_buffer): a       *)
(* consumer reads frames in place from the storage of a ring buffer that a *)
(* task of its own fills.                                                  *)
(*                                                                         *)
(* Bytes are numbered as they are written: a byte is its place in the      *)
(* stream.  The ring buffer itself is another component, modelled by what  *)
(* its callers see: an acquired item is a contiguous piece of its storage, *)
(* which cannot be written before the item is released.                    *)
(***************************************************************************)
EXTENDS Integers, Sequences

CONSTANTS RingSize,
          MaxFill,     (* max_fill_bytes_ *)
          Alignment,   (* alignment_bytes_, 1 .. MAX_ALIGNMENT_BYTES *)
          FileLength   (* the bytes the writer has *)

SourceConstants ==
  {RingSize, MaxFill, Alignment, FileLength} \subseteq Nat \ {0}

ASSUME SourceAssumption == SourceConstants

VARIABLES
  ring,             (* the bytes written and not yet acquired *)
  head,             (* where the next of them lies in the storage *)
  written,          (* how many bytes have been written *)
  acquired,         (* the bytes of acquired_item_, <<>> if it is nullptr *)
  current,          (* current_data_ .. current_available_ *)
  inSplice,         (* does current_data_ point into splice_buffer_? *)
  queued,           (* queued_data_ .. queued_length_ *)
  item_trailing,    (* item_trailing_ptr_ .. item_trailing_length_ *)
  splice,           (* splice_buffer_ .. splice_length_ *)
  taken,            (* history: the last byte consumed *)
  base              (* history: where the frames are counted from, the first *)
                    (* byte after the last clear                             *)

sourceVars == <<ring, head, written, acquired, current, inSplice, queued,
                item_trailing, splice, taken, base>>

SourceInit ==
  /\ ring = <<>> /\ head = 0 /\ written = 0
  /\ acquired = <<>>
  /\ current = <<>> /\ inSplice = FALSE
  /\ queued = <<>> /\ item_trailing = <<>> /\ splice = <<>>
  /\ taken = 0 /\ base = 0

Smaller(x, y) == IF x < y THEN x ELSE y
Bytes(from, n) == [k \in 1 .. n |-> from + k]
First(s, n) == SubSeq(s, 1, n)
From(s, n) == SubSeq(s, n + 1, Len(s))

RingFree == RingSize - Len(ring) - Len(acquired)

(* write_without_replacement, from the writer's task: as much as there is  *)
(* room for.                                                               *)
WriteRing(bytes) ==
  /\ bytes # <<>> /\ Len(bytes) <= RingFree
  /\ ring' = ring \o bytes
  /\ written' = written + Len(bytes)
  /\ UNCHANGED <<head, acquired, current, inSplice, queued, item_trailing, splice,
                 taken, base>>

Write == \E n \in 1 .. FileLength - written : WriteRing(Bytes(written, n))

(* release_item_(): what is left of the item and its splice, after it.     *)
(* The tail of less than a frame is copied, and the item returned.         *)
SpliceWithoutTail(item, trailing, sp) == sp   (* mutant: the tail is not copied *)
SpliceAfter(item, trailing, sp) ==
  IF item # <<>> /\ trailing # <<>> THEN trailing ELSE sp

(* What consume() says depends on the held item. *)
NothingExposed(c, q) == c = <<>>   (* mutant: the queued bytes are forgotten *)
NothingDepends(c, q) == c = <<>> /\ q = <<>>

Consume(n) ==
  /\ n \in 1 .. Len(current)
  /\ current' = From(current, n)
  /\ taken' = current[n]
  /\ IF NothingDepends(current', queued)
     THEN /\ splice' = SpliceAfter(acquired, item_trailing, splice)
          /\ acquired' = <<>> /\ item_trailing' = <<>>
     ELSE UNCHANGED <<acquired, item_trailing, splice>>
  /\ UNCHANGED <<ring, head, written, inSplice, queued, base>>

(* fill() promotes what is queued ... *)
FillQueued ==
  /\ current = <<>> /\ queued # <<>>
  /\ current' = queued /\ inSplice' = FALSE
  /\ queued' = <<>>
  /\ UNCHANGED <<ring, head, written, acquired, item_trailing, splice, taken, base>>

(* ... or acquires a new chunk: no more than max_fill_bytes_, up to the    *)
(* end of the storage.  The head of the chunk completes the spliced frame, *)
(* and what is less than a frame at its end waits for the release.         *)
ChunkLength == Smaller(Smaller(MaxFill, Len(ring)), RingSize - head)
NeededWhole(sp) == IF sp = <<>> THEN 0 ELSE Alignment   (* mutant: a frame more *)
Needed(sp) == IF sp = <<>> THEN 0 ELSE Alignment - Len(sp)

Acquire(chunk) ==
  /\ ring' = From(ring, Len(chunk))
  /\ head' = (head + Len(chunk)) % RingSize

FillChunk ==
  /\ current = <<>> /\ queued = <<>> /\ ring # <<>>
  /\ LET sp == SpliceAfter(acquired, item_trailing, splice)
         chunk == First(ring, ChunkLength)
         rest == From(chunk, Needed(sp))
         aligned == Len(rest) - (Len(rest) % Alignment)
         tail == From(rest, aligned)
     IN /\ Acquire(chunk)
        /\ \/ (* absorbed by the splice, which is still incomplete *)
              /\ Len(chunk) < Needed(sp)
              /\ splice' = sp \o chunk
              /\ acquired' = <<>> /\ item_trailing' = <<>>
              /\ UNCHANGED <<current, inSplice, queued>>
           \/ (* the spliced frame is exposed, the rest queued *)
              /\ sp # <<>> /\ Len(chunk) >= Needed(sp)
              /\ current' = sp \o First(chunk, Needed(sp)) /\ inSplice' = TRUE
              /\ queued' = First(rest, aligned)
              /\ splice' = <<>>
              /\ acquired' = chunk /\ item_trailing' = tail
           \/ (* less than a frame: saved, and the item released *)
              /\ sp = <<>> /\ aligned = 0
              /\ splice' = tail
              /\ acquired' = <<>> /\ item_trailing' = <<>>
              /\ UNCHANGED <<current, inSplice, queued>>
           \/ /\ sp = <<>> /\ aligned > 0
              /\ current' = First(rest, aligned) /\ inSplice' = FALSE
              /\ splice' = <<>>
              /\ acquired' = chunk /\ item_trailing' = tail
              /\ UNCHANGED queued
  /\ UNCHANGED <<written, taken, base>>

Fill == FillQueued \/ FillChunk

(* clear_buffered_data(): what comes next counts as the start of a frame.  *)
ClearBufferedData ==
  /\ ring' = <<>> /\ head' = 0
  /\ acquired' = <<>> /\ current' = <<>> /\ queued' = <<>>
  /\ item_trailing' = <<>> /\ splice' = <<>> /\ inSplice' = FALSE
  /\ taken' = written /\ base' = written
  /\ UNCHANGED written

HasBufferedData == current # <<>> \/ queued # <<>> \/ ring # <<>>

SourceNext ==
  \/ Write
  \/ \E n \in 1 .. Len(current) : Consume(n)
  \/ Fill
  \/ ClearBufferedData

SourceSpec == SourceInit /\ [][SourceNext]_sourceVars

----------------------------------------------------------------------------
(* Properties. *)

SourceTypeOK ==
  /\ written \in 0 .. FileLength /\ taken \in 0 .. written
  /\ head \in 0 .. RingSize - 1
  /\ RingFree \in 0 .. RingSize
  /\ Len(splice) < Alignment /\ Len(item_trailing) < Alignment

(* What is exposed, queued, kept and still in the ring is the stream from  *)
(* the first byte not consumed to the last byte written: no byte is lost,  *)
(* repeated or out of order, wherever the chunks and the storage end.      *)
StreamInOrder ==
  current \o queued \o item_trailing \o splice \o ring = Bytes(taken, written - taken)

(* Every fill exposes whole frames, from the first byte of one.            *)
WholeFrames ==
  /\ (taken - base + Len(current)) % Alignment = 0
  /\ Len(queued) % Alignment = 0

(* The item is held exactly as long as exposed or queued bytes need it, so *)
(* no pointer looks into storage that may be written, and the writer gets  *)
(* the storage back without another fill().                                *)
HeldAsNeeded ==
  /\ acquired # <<>> <=> ~NothingDepends(current, queued)
  /\ current # <<>> /\ inSplice => splice = <<>>
=============================================================================
