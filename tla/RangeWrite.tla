----------------------------- MODULE RangeWrite -----------------------------
(***************************************************************************)
(* The bytes of one write: the SDK cuts the range at the block boundaries,  *)
(* the control checks the parts and plans a replacement for each block, a   *)
(* DataNode assembles every replacement from the records of the base block  *)
(* and the delta, chunk by chunk, and the commit puts the new blocks in the *)
(* manifest.  Then the file is read back: a range of it, through the plan   *)
(* of the control and the slices a DataNode cuts from its chunks, or the    *)
(* whole of it, by download.  Who may write, and when, is in FileAccess.    *)
(*                                                                          *)
(* Byte i of the file before the write is i, byte j of the payload is -j, a *)
(* zero that fills a chunk up is 0.  The assembly runs twice over the same  *)
(* records, for the digest and for the file; here once.                     *)
(***************************************************************************)
EXTENDS Integers, Sequences, SequencesExt

CONSTANTS
  BlockBytes,  \* size of a block
  ChunkBytes,  \* size of a chunk (CHUNK)
  MaxParts,    \* parts of a write (5 in the code)
  MaxFile,     \* bytes of the file at the start
  MaxDelta,    \* bytes of a write
  MaxRange,    \* bytes of a range that is read back
  PlanLimit    \* blocks of one page of a plan (64 in the code)

\* The largest write is a whole number of the smallest blocks, and begins anywhere in one.
ASSUME RangeAssumption ==
  /\ BlockBytes \in Nat \ {0} /\ ChunkBytes \in 1..BlockBytes /\ MaxFile \in Nat /\ MaxDelta \in Nat
  /\ MaxDelta = (MaxParts - 1) * BlockBytes
  /\ MaxRange \in Nat /\ PlanLimit \in Nat \ {0}

VARIABLES
  before,    \* size of the file before the write
  request,   \* offset and length of the write
  range,     \* where it is: the parts, the part being assembled and its buffers
  manifest,  \* the content of each block
  back       \* the read that follows: what it asks for, its page of the plan, what it has got

rangeVars == <<before, request, range, manifest, back>>

Smaller(a, b) == IF a < b THEN a ELSE b
Larger(a, b) == IF a > b THEN a ELSE b

\* The blocks of a file of n bytes: block i holds the bytes from i * BlockBytes on.
BlocksOf(n) ==
  [b \in 1..((n + BlockBytes - 1) \div BlockBytes) |->
     [i \in 1..Smaller(BlockBytes, n - (b - 1) * BlockBytes) |-> (b - 1) * BlockBytes + i]]

RangeInit ==
  /\ before \in 0..MaxFile
  /\ request \in [offset : 0..before, length : 1..MaxDelta]
  /\ manifest = BlocksOf(before)
  /\ range = [at |-> "split", cursor |-> 0, parts |-> <<>>, part |-> 1,
              source |-> <<>>, pending |-> <<>>, out |-> <<>>, made |-> <<>>]
  /\ back = [at |-> "none", whole |-> FALSE, offset |-> 0, length |-> 0, cursor |-> 0, plan |-> <<>>, got |-> <<>>]

-----------------------------------------------------------------------------
(* The parts.                                                               *)

\* The part of the write that begins at `cursor'.
Part(cursor) ==
  LET absolute == request.offset + cursor IN
  [index |-> absolute \div BlockBytes, offset |-> absolute % BlockBytes, delta |-> cursor,
   length |-> Smaller(request.length - cursor, BlockBytes - (absolute % BlockBytes))]

\* begin_write in the SDK.
SplitPart ==
  /\ range.at = "split" /\ range.cursor < request.length
  /\ range' = [range EXCEPT !.parts = Append(@, Part(range.cursor)), !.cursor = @ + Part(range.cursor).length]
  /\ UNCHANGED <<before, request, manifest, back>>

\* The block a part replaces; nothing when the file ends before it.
Base(part) == IF part.index < Len(manifest) THEN manifest[part.index + 1] ELSE <<>>

\* Mutant: a write into the middle of a block cuts the block off.
ReplacementToEnd(part) == part.offset + part.length
\* The size BeginWrite plans for the replacement.
ReplacementSize(part) == Larger(Len(Base(part)), part.offset + part.length)

\* BeginWrite makes the parts again and compares.
PartsOk ==
  /\ Len(range.parts) <= MaxParts
  /\ range.cursor = request.length
  /\ \A k \in 1..Len(range.parts) :
       range.parts[k] = Part(FoldLeft(LAMBDA n, p : n + p.length, 0, SubSeq(range.parts, 1, k - 1)))

\* A DataNode begins with a part: it reads the base, which the delta has to touch.
Assemble(k) ==
  IF range.parts[k].offset <= Len(Base(range.parts[k]))
  THEN [range EXCEPT !.at = "assemble", !.part = k, !.source = Base(range.parts[k]),
                     !.pending = <<>>, !.out = <<>>]
  ELSE [range EXCEPT !.at = "refused"]

BeginRange ==
  /\ range.at = "split" /\ range.cursor = request.length
  /\ range' = IF PartsOk THEN Assemble(1) ELSE [range EXCEPT !.at = "refused"]
  /\ UNCHANGED <<before, request, manifest, back>>

-----------------------------------------------------------------------------
(* result_chunks, for one part.                                             *)

Current == range.parts[range.part]
Wanted == Smaller(ChunkBytes, ReplacementSize(Current) - Len(range.out))

\* A record of the base file: a chunk, the last one shorter (PutBlock takes no other frames).
ReadRecord ==
  /\ range.at = "assemble" /\ Len(range.out) < ReplacementSize(Current)
  /\ Len(range.pending) < Wanted /\ range.source # <<>>
  /\ LET n == Smaller(ChunkBytes, Len(range.source))
     IN  range' = [range EXCEPT !.pending = @ \o SubSeq(range.source, 1, n),
                                !.source = SubSeq(@, n + 1, Len(@))]
  /\ UNCHANGED <<before, request, manifest, back>>

\* Where the base ends before the chunk does, the delta has to cover the rest.
Covered(have) ==
  /\ Len(range.out) + have >= Current.offset
  /\ Len(range.out) + Wanted <= Current.offset + Current.length

\* A chunk: what is left of the base, filled up with zeros, under the delta.
EmitChunk ==
  /\ range.at = "assemble" /\ Len(range.out) < ReplacementSize(Current)
  /\ Len(range.pending) >= Wanted \/ range.source = <<>>
  /\ LET have  == Smaller(Wanted, Len(range.pending))
         at    == Len(range.out)
         low   == Larger(at, Current.offset)
         high  == Smaller(at + Wanted, Current.offset + Current.length)
         chunk == [i \in 1..Wanted |->
                     CASE low < at + i /\ at + i <= high -> -(Current.delta + at + i - Current.offset)
                       [] ~(low < at + i /\ at + i <= high) /\ i <= have -> range.pending[i]
                       [] OTHER -> 0]
     IN  range' = IF have < Wanted /\ ~Covered(have) THEN [range EXCEPT !.at = "refused"]
                  ELSE [range EXCEPT !.out = @ \o chunk,
                                     !.pending = SubSeq(@, have + 1, Len(@))]
  /\ UNCHANGED <<before, request, manifest, back>>

\* The replacement is stored; the next part.
PartStored ==
  /\ range.at = "assemble" /\ Len(range.out) = ReplacementSize(Current)
  /\ range' = IF range.part < Len(range.parts)
              THEN [Assemble(range.part + 1) EXCEPT !.made = Append(range.made, range.out)]
              ELSE [range EXCEPT !.at = "commit", !.made = Append(@, range.out)]
  /\ UNCHANGED <<before, request, manifest, back>>

\* CommitWrite: each replacement in the place of its base, or at the end.
CommitRange ==
  /\ range.at = "commit"
  /\ manifest' = FoldLeft(LAMBDA blocks, k :
                            IF range.parts[k].index = Len(blocks) THEN Append(blocks, range.made[k])
                            ELSE [blocks EXCEPT ![range.parts[k].index + 1] = range.made[k]],
                          manifest, [k \in 1..Len(range.parts) |-> k])
  /\ range' = [range EXCEPT !.at = "done"]
  /\ UNCHANGED <<before, request, back>>

-----------------------------------------------------------------------------
(* Reading it back.                                                         *)

FileSize == Len(FlattenSeq(manifest))

\* read and _read_serialized for a range, that may go beyond the end; receive for the whole.
BeginBack ==
  /\ range.at = "done" /\ back.at = "none"
  /\ \/ \E o \in 0..(FileSize + 1), n \in 0..MaxRange :
          back' = [back EXCEPT !.at = "resolve", !.offset = o, !.length = n]
     \/ back' = [back EXCEPT !.at = "resolve", !.whole = TRUE, !.length = FileSize]
  /\ UNCHANGED <<before, request, range, manifest>>

\* The plan of a control with file access: the blocks from that of the first byte to that of
\* the last, each with the range of it that is granted.
RangePlan ==
  LET end   == Smaller(back.offset + back.length, FileSize)
      first == back.offset \div BlockBytes
      stop  == IF back.length > 0 /\ back.offset < end THEN (end + BlockBytes - 1) \div BlockBytes ELSE first
  IN  [k \in 1..(stop - first) |->
         LET low == Larger(0, back.offset - (first + k - 1) * BlockBytes)
         IN  [index |-> first + k, offset |-> low,
              length |-> Smaller(Len(manifest[first + k]), end - (first + k - 1) * BlockBytes) - low]]

\* The plan of a control without: the blocks that the range touches, whole.
WholePlan ==
  LET Touched(b) == /\ (b - 1) * BlockBytes < back.offset + back.length
                    /\ (b - 1) * BlockBytes + Len(manifest[b]) > back.offset
      touched == SelectSeq([b \in 1..Len(manifest) |-> b], Touched)
  IN  [k \in 1..Len(touched) |->
         [index |-> touched[k], offset |-> 0, length |-> Len(manifest[touched[k]])]]

\* A page of the plan; the cursor counts blocks.
ResolvePage ==
  /\ back.at = "resolve"
  /\ \E plan \in IF back.whole THEN {RangePlan, WholePlan} ELSE {RangePlan} :
       LET page == SubSeq(plan, back.cursor + 1, Smaller(Len(plan), back.cursor + PlanLimit))
       IN  back' = [back EXCEPT !.plan = page, !.cursor = @ + Len(page),
                                !.at = CASE page # <<>> /\ back.cursor + Len(page) < Len(plan) -> "page"
                                         [] page # <<>> /\ back.cursor + Len(page) = Len(plan) -> "last"
                                         [] OTHER -> "done"]
  /\ UNCHANGED <<before, request, range, manifest>>

\* authorize() in the DataNode: a range of the block, and not an empty one.
RangeGranted(g) == g.offset <= Len(manifest[g.index]) /\ g.length \in 1..(Len(manifest[g.index]) - g.offset)

\* What GetBlock sends of the chunk that begins at `position' of the block.
SliceOf(g, position, chunk) ==
  SubSeq(chunk, Larger(g.offset, position) - position + 1,
                Smaller(g.offset + g.length, position + Len(chunk)) - position)

\* GetBlock of a block of the page: its chunks, up to the end of the range.
GetRange ==
  /\ back.at \in {"page", "last"}
  /\ LET g      == Head(back.plan)
         block  == manifest[g.index]
         chunks == (Smaller(Len(block), g.offset + g.length) + ChunkBytes - 1) \div ChunkBytes
         slices == [k \in 1..chunks |->
                      SliceOf(g, (k - 1) * ChunkBytes,
                              SubSeq(block, (k - 1) * ChunkBytes + 1, Smaller(k * ChunkBytes, Len(block))))]
     IN  back' = IF ~RangeGranted(g) THEN [back EXCEPT !.at = "refused"]
                 ELSE [back EXCEPT !.got = @ \o FlattenSeq(slices), !.plan = Tail(@),
                                   !.at = CASE Len(back.plan) > 1 -> @
                                            [] Len(back.plan) = 1 /\ back.at = "page" -> "resolve"
                                            [] OTHER -> "done"]
  /\ UNCHANGED <<before, request, range, manifest>>

RangeNext ==
  \/ SplitPart \/ BeginRange \/ ReadRecord \/ EmitChunk \/ PartStored \/ CommitRange
  \/ BeginBack \/ ResolvePage \/ GetRange

RangeSpec == RangeInit /\ [][RangeNext]_rangeVars

-----------------------------------------------------------------------------
(* Property.                                                                *)

\* The file after the write, by definition: the payload over the old bytes.
Overlay ==
  [i \in 1..Larger(before, request.offset + request.length) |->
     IF request.offset < i /\ i <= request.offset + request.length THEN request.offset - i ELSE i]

\* A write that begins in the file or at its end is refused by none of the checks on its way
\* (parts, sparse ranges), and what is published is the old content with the payload over it,
\* in blocks that are all full but the last, wherever block, chunk and record boundaries fall
\* (begin_write, BeginWrite, patch_block, CommitWrite).  A range read afterwards gives those
\* bytes of it and no other, up to the end of the file, and a download the whole of it
\* (ResolveBlocks, GetBlock).
WriteExact ==
  /\ range.at # "refused" /\ back.at # "refused"
  /\ range.at = "done" =>
       /\ FlattenSeq(manifest) = Overlay
       /\ \A b \in 1..Len(manifest) : b < Len(manifest) => Len(manifest[b]) = BlockBytes
  /\ back.at = "done" =>
       back.got = SubSeq(Overlay, back.offset + 1, Smaller(back.offset + back.length, Len(Overlay)))
=============================================================================
