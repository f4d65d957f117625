-------------------------- MODULE PackIndexBuilder --------------------------
(***************************************************************************)
(* packIndexBuilder (block/builder.go): a map from block ID to the newest  *)
(* Info added for it, and Build, which writes the map as one pack index:   *)
(* a header, the entries sorted by key, and the names of the pack files    *)
(* the entries point into.                                                 *)
(*                                                                         *)
(* Block IDs are numbers ordered as the ID strings are, a pack file name   *)
(* is the sequence of its bytes <<name, 1>>, <<name, 2>>, ..., and the     *)
(* bit fields of an entry keep their layout at the widths the constants    *)
(* give, so that what overflows a field in the code overflows it here.     *)
(***************************************************************************)
EXTENDS Integers, FiniteSets, Sequences, SequencesExt, Bitwise

CONSTANTS
    BlockIDs,      \* block IDs: naturals, in the order of the ID strings
    KeyLen,        \* KeyLen[id] = len(contentIDToBytes(id))
    PackFiles,     \* pack file names
    PackLen,       \* PackLen[pf] = len(pf); the name "" is the one of length 0
    Infos,         \* the Infos callers add
    TsBits,        \* width of the timestamp field (48)
    ByteBits,      \* width of a byte: format version, name length (8)
    OffBits,       \* width of the offset under the deleted bit (31)
    WordBits,      \* width of a uint32: offsets into the index (32)
    BufSize,       \* size of bufio.Writer's buffer (4096)
    WriterLimits,  \* bytes the output takes before its Write fails
    NoIndex        \* no index was written

HeaderLength == 8
EntryLength  == 20
DeletedBit   == 2^OffBits
Byte         == 0..(2^ByteBits - 1)
Word         == 0..(2^WordBits - 1)
Uint32(n)    == n % 2^WordBits

ASSUME /\ BlockIDs \subseteq Nat /\ KeyLen \in [BlockIDs -> Nat \ {0}]
       /\ PackLen \in [PackFiles -> Nat]
       /\ {TsBits, ByteBits, OffBits, WordBits} \subseteq Nat \ {0}
       /\ BufSize \in Nat \ {0} /\ WriterLimits \subseteq Nat
       /\ \A i \in Infos :
             /\ i.BlockID \in BlockIDs /\ i.PackFile \in PackFiles
             /\ i.TimestampSeconds \in Nat /\ i.FormatVersion \in Byte
             /\ i.PackOffset \in 0..(2 * DeletedBit - 1) /\ i.Length \in Nat
             /\ {i.Deleted, i.Payload} \subseteq BOOLEAN

VARIABLES
    builder,   \* the packIndexBuilder map
    status,    \* how the last Build ended, "none" since the last Add
    written,   \* the bytes the output received from the last Build
    index,     \* the index those bytes are, when all of it was written
    newest     \* history: newest[id], the greatest timestamp added for id

vars == <<builder, status, written, index, newest>>

Statuses == {"none", "ok", "invalid", "write_error", "panic"}

Init ==
    /\ builder = <<>>
    /\ status = "none" /\ written = 0 /\ index = NoIndex
    /\ newest = <<>>

-----------------------------------------------------------------------------
(* Add *)

\* The new Info replaces the old one unless it is older.
ReplacesAlways(new, old) == TRUE
Replaces(new, old) == new.TimestampSeconds >= old.TimestampSeconds

\* Add(i); the outcome of an earlier Build is of no interest after it.
Add(i) ==
    /\ builder' = IF i.BlockID \in DOMAIN builder => Replaces(i, builder[i.BlockID])
                  THEN [id \in DOMAIN builder \cup {i.BlockID} |->
                           IF id = i.BlockID THEN i ELSE builder[id]]
                  ELSE builder
    /\ status' = "none" /\ written' = 0 /\ index' = NoIndex

-----------------------------------------------------------------------------
(* The layout of an index *)

KeyOrderReversed(a, b) == a > b
KeyOrder(a, b) == a < b

sortedBlocks(b) ==
    LET ids == SetToSortSeq(DOMAIN b, KeyOrder)
    IN  [n \in DOMAIN ids |-> b[ids[n]]]

NameBytes(pf) == [n \in 1..PackLen[pf] |-> <<pf, n>>]

\* The pack files of the blocks, each once, in the order they are met.
PackOrder(blocks) ==
    FoldLeft(LAMBDA seen, it :
                 IF PackLen[it.PackFile] = 0 \/ Contains(seen, it.PackFile)
                 THEN seen ELSE Append(seen, it.PackFile),
             <<>>, blocks)

\* type indexLayout: what the fields of a layout l hold.
indexLayout(l) ==
    /\ DOMAIN l.packFileOffsets \subseteq PackFiles
    /\ l.packFileOffsets \in [DOMAIN l.packFileOffsets -> Word]
    /\ l.entryCount \in Nat /\ l.keyLength \in Int
    /\ l.entryLength = EntryLength
    /\ l.extraDataOffset \in Word

\* prepareExtraData: the names one after the other, where each starts, and
\* the key length, which is the one of the first block.
prepareExtraData(blocks) ==
    LET order == PackOrder(blocks)
        names == [n \in DOMAIN order |-> NameBytes(order[n])]
        keyLength == IF blocks = <<>> THEN -1 ELSE KeyLen[blocks[1].BlockID]
    IN  [extraData       |-> FlattenSeq(names),
         packFileOffsets |-> [pf \in ToSet(order) |-> Uint32(
             Len(FlattenSeq(SubSeq(names, 1, SelectInSeq(order, LAMBDA o : o = pf) - 1))))],
         entryCount      |-> Len(blocks),
         keyLength       |-> keyLength,
         entryLength     |-> EntryLength,
         extraDataOffset |->
             Uint32(HeaderLength + Len(blocks) * (keyLength + EntryLength))]

Panics(blocks) == \E n \in DOMAIN blocks : blocks[n].Payload

\* header[1] = byte(layout.keyLength)
HeaderKeyLengthRaw(keyLength) == keyLength
HeaderKeyLength(keyLength) == keyLength % 2^ByteBits

\* writeEntry and formatEntry refuse a key of another length and a block in
\* no pack file.
EntryFails(it, layout) ==
    KeyLen[it.BlockID] # layout.keyLength \/ PackLen[it.PackFile] = 0

\* it.PackOffset|0x80000000 for a deleted block
PackedOffset(it) ==
    IF it.Deleted THEN it.PackOffset | DeletedBit ELSE it.PackOffset

\* formatEntry: the 20 bytes of an entry as its four big-endian fields.
formatEntry(it, layout) ==
    [key               |-> it.BlockID,
     timestampAndFlags |->
         ((it.TimestampSeconds * 2^(2 * ByteBits)) % 2^(TsBits + 2 * ByteBits))
             | ((it.FormatVersion * 2^ByteBits) | PackLen[it.PackFile]),
     packFileOffset    |->
         Uint32(layout.extraDataOffset + layout.packFileOffsets[it.PackFile]),
     packedOffset      |-> PackedOffset(it),
     packedLength      |-> it.Length]

-----------------------------------------------------------------------------
(* The bufio.Writer between Build and its output *)

\* The output takes what it is given until its limit, then fails.
Emit(w, n, limit) ==
    IF w.out + n > limit THEN [w EXCEPT !.failed = TRUE]
    ELSE [w EXCEPT !.out = @ + n, !.buffered = 0]

Flush(w, limit) ==
    IF w.failed \/ w.buffered = 0 THEN w ELSE Emit(w, w.buffered, limit)

\* Write(p), len(p) = n: what fits is buffered; a full buffer is flushed, and
\* what does not fit an empty buffer goes to the output directly.
RECURSIVE BufWrite(_, _, _)
BufWrite(w, n, limit) ==
    IF w.failed THEN w
    ELSE IF n <= BufSize - w.buffered THEN [w EXCEPT !.buffered = @ + n]
    ELSE IF w.buffered = 0 THEN Emit(w, n, limit)
    ELSE BufWrite(Flush([w EXCEPT !.buffered = BufSize], limit),
                  n - (BufSize - w.buffered), limit)

\* return w.Flush()
FinishUnflushed(w, limit) == w
Finish(w, limit) == Flush(w, limit)

-----------------------------------------------------------------------------
(* Build *)

\* writeEntry: nothing once Build has returned; an entry refused; or the key
\* and the entry, the second Write failing when the first one has.
writeEntry(w, it, layout, limit) ==
    IF w.failed \/ w.refused THEN w
    ELSE IF EntryFails(it, layout) THEN [w EXCEPT !.refused = TRUE]
    ELSE BufWrite(BufWrite(w, layout.keyLength, limit), layout.entryLength, limit)

\* Build(output), for an output that fails after limit bytes: the header,
\* then the blocks up to the first one refused, then the names and the
\* Flush, each through the bufio.Writer.
Build(limit) ==
    LET blocks  == sortedBlocks(builder)
        layout  == prepareExtraData(blocks)
        header  == BufWrite([buffered |-> 0, out |-> 0, failed |-> FALSE,
                             refused |-> FALSE], HeaderLength, limit)
        entries == FoldLeft(LAMBDA w, it : writeEntry(w, it, layout, limit),
                            header, blocks)
        end     == IF entries.refused THEN entries
                   ELSE Finish(BufWrite(entries, Len(layout.extraData), limit), limit)
    IN  /\ status' = IF Panics(blocks) THEN "panic"
                     ELSE IF end.failed THEN "write_error"
                     ELSE IF end.refused THEN "invalid" ELSE "ok"
        /\ written' = IF Panics(blocks) THEN 0 ELSE end.out
        /\ index' = IF status' = "ok"
                    THEN [keyLength  |-> HeaderKeyLength(layout.keyLength),
                          entryCount |-> Uint32(layout.entryCount),
                          entries    |-> [n \in DOMAIN blocks |-> formatEntry(blocks[n], layout)],
                          extraData  |-> layout.extraData]
                    ELSE NoIndex
        /\ UNCHANGED builder

\* The history of the Adds: what was added is noted whether or not the
\* builder took it.
Noted(i) ==
    newest' = [id \in DOMAIN newest \cup {i.BlockID} |->
                  IF id # i.BlockID THEN newest[id]
                  ELSE IF id \in DOMAIN newest /\ newest[id] > i.TimestampSeconds
                       THEN newest[id] ELSE i.TimestampSeconds]

Next ==
    \/ \E i \in Infos : Add(i) /\ Noted(i)
    \/ \E limit \in WriterLimits : Build(limit) /\ UNCHANGED newest

Spec == Init /\ [][Next]_vars

-----------------------------------------------------------------------------
(* The reader of an index, from the layout the format documents *)

IndexSize(ix) ==
    FoldLeft(LAMBDA size, e : size + KeyLen[e.key] + EntryLength,
             HeaderLength + Len(ix.extraData), ix.entries)

\* The Info an entry stands for.  The name of its pack file is the bytes at
\* packFileOffset, as many as the low byte of timestampAndFlags says, and
\* no name when they are not all in the extra data.
DecodeEntry(ix, e) ==
    LET from == e.packFileOffset
                   - (HeaderLength + ix.entryCount * (ix.keyLength + EntryLength))
        to   == from + (e.timestampAndFlags % 2^ByteBits)
    IN  [BlockID          |-> e.key,
         TimestampSeconds |-> shiftR(e.timestampAndFlags, 2 * ByteBits),
         FormatVersion    |-> shiftR(e.timestampAndFlags, ByteBits) % 2^ByteBits,
         PackFile         |-> IF 0 <= from /\ to <= Len(ix.extraData)
                              THEN SubSeq(ix.extraData, from + 1, to) ELSE <<>>,
         Deleted          |-> e.packedOffset & DeletedBit # 0,
         PackOffset       |-> e.packedOffset % DeletedBit,
         Length           |-> e.packedLength,
         Payload          |-> FALSE]

\* Point lookup: binary search over the keys; 0 when the key is not there.
RECURSIVE Search(_, _, _, _)
Search(entries, id, lo, hi) ==
    IF lo > hi THEN 0
    ELSE LET mid == (lo + hi) \div 2
         IN  IF entries[mid].key = id THEN mid
             ELSE IF entries[mid].key < id THEN Search(entries, id, mid + 1, hi)
             ELSE Search(entries, id, lo, mid - 1)

Lookup(ix, id) == Search(ix.entries, id, 1, Len(ix.entries))

-----------------------------------------------------------------------------
(* Properties *)

TypeOK ==
    /\ newest \in [DOMAIN newest -> Nat] /\ DOMAIN newest \subseteq BlockIDs
    /\ DOMAIN builder \subseteq BlockIDs
    /\ \A id \in DOMAIN builder : builder[id] \in Infos /\ builder[id].BlockID = id
    /\ status \in Statuses
    /\ written \in Nat
    /\ indexLayout(prepareExtraData(sortedBlocks(builder)))
    /\ (index = NoIndex) = (status # "ok")
    /\ index # NoIndex =>
          /\ index.keyLength \in Byte
          /\ index.entryCount = Len(index.entries)

\* What a reader of the index gets for an Info of the builder.
AsRead(info) == [info EXCEPT !.PackFile = NameBytes(@)]

\* The fields of an entry hold the Info: a timestamp of 48 bits, a pack file
\* name shorter than 256 bytes and an offset below 2^31.
Representable(info) ==
    /\ info.TimestampSeconds < 2^TsBits
    /\ PackLen[info.PackFile] < 2^ByteBits
    /\ info.PackOffset < DeletedBit

Lossless ==
    /\ index.entryCount = Cardinality(DOMAIN builder)
    /\ \A n \in DOMAIN index.entries :
          DecodeEntry(index, index.entries[n])
              = AsRead(builder[index.entries[n].key])
    /\ \A id \in DOMAIN builder : \E n \in DOMAIN index.entries :
          index.entries[n].key = id

\* When Build returns nil the output has received the whole index (the
\* last buffer included), and iterating over it gives back every Info of
\* the builder, deleted flag, pack file name and all, provided the Infos fit
\* the fields of an entry and the index is no longer than a uint32 counts:
\* up to there extraDataOffset and its sums with packFileOffsets are exact.
RoundTrip ==
    /\ status = "ok"
    /\ \A id \in DOMAIN builder : Representable(builder[id])
    /\ written <= 2^WordBits
    => written = IndexSize(index) /\ Lossless

\* Build never loses or alters an Info silently: an index it reports written
\* reads back as the builder's contents.
IndexIsLossless ==
    status = "ok" => Lossless

\* Build's sortedBlocks and the reader's binary search agree on the order of
\* the keys: a point lookup in a written index finds exactly the blocks of
\* the builder.
LookupFindsEveryBlock ==
    status = "ok" =>
        \A id \in BlockIDs :
            LET n == Lookup(index, id)
            IN  IF id \in DOMAIN builder THEN n # 0 /\ index.entries[n].key = id
                ELSE n = 0

\* Add's merge does not depend on the order of the Adds where the timestamps
\* differ: index blobs are folded into a builder in any order (a merge, a
\* compaction), and after any sequence of Adds the builder holds every block
\* that was added, none that was not, and each with the greatest timestamp
\* added for it, the older Info that arrives after the newer one included.
NewestAddedIsKept ==
    /\ DOMAIN builder = DOMAIN newest
    /\ \A id \in DOMAIN builder : builder[id].TimestampSeconds = newest[id]

\* Add's merge on equal timestamps: a tombstone is not replaced by a live
\* entry of the same second ("deleted beats live"), so that the result does
\* not depend on the order of the Adds.
TombstoneWinsTie ==
    [][\A id \in DOMAIN builder :
          /\ builder[id].Deleted
          /\ builder'[id].TimestampSeconds = builder[id].TimestampSeconds
          => builder'[id].Deleted]_vars

\* Build's output is all or nothing for the builder's own errors: when it
\* refuses an entry the output has received no byte.
RefusedBuildWritesNothing ==
    status = "invalid" => written = 0

=============================================================================
