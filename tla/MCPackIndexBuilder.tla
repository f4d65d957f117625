------------------------- MODULE MCPackIndexBuilder -------------------------
(* PackIndexBuilder for TLC: four block IDs, the third with a longer key,  *)
(* two pack files, fields of 2 + 2 + 2 bits and of 2 + 1 bits, and a       *)
(* uint32 of 6 bits: an index of two entries is shorter than 64 bytes, one *)
(* of three is longer.                                                     *)
EXTENDS PackIndexBuilder

CONSTANTS pA, pB, pLong, pNone

MCBlockIDs  == {1, 2, 3, 4}
MCKeyLen    == (1 :> 2) @@ (2 :> 2) @@ (3 :> 3) @@ (4 :> 2)
MCPackFiles == {pA, pB, pLong, pNone}
MCPackLen   == (pA :> 1) @@ (pB :> 2) @@ (pLong :> 5) @@ (pNone :> 0)

Regular(ids, packs) ==
    [BlockID : ids, TimestampSeconds : {1, 2}, PackFile : packs,
     PackOffset : {0, 3}, Length : {7}, FormatVersion : {1},
     Deleted : BOOLEAN, Payload : {FALSE}]

Plain == [BlockID |-> 1, TimestampSeconds |-> 1, PackFile |-> pA,
          PackOffset |-> 0, Length |-> 7, FormatVersion |-> 1,
          Deleted |-> FALSE, Payload |-> FALSE]

\* Infos Build refuses: one in no pack file, one with an inline payload.
Refused ==
    {[Plain EXCEPT !.BlockID = 2, !.PackFile = pNone, !.TimestampSeconds = 3],
     [Plain EXCEPT !.Payload = TRUE, !.TimestampSeconds = 3]}

\* Infos beyond what the fields of an entry hold.
Oversized ==
    {[Plain EXCEPT !.TimestampSeconds = 4],
     [Plain EXCEPT !.BlockID = 2, !.PackFile = pLong, !.TimestampSeconds = 3],
     [Plain EXCEPT !.BlockID = 2, !.PackOffset = 4, !.TimestampSeconds = 3]}

\* The block with the longer key, and the one that makes an index of three
\* entries.
LongKey == {[Plain EXCEPT !.BlockID = 3, !.Deleted = d] : d \in BOOLEAN}
Third   == {[Plain EXCEPT !.BlockID = 4, !.PackFile = pf] : pf \in {pA, pB}}

MCInfos == Regular({1, 2}, {pA, pB}) \cup LongKey \cup Third \cup Refused
MCInfosOversized == Regular({1, 2}, {pA}) \cup Oversized \cup Third

MCWriterLimits == {0, 40, 1000}
=============================================================================
