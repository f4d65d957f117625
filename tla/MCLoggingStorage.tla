-------------------------- MODULE MCLoggingStorage --------------------------
(***************************************************************************)
(* LoggingStorage for TLC: two clients, two blobs, contents at the inline   *)
(* limit and a range of them below it.                                     *)
(***************************************************************************)
EXTENDS LoggingStorage, TLC

\* "a" and "ab": a listing with the prefix "a" has both to hand over, so the
\* callback of the first can delete the second.
MCBlobIDs == {<<1>>, <<1, 2>>}
MCListPrefixes == {<<1>>}

\* Two bytes, with an inline limit of 2: the whole blob is logged by its
\* length, one byte of it as it is.
MCData == {<<7, 8>>}

\* The whole blob and its second byte.
MCRanges == {<<0, 0>>, <<1, 1>>}

\* A later option overrides an earlier one.
MCOptionLists == {<<Prefix("p"), Output("outputFunc"), Prefix("q")>>}

ClientSymmetry == Permutations(Clients)

=============================================================================
