----------------------------- MODULE StreamUnzip -----------------------------
(***************************************************************************)
(* thirdparty/stream_unzip_orig/stream_unzip.py, the reader FileUtils.      *)
(* extract_archive_to runs over an archive read in fixed-size blocks.      *)
(*                                                                         *)
(* A byte stream is a sequence of elements, one element per field of the  *)
(* ZIP format (a 4-byte signature, a 2-byte length and a one-byte file    *)
(* character are each one element), so every width the parser asks for   *)
(* is scaled to a count of fields.  Elements are naturals, as bytes are.  *)
(* The byte reader (chunk, offset, the rest of the iterator) is kept       *)
(* exactly: chunk boundaries and chunk_size fall between any two elements. *)
(* Generators are evaluated in the order extract_archive_to pulls them:   *)
(* the header, then every data chunk, then the next signature.            *)
(***************************************************************************)
EXTENDS Naturals, Sequences

LocalFileHeaderSignature == 100   \* b"\x50\x4b\x03\x04"
CentralDirectorySignature == 101  \* b"\x50\x4b\x01\x02"
DataDescriptorSignature == 102    \* b"PK\x07\x08"
Zip64SizeSignature == 103         \* b"\x01\x00"
Zip64CompressedSize == 99         \* 4294967295
HeaderFields == 7   \* flags, compression, crc_32, compressed, uncompressed, name len, extra len
Zip64ExtraMin == 2  \* 16 bytes: uncompressed and compressed size
DataDescriptorFields == 3   \* crc_32, compressed and uncompressed size

Least(a, b) == IF a < b THEN a ELSE b

Failure(e) == [ok |-> FALSE, err |-> e]

(* zlib.crc32, abstracted to an injective code of the data (symbols 1, 2). *)
CRC(s) == LET RECURSIVE Code(_)
              Code(t) == IF t = <<>> THEN 0 ELSE 3 * Code(Tail(t)) + Head(t)
          IN Code(s)

-----------------------------------------------------------------------------
(* get_byte_readers: the current chunk, the offset into it, and what the   *)
(* iterator has still to give.                                              *)
NewReader(chunks) == [chunk |-> <<>>, offset |-> 0, rest |-> chunks]

NextChunk(r) == [chunk |-> Head(r.rest), offset |-> 0, rest |-> Tail(r.rest)]

(* _yield_num / _get_num: num elements, at most chunk_size at a time from   *)
(* the current chunk; the iterator running dry is a TruncatedDataError.    *)
RECURSIVE GetNumFrom(_, _, _, _)
GetNumFrom(r, num, cs, acc) ==
  IF num = 0 THEN [ok |-> TRUE, r |-> r, out |-> acc]
  ELSE IF r.offset = Len(r.chunk)
       THEN IF r.rest = <<>> THEN Failure("TruncatedDataError")
            ELSE GetNumFrom(NextChunk(r), num, cs, acc)
       ELSE LET t == Least(Least(num, Len(r.chunk) - r.offset), cs)
            IN GetNumFrom([r EXCEPT !.offset = @ + t], num - t, cs,
                          acc \o SubSeq(r.chunk, r.offset + 1, r.offset + t))

GetNum(r, num, cs) == GetNumFrom(r, num, cs, <<>>)

(* One step of _yield_all: the next piece of at most chunk_size elements  *)
(* of the current chunk, or the end of the iterator.                       *)
YieldAllStep(r, cs) ==
  IF r.offset = Len(r.chunk) /\ r.rest = <<>> THEN [done |-> TRUE, r |-> r]
  ELSE LET s == IF r.offset = Len(r.chunk) THEN NextChunk(r) ELSE r
           t == Least(Len(s.chunk) - s.offset, cs)
       IN [done |-> FALSE, r |-> [s EXCEPT !.offset = @ + t],
           piece |-> SubSeq(s.chunk, s.offset + 1, s.offset + t)]

(* Mutant: unused elements not put back.                                    *)
ReturnUnusedNone(r, n) == r

(* _return_unused: the last piece's unused tail is put back.               *)
ReturnUnused(r, n) == [r EXCEPT !.offset = @ - n]

(* get_decompressor_none driven by decrypt_none_decompress: pull pieces of *)
(* _yield_all until num_bytes are taken, then return the last piece's      *)
(* unused elements.                                                         *)
RECURSIVE DecompressNone(_, _, _, _, _, _)
DecompressNone(r, n, cs, got, out, unused) ==
  IF got = n THEN [ok |-> TRUE, r |-> ReturnUnused(r, unused), out |-> out]
  ELSE LET p == YieldAllStep(r, cs)
       IN IF p.done THEN Failure("TruncatedDataError")
          ELSE LET take == Least(Len(p.piece), n - got)
               IN DecompressNone(p.r, n, cs, got + take,
                                 out \o SubSeq(p.piece, 1, take), Len(p.piece) - take)

-----------------------------------------------------------------------------
(* yield_file's helpers.                                                    *)

(* get_flag_bits: bit i of the two flag bytes, low byte first.              *)
FlagBit(flags, i) == (flags \div (2 ^ i)) % 2 = 1

(* parse_extra as a dict: (signature, size, data) records while at least  *)
(* a signature and a size remain; data is cut at the end of the field; a  *)
(* later record of a signature replaces an earlier one.                    *)
RECURSIVE ParseExtraFrom(_, _, _)
ParseExtraFrom(e, off, acc) ==
  IF off <= Len(e) - 2
  THEN LET sig == e[off + 1]
           size == e[off + 2]
           data == SubSeq(e, off + 3, Least(off + 2 + size, Len(e)))
       IN ParseExtraFrom(e, off + 2 + size,
                         [k \in DOMAIN acc \cup {sig} |-> IF k = sig THEN data ELSE acc[k]])
  ELSE acc

ParseExtra(e) == ParseExtraFrom(e, 0, <<>>)

(* get_extra_value: the record, required and long enough when if_true.    *)
GetExtraValue(extra, ifTrue, sig, missing, minLength, tooShort) ==
  IF ~ifTrue THEN [ok |-> TRUE, isNone |-> TRUE]
  ELSE IF sig \notin DOMAIN extra THEN Failure(missing)
  ELSE IF Len(extra[sig]) < minLength THEN Failure(tooShort)
  ELSE [ok |-> TRUE, isNone |-> FALSE, value |-> extra[sig]]

(* get_crc_32_expected_from_data_descriptor: the optional signature, then  *)
(* the rest of the descriptor; its first field is the CRC.                *)
CrcFromDataDescriptor(r, cs) ==
  LET first == GetNum(r, 1, cs)
  IN IF ~first.ok THEN first
     ELSE LET soFar == IF first.out = <<DataDescriptorSignature>> THEN <<>> ELSE first.out
              more == GetNum(first.r, DataDescriptorFields - Len(soFar), cs)
          IN IF ~more.ok THEN more
             ELSE [ok |-> TRUE, r |-> more.r, crc |-> (soFar \o more.out)[1]]

-----------------------------------------------------------------------------
(* yield_file: the local header, flags check, name, extra, compression    *)
(* check, zip64 extra, size, the data and its CRC check.  A data          *)
(* descriptor on a deflated entry leaves the size None and                *)
(* num_bytes - num_decompressed raises TypeError; the zip64 extra is      *)
(* fetched only without a data descriptor, so a zip64 entry with one      *)
(* slices None.                                                            *)
YieldFile(r, cs) ==
  LET h == GetNum(r, HeaderFields, cs)
  IN IF ~h.ok THEN h
  ELSE LET flags == h.out[1]   compression == h.out[2]   crc == h.out[3]
           csizeRaw == h.out[4]   usizeRaw == h.out[5]
           nm == GetNum(h.r, h.out[6], cs)
           ex == GetNum(nm.r, h.out[7], cs)
           hasDD == FlagBit(flags, 3)
           isZip64 == csizeRaw = Zip64CompressedSize /\ usizeRaw = Zip64CompressedSize
           z64 == GetExtraValue(ParseExtra(ex.out), ~hasDD /\ isZip64, Zip64SizeSignature,
                                "MissingZip64ExtraError", Zip64ExtraMin, "TruncatedZip64ExtraError")
       IN IF \E b \in {4, 5, 6, 13} : FlagBit(flags, b) THEN Failure("UnsupportedFlagsError")
          ELSE IF ~nm.ok THEN nm
          ELSE IF ~ex.ok THEN ex
          ELSE IF compression \notin {0, 8, 9} THEN Failure("UnsupportedCompressionTypeError")
          ELSE IF ~z64.ok THEN z64
          ELSE IF hasDD /\ compression \in {8, 9} THEN Failure("TypeError")
          ELSE IF isZip64 /\ z64.isNone THEN Failure("TypeError")
          ELSE LET size == IF isZip64 THEN z64.value[1] ELSE usizeRaw
                   d == DecompressNone(ex.r, size, cs, 0, <<>>, 0)
                   dd == CrcFromDataDescriptor(d.r, cs)
               IN IF ~d.ok THEN d
                  ELSE IF hasDD /\ ~dd.ok THEN dd
                  ELSE IF CRC(d.out) # (IF hasDD THEN dd.crc ELSE crc)
                  THEN Failure("CRC32IntegrityError")
                  ELSE [ok |-> TRUE, r |-> IF hasDD THEN dd.r ELSE d.r,
                        file |-> [name |-> nm.out, size |-> size, data |-> d.out]]

(* all() and the outer loop: a local header signature starts a file, the  *)
(* central directory signature ends the archive (its remainder is read    *)
(* and dropped), anything else is an UnexpectedSignatureError.  The files  *)
(* yielded before an error have been written by the consumer.             *)
RECURSIVE FilesFrom(_, _, _)
FilesFrom(r, cs, acc) ==
  LET sig == GetNum(r, 1, cs)
      f == YieldFile(sig.r, cs)
  IN IF ~sig.ok THEN [ok |-> FALSE, err |-> sig.err, files |-> acc]
     ELSE IF sig.out = <<LocalFileHeaderSignature>>
          THEN IF f.ok THEN FilesFrom(f.r, cs, Append(acc, f.file))
               ELSE [ok |-> FALSE, err |-> f.err, files |-> acc]
     ELSE IF sig.out = <<CentralDirectorySignature>> THEN [ok |-> TRUE, files |-> acc]
     ELSE [ok |-> FALSE, err |-> "UnexpectedSignatureError", files |-> acc]

StreamUnzip(chunks, cs) == FilesFrom(NewReader(chunks), cs, <<>>)

-----------------------------------------------------------------------------
(* The input side.                                                          *)

(* iterate_binary: the archive in reads of `size` elements, the last one  *)
(* shorter.                                                                 *)
RECURSIVE IterateBinary(_, _)
IterateBinary(s, size) ==
  IF s = <<>> THEN <<>>
  ELSE <<SubSeq(s, 1, Least(size, Len(s)))>> \o IterateBinary(SubSeq(s, size + 1, Len(s)), size)

(* What stream_zip writes for a NO_COMPRESSION_64 member (the mode         *)
(* iter_metadata_for_dir gives every file): flags with bit 11 (UTF-8      *)
(* name), stored, the CRC, both sizes 0xffffffff, the name, a zip64 extra  *)
(* with both sizes, the data; then the central directory.                  *)
LocalEntry(f) ==
  <<LocalFileHeaderSignature, 2 ^ 11, 0, CRC(f.data), Zip64CompressedSize, Zip64CompressedSize,
    Len(f.name), 4>>
  \o f.name \o <<Zip64SizeSignature, 2, Len(f.data), Len(f.data)>> \o f.data

RECURSIVE StreamZip(_)
StreamZip(files) ==
  IF files = <<>> THEN <<CentralDirectorySignature, 0>>
  ELSE LocalEntry(Head(files)) \o StreamZip(Tail(files))

====
