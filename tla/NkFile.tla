------------------------------- MODULE NkFile -------------------------------
(***************************************************************************)
(* The file abstractions, src/nkoutfile.c, src/nkinfile.c and the inline   *)
(* functions of their headers: a file is written, closed, and read at any  *)
(* position.  It is written in blocks to a device (src/nkchecked.c or      *)
(* src/nkdirect.c), to a device without a buffer as the console is, or to  *)
(* memory; it is read in blocks or from memory.  As in nkdbase.c writer    *)
(* and reader share one buffer.  Accesses to the device may fail.          *)
(*                                                                         *)
(* The character put at position n of the file, counted from 1, is n.      *)
(* nkstdnull, which has neither buffer nor device, is left out.            *)
(***************************************************************************)
EXTENDS Integers, SequencesExt

CONSTANTS
  BlockSize,   \* of the buffer; a power of 2
  Granularity, \* of writes in blocks; a power of 2.  Without a buffer it is 1
  Chunks,      \* the lengths that nk_fwrite is called with
  CarefulPeek, \* nk_fpeek_abs is called only where it is right
  MaxSize,     \* bound: the size of the file
  MaxIoFaults  \* bound: accesses to the device that fail, for each file

ASSUME FileConstantsOK ==
  /\ BlockSize \in Nat \ {0} /\ Granularity \in Nat \ {0}
  /\ BlockSize % Granularity = 0
  /\ Chunks \subseteq Nat
  /\ MaxSize \in Nat /\ MaxIoFaults \in Nat

VARIABLES
  stored, \* the file on the device, behind the header; or in memory, closed
  buffer, \* the block buffer; the memory that a file in memory is written to
  g,      \* nkoutfile_t: the medium, ptr, and whether a call has failed
  f,      \* nkinfile_t
  mode,   \* which of g and f is in use
  c,      \* what the last call that reads has returned
  faults  \* accesses to the device that have failed

filevars == << stored, buffer, g, f, mode, c, faults >>

Eof == -1
Spoiled == 0
Char == 0 .. MaxSize
Media == {"blocks", "direct", "memory"}

FileTypeOK ==
  /\ stored \in Seq(Char)
  /\ buffer \in Seq(Char) /\ Len(buffer) = BlockSize
  /\ g \in [medium : Media, ptr : 0 .. BlockSize, failed : BOOLEAN]
  /\ f \in [start : Seq(Char), ptr : Nat, len : Nat, start_offset : Nat,
            block_size : {0, BlockSize}, fault : {0}]
  /\ f.ptr <= f.len /\ f.len <= Len(f.start)
  /\ mode \in {"write", "read"}
  /\ c \in Char \cup {Eof}
  /\ faults \in 0 .. MaxIoFaults

-----------------------------------------------------------------------------
(* nkoutfile: o is the file being written, with its buf and out.  The       *)
(* fault-th access to the device that a call makes fails, if it is not 0    *)

nkoutfile_open(medium) == [medium |-> medium, ptr |-> 0, failed |-> FALSE]

Writer(fault) ==
  [medium |-> g.medium, ptr |-> g.ptr, failed |-> g.failed,
   buf |-> buffer, out |-> stored, fault |-> fault]

RoundUp(n) == ((n + Granularity - 1) \div Granularity) * Granularity

OneLess(fault) == IF fault = 0 THEN 0 ELSE fault - 1

(* nk_checked_write and nk_direct_write append, and go on behind what they  *)
(* could not write                                                          *)
block_write(o, chs) ==
  LET fails == o.fault = 1
  IN  [o EXCEPT !.out = @ \o IF fails THEN [i \in DOMAIN chs |-> Spoiled]
                             ELSE chs,
                !.failed = @ \/ fails,
                !.fault = OneLess(@)]

nk_fflush(o) ==
  LET first == [o EXCEPT !.ptr = 0]
  IN  IF o.medium = "memory" THEN [first EXCEPT !.failed = TRUE]
      ELSE block_write(first, SubSeq(o.buf, 1, RoundUp(o.ptr)))

(* mutant: the end of the buffer is not noticed *)
PutWithoutFlush(o, ch) ==
  [o EXCEPT !.buf[(o.ptr % BlockSize) + 1] = ch, !.ptr = @ + 1]

nk_fputc(o, ch) ==
  LET room == IF o.ptr = BlockSize THEN nk_fflush(o) ELSE o
  IN  IF o.medium = "direct" THEN block_write(o, << ch >>)
      ELSE [room EXCEPT !.buf[room.ptr + 1] = ch, !.ptr = @ + 1]

(* at most BlockSize characters at a time *)
Pieces(chs) ==
  [k \in 1 .. (Len(chs) + BlockSize - 1) \div BlockSize |->
     SubSeq(chs, (k - 1) * BlockSize + 1,
            IF k * BlockSize < Len(chs) THEN k * BlockSize ELSE Len(chs))]

nk_fprintf(o, chs) == FoldLeft(nk_fputc, o, chs)

nk_fwrite(o, chs) ==
  IF o.medium = "direct" THEN FoldLeft(block_write, o, Pieces(chs))
  ELSE FoldLeft(nk_fputc, o, chs)

(* start_offset counts what has been given to block_write *)
nk_fnote(o) == Len(o.out) + o.ptr

-----------------------------------------------------------------------------
(* nkinfile: r is the file being read.  The buffer is r.start *)

nk_ftell(r) == r.start_offset + r.ptr
nk_feof(r) == r.ptr = r.len
nk_contained(r, n) == n >= r.start_offset /\ n < r.start_offset + r.len
nk_fpeek(r) == IF nk_feof(r) THEN Eof ELSE r.start[r.ptr + 1]

(* nk_checked_read: the rest of the file, at most a block of it *)
BlockAt(data, n) ==
  SubSeq(data, n + 1,
         IF n + BlockSize > Len(data) THEN Len(data) ELSE n + BlockSize)

Over(new, old) == new \o SubSeq(old, Len(new) + 1, Len(old))

(* a block that cannot be read has no characters; at the end of the file    *)
(* nothing is read                                                          *)
BlockLoaded(r, data) ==
  IF data = << >> THEN [r EXCEPT !.len = 0]
  ELSE IF r.fault = 1 THEN [r EXCEPT !.len = 0, !.fault = 0]
  ELSE [r EXCEPT !.len = Len(data), !.start = Over(data, @),
                 !.fault = OneLess(@)]

(* a memory file has block_size 0 and is never loaded *)
Load(r, n) ==
  LET at == [r EXCEPT !.start_offset = n]
  IN  IF r.block_size = 0 THEN at ELSE BlockLoaded(at, BlockAt(stored, n))

(* n & (block_size - 1) *)
Offset(r, n) == IF r.block_size = 0 THEN n ELSE n % r.block_size

(* mutant: a position behind the buffer counts as one in it *)
SeekInBufferInclusive(r, n) ==
  LET offset == Offset(r, n)
      at == Load(r, n - offset)
  IN  IF n >= r.start_offset /\ n <= r.start_offset + r.len
      THEN [r EXCEPT !.ptr = n - r.start_offset]
      ELSE [at EXCEPT !.ptr = IF offset < at.len THEN offset ELSE at.len]

nk_fseek_slow(r, n) ==
  LET offset == Offset(r, n)
      at == Load(r, n - offset)
  IN  IF nk_contained(r, n)
      THEN [r EXCEPT !.ptr = n - r.start_offset]
      ELSE [at EXCEPT !.ptr = IF offset < at.len THEN offset ELSE at.len]

nk_fseek(r, n) ==
  IF nk_contained(r, n) THEN [r EXCEPT !.ptr = n - r.start_offset]
  ELSE nk_fseek_slow(r, n)

(* the file after ++ptr, which loads the next block at the end of this one *)
Advanced(r) ==
  IF nk_feof(r) THEN r
  ELSE IF r.ptr + 1 = r.len
  THEN nk_fseek_slow([r EXCEPT !.ptr = @ + 1], r.start_offset + r.len)
  ELSE [r EXCEPT !.ptr = @ + 1]

(* a peek goes to n and back, unless n is in the buffer *)
PeekElsewhere(r, n) ==
  LET there == nk_fseek(r, n)
  IN  [result |-> nk_fpeek(there), r |-> nk_fseek(there, nk_ftell(r))]

nk_fpeek_rel(r, n) ==
  IF nk_contained(r, n)
  THEN [result |-> r.start[n - r.start_offset + 1], r |-> r]
  ELSE PeekElsewhere(r, n)

(* ptr[n - start_offset] counts from the position in the buffer, where      *)
(* there may be anything                                                    *)
nk_fpeek_abs(r, n) ==
  LET index == r.ptr + n - r.start_offset + 1
  IN  IF nk_contained(r, n)
      THEN [result : IF index <= r.len THEN {r.start[index]} ELSE Char,
            r : {r}]
      ELSE {PeekElsewhere(r, n)}

nkinfile_open(data, fault) ==
  BlockLoaded([start |-> buffer, ptr |-> 0, len |-> 0, start_offset |-> 0,
          block_size |-> BlockSize, fault |-> fault], BlockAt(data, 0))

nkinfile_open_mem(data) ==
  [start |-> data, ptr |-> 0, start_offset |-> 0, block_size |-> 0,
   len |-> Len(data), fault |-> 0]
-----------------------------------------------------------------------------
(* The calls *)

FileInit ==
  /\ stored = << >>
  /\ buffer = [i \in 1 .. BlockSize |-> Spoiled]
  /\ g \in {nkoutfile_open(medium) : medium \in Media}
  /\ f = nkinfile_open_mem(<< >>)    \* nkinfile_null
  /\ mode = "write"
  /\ c = Eof
  /\ faults = 0

(* which access of a call that makes at most n of them fails, 0 for none;   *)
(* only those that it makes leave 0 of it                                   *)
Fault(n) == IF faults < MaxIoFaults THEN 0 .. n ELSE {0}

Met(fault, left) ==
  /\ left = 0
  /\ faults' = IF fault = 0 THEN faults ELSE faults + 1

Becomes(o) ==
  /\ g' = [medium |-> o.medium, ptr |-> o.ptr, failed |-> o.failed]
  /\ buffer' = o.buf
  /\ stored' = o.out

Following(o, n) == [i \in 1 .. n |-> nk_fnote(o) + i]

Write(n) ==
  /\ mode = "write"
  /\ nk_fnote(Writer(0)) + n <= MaxSize
  /\ \E fault \in Fault(n) :
       LET o == Writer(fault)
       IN  \E after \in {nk_fwrite(o, Following(o, n)),
                         nk_fprintf(o, Following(o, n))} :
             Becomes(after) /\ Met(fault, after.fault)
  /\ UNCHANGED << f, mode, c >>

Flush ==
  /\ mode = "write"
  /\ \E fault \in Fault(1) :
       \E after \in {nk_fflush(Writer(fault))} :
         Becomes(after) /\ Met(fault, after.fault)
  /\ UNCHANGED << f, mode, c >>

Reader(r) ==
  /\ f' = r
  /\ buffer' = IF r.block_size = 0 THEN buffer ELSE r.start

(* a file on a device is flushed and closed as nk_dbase_save does and       *)
(* opened as nk_dbase_load does, or as memory; one in memory is a string    *)
CloseAndOpen ==
  /\ mode = "write"
  /\ mode' = "read"
  /\ \E fault \in Fault(2) :
       LET o == nk_fflush(Writer(fault))
       IN  IF g.medium = "memory"
           THEN /\ stored' = SubSeq(buffer, 1, g.ptr)
                /\ UNCHANGED g
                /\ Reader(nkinfile_open_mem(stored'))
                /\ Met(fault, fault)
           ELSE /\ stored' = o.out
                /\ g' = [g EXCEPT !.ptr = 0, !.failed = o.failed]
                /\ \E r \in {nkinfile_open(o.out, o.fault),
                            [nkinfile_open_mem(o.out) EXCEPT
                               !.fault = o.fault]} :
                     Reader([r EXCEPT !.fault = 0]) /\ Met(fault, r.fault)
  /\ UNCHANGED c

(* bound: with the medium that it had *)
Rewrite ==
  /\ mode = "read"
  /\ mode' = "write"
  /\ stored' = << >>
  /\ g' = nkoutfile_open(g.medium)
  /\ f' = nkinfile_open_mem(<< >>)
  /\ c' = Eof
  /\ faults' = 0
  /\ UNCHANGED buffer

Faulty(fault) == [f EXCEPT !.fault = fault]

Reads(fault, result, r) ==
  /\ mode = "read"
  /\ c' = result
  /\ Reader(r)
  /\ Met(fault, r.fault)
  /\ UNCHANGED << stored, g, mode >>

(* the position must not be behind the end of the file *)
Seek ==
  \E n \in 0 .. Len(stored), fault \in Fault(2) :
    LET r == nk_fseek(Faulty(fault), n) IN Reads(fault, nk_fpeek(r), r)

Peek ==
  \E n \in 0 .. Len(stored), fault \in Fault(2) :
    LET peek == nk_fpeek_rel(Faulty(fault), n)
    IN  Reads(fault, peek.result, peek.r)

PeekAbs ==
  \E n \in 0 .. Len(stored), fault \in Fault(2) :
    /\ CarefulPeek => f.ptr = 0 \/ ~nk_contained(f, n)
    /\ \E peek \in nk_fpeek_abs(Faulty(fault), n) :
         Reads(fault, peek.result, peek.r)

nk_fnext ==
  \E fault \in Fault(2) :
    LET r == Advanced(Faulty(fault)) IN Reads(fault, nk_fpeek(r), r)

nk_fgetc ==
  \E fault \in Fault(2) :
    Reads(fault, nk_fpeek(f), Advanced(Faulty(fault)))

FileNext ==
  \/ \E n \in Chunks : Write(n)
  \/ Flush
  \/ CloseAndOpen
  \/ Rewrite
  \/ Seek
  \/ Peek
  \/ PeekAbs
  \/ nk_fnext
  \/ nk_fgetc

FileSpec == FileInit /\ [][FileNext]_filevars

-----------------------------------------------------------------------------
(* Properties *)

(***************************************************************************)
(* Whatever is written in whatever pieces comes back unchanged, at every   *)
(* position and in every order of calls, with nothing between what was put *)
(* but the padding of a flush: blocks, buffers and the shared storage of   *)
(* writer and reader do not show.  An access to the device that fails is   *)
(* reported; what it spoils keeps its place; and a read that fails gives   *)
(* no wrong character, now or later.  A file in memory that has no room    *)
(* for what is put says so.                                                *)
(***************************************************************************)
Contents ==
  IF mode = "read" THEN stored
  ELSE IF g.medium = "direct" THEN stored
  ELSE stored \o SubSeq(buffer, 1, g.ptr)

Position == IF mode = "write" THEN 0 ELSE nk_ftell(f)

Tape == INSTANCE NkTape WITH
  medium <- g.medium, failed <- g.failed, MemorySize <- BlockSize,
  contents <- Contents, pos <- Position,
  lost <- mode = "read" /\ nk_feof(f) /\ nk_ftell(f) < Len(stored)

ImplementsTape == Tape!Spec
=============================================================================
