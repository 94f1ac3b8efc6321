------------------------------- MODULE Buffer -------------------------------
(***************************************************************************)
(* src/lib/container/buffer.c: bytes that are appended at the end and read *)
(* from the front.  buf.data holds the used bytes; those that realloc()    *)
(* cut off are Lost.  Two fields remember what callers did: buf.granted is *)
(* what buffer_prepare_write() promised and was not yet written, buf.large *)
(* that room was made for more than Quarter bytes in all.                  *)
(***************************************************************************)
EXTENDS Calls, SequencesExt

CONSTANTS
    Bytes,           \* what is written
    Lost,            \* a byte nobody wrote
    BufferDefault,   \* BUFFER_DEFAULT_SIZE
    MaxWrite         \* most bytes of one call

ASSUME BufferAssumption ==
    /\ BufferDefault \in Nat /\ IsPower(BufferDefault) /\ BufferDefault <= TopBit
    /\ MaxWrite \in Nat /\ MaxWrite < UIntRange
    /\ None \notin Seq(Bytes) /\ Failed \notin Seq(Bytes)

VARIABLE buf

\* half of the largest array
Quarter == TopBit \div 2

Used == Len(buf.data)

Accessible == Used - buf.accessed

\* what is left of the used bytes in an array of another size
Kept(data, size) == [i \in DOMAIN data |-> IF i <= size THEN data[i] ELSE Lost]

-----------------------------------------------------------------------------
(* Size *)

NewBuffer(data, accessed, size) ==
    [data |-> data, accessed |-> accessed, granted |-> 0, large |-> FALSE,
     size |-> NiceSize(Wrap(size), BufferDefault)]

\* buffer_new(), buffer_init(); get_nice_size() takes an unsigned int
BufferInit(size) ==
    /\ buf = None
    /\ IF NeverNice(Wrap(size), BufferDefault)
       THEN Stray("get_nice_size") /\ UNCHANGED <<buf, returned>>
       ELSE \/ buf' = NewBuffer(<<>>, 0, size) /\ Returns(None)
            \/ Returns(Failed) /\ UNCHANGED buf

\* _buffer_resize(), which leaves buf->used alone
Resize(size, granted, large) ==
    LET nice == NiceSize(Wrap(size), BufferDefault)
    IN  \/ /\ buf' = [buf EXCEPT !.size = nice, !.data = Kept(@, nice),
                                 !.granted = granted, !.large = large]
           /\ Returns(None)
        \/ nice # buf.size /\ Returns(Failed) /\ UNCHANGED buf

\* buffer_prepare_write(): doubled until it exceeds the old size and the request
Doubled(n) == First({buf.size * Power[e] : e \in 0..UIntRange} \ 0..buf.size + n)

BufferPrepareWrite(n) ==
    LET large == buf.large \/ Used + n > Quarter
    IN  IF Used + n <= buf.size
        THEN buf' = [buf EXCEPT !.granted = n, !.large = large] /\ Returns(None)
        ELSE Resize(Doubled(n), n, large)

BufferSqueeze == Resize(Used, 0, buf.large)

-----------------------------------------------------------------------------
(* Contents *)

\* buffer_write() and its variants for the types, of what has been prepared
BufferWrite(bytes) ==
    /\ Len(bytes) <= buf.granted
    /\ IF Used + Len(bytes) <= buf.size
       THEN /\ buf' = [buf EXCEPT !.data = @ \o bytes, !.granted = @ - Len(bytes)]
            /\ Returns(bytes)
       ELSE Stray("buffer_write") /\ UNCHANGED <<buf, returned>>

\* buffer_read() and its variants, of what buffer_bytes_accessible() grants
BufferRead(n) ==
    /\ n <= Accessible
    /\ IF buf.accessed + n <= buf.size
       THEN /\ buf' = [buf EXCEPT !.accessed = @ + n]
            /\ Returns(SubSeq(buf.data, buf.accessed + 1, buf.accessed + n))
       ELSE Stray("buffer_read") /\ UNCHANGED <<buf, returned>>

\* RemoveWrongEnd: the bytes behind the removed ones are not moved
RemoveWrongEnd(i, n) == SubSeq(buf.data, 1, Used - n)

Without(i, n) == SubSeq(buf.data, 1, i) \o SubSeq(buf.data, i + n + 1, Used)

\* _buffer_remove(): moves one byte more than there is
BufferRemove(i, n, accessed, function) ==
    IF Used < buf.size
    THEN buf' = [buf EXCEPT !.data = Without(i, n), !.accessed = accessed] /\ Returns(None)
    ELSE Stray(function) /\ UNCHANGED <<buf, returned>>

BufferClearAccessed == BufferRemove(0, buf.accessed, 0, "buffer_clear_accessed")

BufferClearUnaccessed ==
    BufferRemove(buf.accessed, Accessible, buf.accessed, "buffer_clear_unaccessed")

BufferClear ==
    /\ buf' = [buf EXCEPT !.data = <<>>, !.accessed = 0]
    /\ Returns(None)

\* buffer_clone(), and buffer_delete() of the original; the flag only rewinds
BufferClone(clear_accessed) ==
    \/ Returns(Failed) /\ UNCHANGED buf
    \/ IF Used <= buf.size
       THEN /\ buf' = NewBuffer(buf.data, IF clear_accessed THEN 0 ELSE buf.accessed, Used)
            /\ Returns(None)
       ELSE Stray("buffer_clone") /\ UNCHANGED <<buf, returned>>

\* buffer_destroy(), buffer_delete()
BufferDestroy == buf' = None /\ Returns(None)

BufferNext ==
    /\ Fine
    /\ \/ \E n \in 0..UIntRange + 1 : BufferInit(n)
       \/ /\ buf # None
          /\ \/ \E n \in 1..MaxWrite :
                   BufferPrepareWrite(n) \/ BufferRead(n) \/ \E b \in [1..n -> Bytes] : BufferWrite(b)
             \/ BufferSqueeze \/ BufferClear \/ BufferDestroy
             \/ BufferClearAccessed \/ BufferClearUnaccessed
             \/ \E rewind \in BOOLEAN : BufferClone(rewind)

-----------------------------------------------------------------------------
(* Properties *)

\* Bytes come out in the order they went in, none twice and none lost, through
\* growing, squeezing, clearing and cloning, as long as realloc() was asked for
\* what the buffer holds (buffer_write(), buffer_read(), _buffer_remove()).
Stream == INSTANCE ByteStream WITH
    content <- IF buf = None THEN <<>> ELSE buf.data,
    position <- IF buf = None THEN 0 ELSE buf.accessed
BufferWhole == buf = None \/ Used <= buf.size
BufferStreams ==
    /\ Stream!Init
    /\ [][(buf # None /\ Fine' /\ BufferWhole') => Stream!Next]_<<buf, returned>>

\* What buffer_prepare_write() grants fits until it is asked to make room for
\* more than Quarter bytes in all; from then on the size may have wrapped, and
\* not even clearing the buffer makes the grant good.  Only a full buffer is
\* cleared beyond its end (_buffer_resize(), _buffer_remove()).
BufferStaysInside ==
    /\ fault = "buffer_write" => buf.large
    /\ fault \in {"buffer_clear_accessed", "buffer_clear_unaccessed"} => Used >= buf.size
    /\ buf # None /\ ~buf.large => Used + buf.granted <= buf.size
=============================================================================
