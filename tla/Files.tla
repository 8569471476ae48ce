------------------------------- MODULE Files --------------------------------
(***************************************************************************)
(* Writing files (fileio.py, record_json.py, surrogates.py): text at once, *)
(* text in chunks whose ends fall anywhere, also between a CR and its LF,  *)
(* and records whose source may fail half way.                             *)
(*                                                                         *)
(* Text is a sequence of characters: CR, LF, "a" any other one, "bad" one  *)
(* the codec cannot encode.  A file is the sequence of the characters, or  *)
(* the marks and objects of JSON, that are in it whole.  What is written   *)
(* goes through a buffer: a disk that is full keeps any beginning of it.   *)
(***************************************************************************)
EXTENDS SequencesExt, Integers

CONSTANTS Chunks,       \* the chunks a text comes in
          Records,      \* the records a source yields: sequences of keys
          MaxParts      \* bound: chunks of a text, records of a source

VARIABLES
    pc, op,             \* the call: text, stream, jsonl, json
    newline, bom,       \* its options
    input,              \* the chunks or records taken so far
    pending,            \* a CR whose LF may come with the next chunk
    written,            \* what handle.write was given
    file,               \* the destination, before the call and after it
    torn,               \* a part of the next character or object follows in it
    result              \* none, ok, encode (no bytes for it), source, io

disk == <<file, torn>>
vars == <<pc, op, newline, bom, input, pending, written, disk, result>>

CR == "CR"
LF == "LF"
Old == <<"old">>        \* what the file held before

Newlines == {<<LF>>, <<CR, LF>>}
Characters == {CR, LF, "a", "bad"}

\* What the constants must be; assumed where they get their values.  A record
\* is a mapping, so it has no key twice.
FilesAssumption ==
    /\ MaxParts \in Nat \ {0}
    /\ \A c \in Chunks : c \in Seq(Characters)
    /\ \A r \in Records : r \in Seq(Int) /\ IsInjective(r)

-----------------------------------------------------------------------------

\* From left to right CRLF, then CR, become LF, and LF the newline asked for.
normalize_newlines(text, nl) ==
    LET line[i \in 1..(Len(text) + 2)] ==
            IF i > Len(text) THEN <<>>
            ELSE CASE text[i] = CR -> nl \o line[IF i < Len(text) /\ text[i + 1] = LF THEN i + 2 ELSE i + 1]
                   [] text[i] = LF -> nl \o line[i + 1]
                   [] OTHER -> <<text[i]>> \o line[i + 1]
    IN line[1]

Encodable(text) == ~Contains(text, "bad")

\* A CR at the end of a text: the LF that belongs to it may still come.
Waiting(text) == IF text # <<>> /\ Last(text) = CR THEN <<CR>> ELSE <<>>

BOM_BYTES(b) == IF b THEN <<"BOM">> ELSE <<>>

\* A key with a surrogate is below 0 and is repaired to the name 1, "name";
\* the name n > 1 is "name~n".  Keys above 0 are names already.
free_name(taken) == CHOOSE n \in 1..(Cardinality(taken) + 1) :
                        n \notin taken /\ \A m \in 1..(n - 1) : m \in taken

\* Only the names given so far count as taken.
repaired_key_names_first(keys) ==
    FoldLeft(LAMBDA done, k : Append(done, IF k > 0 THEN k ELSE free_name(ToSet(done))), <<>>, keys)

\* repaired_key_names: the new names of a record's keys, in their order.
repaired_key_names(keys) ==
    LET valid == {k \in ToSet(keys) : k > 0}
        done[i \in 0..Len(keys)] ==
            IF i = 0 THEN <<>>
            ELSE Append(done[i - 1], IF keys[i] > 0 THEN keys[i]
                                     ELSE free_name(valid \cup ToSet(done[i - 1])))
    IN  done[Len(keys)]

\* What a JSON file is made of: brackets, separators and one record's object
\* with its keys as they are written.
Mark(m) == <<m, <<>>>>
record_json_bytes(record) == <<"object", repaired_key_names(record)>>

-----------------------------------------------------------------------------

TypeOK ==
    /\ pc \in {"idle", "write", "done"}
    /\ op \in {"none", "text", "stream", "jsonl", "json"}
    /\ newline \in Newlines /\ bom \in BOOLEAN /\ torn \in BOOLEAN
    /\ Len(input) <= MaxParts
    /\ pending \in {<<>>, <<CR>>}
    /\ result \in {"none", "ok", "encode", "source", "io"}

Init ==
    /\ pc = "idle" /\ op = "none" /\ newline = <<LF>> /\ bom = FALSE
    /\ input = <<>> /\ pending = <<>> /\ written = <<>> /\ result = "none"
    /\ file = Old /\ torn = FALSE

End(r) == pc' = "done" /\ result' = r

\* The disk refuses: a beginning of `data` is in the file, and perhaps a part of
\* what comes next.  A failing close may find all of it there.
KeepsABeginning(data) ==
    \E n \in 0..Len(data) :
        file' = SubSeq(data, 1, n) /\ torn' \in BOOLEAN /\ (torn' => n < Len(data))

\* The file is closed behind what was written, and the answer is r, unless the
\* last of the buffer cannot be written.
Close(r) ==
    \/ End(r) /\ file' = written' /\ UNCHANGED torn
    \/ End("io") /\ KeepsABeginning(written')

\* handle.write: into the buffer, or some of it to the disk, which may refuse.
Write(data) ==
    /\ written' = written \o data
    /\ \/ UNCHANGED <<pc, result, disk>>
       \/ End("io") /\ KeepsABeginning(written')

\* write_text: everything is encoded before the file is touched.
write_text(text, nl, b) ==
    /\ pc = "idle" /\ op' = "text" /\ newline' = nl /\ bom' = b /\ input' = <<text>>
    /\ \/ ~Encodable(text) /\ End("encode") /\ UNCHANGED <<written, disk>>
       \/ Encodable(text) /\ End("io") /\ UNCHANGED <<written, disk>>
       \/ /\ Encodable(text)
          /\ written' = BOM_BYTES(b) \o normalize_newlines(text, nl)
          /\ Close("ok")
    /\ UNCHANGED pending

\* The file is opened, and with that emptied, before the first chunk or
\* record is taken.
Open(o, nl, b) ==
    /\ pc = "idle" /\ op' = o /\ newline' = nl /\ bom' = b
    /\ \/ /\ pc' = "write" /\ file' = <<>> /\ UNCHANGED <<result, torn>>
          /\ written' = CASE o = "stream" -> BOM_BYTES(b) [] o = "json" -> <<Mark("[")>> [] OTHER -> <<>>
       \/ End("io") /\ UNCHANGED <<written, disk>>
    /\ UNCHANGED <<input, pending>>

\* Each chunk by itself.
WriteChunkAtOnce(chunk) ==
    /\ pc = "write" /\ op = "stream" /\ Len(input) < MaxParts
    /\ input' = Append(input, chunk)
    /\ \/ Encodable(chunk) /\ Write(normalize_newlines(chunk, newline))
       \/ ~Encodable(chunk) /\ UNCHANGED written /\ Close("encode")
    /\ UNCHANGED <<op, newline, bom, pending>>

\* One chunk; a CR at its end waits for what comes next.
WriteChunk(chunk) ==
    /\ pc = "write" /\ op = "stream" /\ Len(input) < MaxParts
    /\ input' = Append(input, chunk)
    /\ LET text == pending \o chunk
           kept == Waiting(text)
           complete == SubSeq(text, 1, Len(text) - Len(kept))
       IN /\ pending' = kept
          /\ \/ Encodable(complete) /\ Write(normalize_newlines(complete, newline))
             \/ ~Encodable(complete) /\ UNCHANGED written /\ Close("encode")
    /\ UNCHANGED <<op, newline, bom>>

\* A separator goes before every record but the first, ...
Separator == IF op = "json" /\ input # <<>> THEN <<Mark(",")>> ELSE <<>>

\* _write_record_stream
WriteRecord(record) ==
    /\ pc = "write" /\ op \in {"jsonl", "json"} /\ Len(input) < MaxParts
    /\ input' = Append(input, record)
    /\ Write(Separator \o <<record_json_bytes(record)>> \o (IF op = "jsonl" THEN <<Mark(LF)>> ELSE <<>>))
    /\ UNCHANGED <<op, newline, bom, pending>>

\* ... also before one that orjson cannot write (an integer beyond 64 bits).
RefuseRecord(record) ==
    /\ pc = "write" /\ op \in {"jsonl", "json"} /\ Len(input) < MaxParts
    /\ input' = Append(input, record)
    /\ written' = written \o Separator
    /\ Close("encode")
    /\ UNCHANGED <<op, newline, bom, pending>>

\* The source has no more: the CR that waited, the array's end.
Finish ==
    /\ pc = "write"
    /\ written' = written \o (IF op = "json" THEN <<Mark("]")>> ELSE normalize_newlines(pending, newline))
    /\ Close("ok")
    /\ pending' = <<>>
    /\ UNCHANGED <<op, newline, bom, input>>

\* The source raises: what was written stays.
SourceFails ==
    /\ pc = "write"
    /\ UNCHANGED <<op, newline, bom, input, pending, written>>
    /\ Close("source")

\* The caller has the answer; the next call finds another file.
Forget ==
    /\ pc = "done" /\ pc' = "idle" /\ op' = "none" /\ newline' = <<LF>> /\ bom' = FALSE
    /\ input' = <<>> /\ pending' = <<>> /\ written' = <<>> /\ result' = "none"
    /\ file' = Old /\ torn' = FALSE

Next ==
    \/ \E c \in Chunks, nl \in Newlines, b \in BOOLEAN : write_text(c, nl, b)
    \/ \E nl \in Newlines, b \in BOOLEAN : Open("stream", nl, b)
    \/ \E o \in {"jsonl", "json"} : Open(o, <<LF>>, FALSE)
    \/ \E c \in Chunks : WriteChunk(c)
    \/ \E r \in Records : WriteRecord(r) \/ RefuseRecord(r)
    \/ Finish \/ SourceFails \/ Forget

Spec == Init /\ [][Next]_vars

-----------------------------------------------------------------------------

\* Reference: what a reader of the whole text calls a line end, written as
\* the newline asked for, everything else as it is.
Expected(text, nl) ==
    FlattenSeq([i \in 1..Len(text) |->
        IF text[i] \notin {CR, LF} THEN <<text[i]>>
        ELSE IF text[i] = LF /\ i > 1 /\ text[i - 1] = CR THEN <<>> ELSE nl])

\* The text or the records of a call that has ended were taken to its file.
Opened == pc = "done" /\ (file # Old \/ result \in {"ok", "source"})

\* What was taken before the one that could not be encoded, if one could not.
Sound == IF result = "encode" THEN Front(input) ELSE input

\* All of a text but a CR at its end.
Settled(text) == SubSeq(text, 1, Len(text) - Len(Waiting(text)))

Starts(beginning, whole) ==
    \E n \in 0..Len(whole) : beginning = SubSeq(whole, 1, n)

\* However the text was cut into chunks, the file that write_text_stream
\* leaves is the one the whole text makes; write_text's too.  A source that
\* fails and a chunk without bytes leave all that came before, but for a CR
\* that waited; a disk that refuses leaves a beginning.
ChunksDoNotShow ==
    Opened /\ op \in {"text", "stream"} =>
        /\ result = "ok" => file = BOM_BYTES(bom) \o Expected(FlattenSeq(input), newline)
        /\ result \in {"source", "encode"} =>
               file = BOM_BYTES(bom) \o Expected(Settled(FlattenSeq(Sound)), newline)
        /\ Starts(file, BOM_BYTES(bom) \o Expected(FlattenSeq(input), newline))
        /\ torn => result = "io"

\* A text that cannot be encoded leaves write_text's file as it was.
RefusedTextKeepsTheFile == op = "text" /\ result = "encode" => file = Old

\* Where the i-th record is in a file: something comes before each object of
\* an array, and behind each of JSON lines.
Place(i) == IF op = "json" THEN 2 * i ELSE 2 * i - 1

\* What stands between the objects, at j.
Marks(j) ==
    IF op = "jsonl" THEN LF
    ELSE IF j = 1 THEN "["
    ELSE IF j > 2 * Len(input) THEN "]" ELSE ","

\* Whatever ended the writing, every object in the file is whole, at its place,
\* with all of its keys apart.  Every record taken is in it when the source
\* failed, and every one before a record without bytes; only then, or when the
\* disk refused, does an array lack its end, and one that has it is all there.
RecordsAreWhole ==
    Opened /\ op \in {"jsonl", "json"} =>
        /\ \A j \in 1..Len(file) :
               file[j][1] = IF \E i \in 1..Len(input) : j = Place(i) THEN "object" ELSE Marks(j)
        /\ \A i \in 1..Len(input) : Place(i) <= Len(file) =>
               Len(file[Place(i)][2]) = Len(input[i]) /\ IsInjective(file[Place(i)][2])
        /\ result # "io" => ~torn /\ \A i \in 1..Len(Sound) : Place(i) <= Len(file)
        /\ op = "json" /\ result # "io" => (Last(file)[1] = "]" <=> result = "ok")
        /\ op = "json" /\ torn /\ file # <<>> => Last(file)[1] # "]"

-----------------------------------------------------------------------------
(* The inductive invariant.                                                *)

\* A call that has not begun, or has ended, and what it has taken.
CallInv ==
    /\ pc = "idle" => /\ op = "none" /\ file = Old /\ ~torn /\ result = "none"
                      /\ input = <<>> /\ pending = <<>> /\ written = <<>>
    /\ pc = "write" => op \in {"stream", "jsonl", "json"} /\ result = "none" /\ ~torn
    /\ pc = "done" => op # "none" /\ result # "none"
    /\ op \in {"text", "stream"} => input \in Seq(Chunks)
    /\ op \in {"jsonl", "json"} => input \in Seq(Records) /\ pending = <<>>
    /\ result = "encode" => input # <<>>

\* What is in the file of a call that has ended.
DiskInv ==
    pc = "done" =>
        \/ file = Old /\ ~torn /\ result \in {"encode", "io"} /\ (result = "encode" => op = "text")
        \/ file = written /\ ~torn
        \/ /\ result = "io"
           /\ \E n \in 0..Len(written) :
                  file = SubSeq(written, 1, n) /\ (torn => n < Len(written))

\* A stream has written all it took but a CR that waits.
StreamInv ==
    pc = "write" /\ op = "stream" =>
        /\ pending = Waiting(FlattenSeq(input))
        /\ written = BOM_BYTES(bom) \o Expected(Settled(FlattenSeq(input)), newline)

\* What a text that was written is, by how the call ended.
TextInv ==
    Opened /\ op \in {"text", "stream"} =>
        /\ Starts(written, BOM_BYTES(bom) \o Expected(FlattenSeq(input), newline))
        /\ result = "ok" => written = BOM_BYTES(bom) \o Expected(FlattenSeq(input), newline)
        /\ result \in {"source", "encode"} =>
               written = BOM_BYTES(bom) \o Expected(Settled(FlattenSeq(Sound)), newline)

\* What is where in a file of records, by the records taken.
Pieces == {"[", ",", "]", LF, "object"} \X Seq(Int)

RecordsInv ==
    op \in {"jsonl", "json"} =>
        /\ written \in Seq(Pieces)
        /\ \A i \in 1..Len(input) : Place(i) <= Len(written) =>
               written[Place(i)] = record_json_bytes(input[i])
        /\ \A j \in 1..Len(written) :
               (\A i \in 1..Len(input) : j # Place(i)) => written[j] = Mark(Marks(j))

\* How much of it there is, by how the call ended.
Taken == 2 * Len(input) + (IF op = "json" /\ input = <<>> THEN 1 ELSE 0)

LengthInv ==
    op \in {"jsonl", "json"} =>
        /\ result \in {"none", "source"} => Len(written) = Taken
        /\ result = "ok" => Len(written) = Taken + (IF op = "json" THEN 1 ELSE 0)
        /\ result = "encode" => Len(written) = 2 * Len(input) - (IF op = "json" THEN 1 ELSE 2)
        /\ result = "io" => Len(written) <= Taken + 1

FilesInv ==
    /\ TypeOK /\ CallInv /\ DiskInv /\ StreamInv /\ TextInv /\ RecordsInv /\ LengthInv
    /\ RefusedTextKeepsTheFile
=============================================================================
