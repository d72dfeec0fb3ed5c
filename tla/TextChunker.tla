---------------------------- MODULE TextChunker ----------------------------
(***************************************************************************)
(* TextChunker of src/src/vector/TextChunker.cpp: one step per iteration   *)
(* of its loops.  A chunk is the sequence of the positions of the text its *)
(* bytes come from, so that what is lost, repeated or cut can be said.     *)
(***************************************************************************)
EXTENDS Integers, Sequences, FiniteSets, SequencesExt

CONSTANTS
    MaxText,      \* bound: length of a text
    Sizes,        \* chunk sizes asked for
    Overlaps,     \* overlaps asked for
    Entries,      \* the functions called: "paragraph" and "size"
    Default,      \* the size that stands for 0 (2000 and 1000 in the code)
    Word          \* size_t holds 0..Word-1, and more than a text and a chunk

Sized(n) == IF n = 0 THEN Default ELSE n

\* chunkBySize corrects an overlap that is not smaller than the chunk.
Overlapping(o, s) == IF o >= s THEN s \div 4 ELSE o

\* A text and a window are shorter than a word, and an overlap is at most a half
\* of the size, the byte behind the window counted: with a larger one a window
\* that ends early would be followed by one that begins where it did, or before.
\* The callers take a fifth (src/src/main.cpp:442 by way of chunkByParagraph);
\* the default is 200 for 1000.
ASSUME ChunkerAssumption ==
    /\ MaxText \in Nat /\ Word \in Nat /\ Default \in Nat \ {0}
    /\ Sizes \subseteq Nat /\ Overlaps \subseteq Nat /\ Entries \subseteq {"paragraph", "size"}
    /\ \A s \in Sizes : /\ MaxText + 1 + Sized(s) < Word
                        /\ \A o \in Overlaps : Overlapping(o, Sized(s)) <= Sized(s) \div 2 + 1

Bytes == {"letter", "newline"}   \* what the chunker tells apart

Texts == BoundedSeq(Bytes, MaxText)

VARIABLES
    entry,                \* the function called
    text, size, overlap,  \* its arguments
    pc,                   \* the loop that runs
    para,                 \* current_para
    paragraphs,           \* the paragraphs still to be read from, or merged
    line,                 \* where the next line starts
    current,              \* current_chunk
    long,                 \* the text chunkBySize works on
    start,                \* start in chunkBySize
    chunks                \* the result

args == <<entry, text, size, overlap>>
chunkerVars == <<args, pc, para, paragraphs, line, current, long, start, chunks>>

\* The byte at a position; the newline added to an unterminated last line
\* stands behind the text.
Byte(p) == IF p > Len(text) THEN "newline" ELSE text[p]

Whole == [i \in 1..Len(text) |-> i]

ChunkerInit ==
    /\ entry \in Entries /\ text \in Texts
    /\ \E s \in Sizes : size = Sized(s)
    /\ \E o \in Overlaps :
         overlap = IF entry = "size" THEN Overlapping(o, size) ELSE size \div 5
    /\ pc = IF Len(text) <= size THEN "done" ELSE IF entry = "size" THEN "window" ELSE "lines"
    /\ chunks = IF Len(text) \in 1..size THEN <<Whole>> ELSE <<>>
    /\ long = IF entry = "size" THEN Whole ELSE <<>>
    /\ para = <<>> /\ paragraphs = <<>> /\ line = 1 /\ current = <<>> /\ start = 0

-----------------------------------------------------------------------------
(* chunkByParagraph: paragraphs are told apart by empty lines.             *)

LineEnd == CHOOSE e \in line..(Len(text) + 1) :
               /\ Byte(e) = "newline"
               /\ \A p \in line..(e - 1) : Byte(p) # "newline"

AddLine ==
    /\ pc = "lines" /\ line <= Len(text)
    /\ IF LineEnd = line /\ para # <<>>
         THEN paragraphs' = Append(paragraphs, para) /\ para' = <<>>
         ELSE para' = para \o [i \in 1..(LineEnd - line + 1) |-> line + i - 1]
              /\ UNCHANGED paragraphs
    /\ line' = LineEnd + 1
    /\ UNCHANGED <<args, pc, current, long, start, chunks>>

EndLines ==
    /\ pc = "lines" /\ line > Len(text)
    /\ paragraphs' = IF para # <<>> THEN Append(paragraphs, para) ELSE paragraphs
    /\ para' = <<>> /\ pc' = "merge"
    /\ UNCHANGED <<args, line, current, long, start, chunks>>

\* The chunk being filled is closed when the next paragraph does not fit.
Flush(p) == current # <<>> /\ Len(current) + Len(p) > size

\* A paragraph goes to the chunk being filled, or is cut by chunkBySize.
Merge ==
    /\ pc = "merge" /\ paragraphs # <<>>
    /\ LET p    == Head(paragraphs)
           rest == IF Flush(p) THEN <<>> ELSE current
       IN  /\ chunks' = IF Flush(p) THEN Append(chunks, current) ELSE chunks
           /\ IF Len(p) > size
                THEN pc' = "window" /\ long' = p /\ start' = 0 /\ current' = rest
                ELSE current' = rest \o p /\ UNCHANGED <<pc, long, start>>
    /\ paragraphs' = Tail(paragraphs)
    /\ UNCHANGED <<args, para, line>>

EndMerge ==
    /\ pc = "merge" /\ paragraphs = <<>>
    /\ chunks' = IF current # <<>> THEN Append(chunks, current) ELSE chunks
    /\ current' = <<>> /\ pc' = "done"
    /\ UNCHANGED <<args, para, paragraphs, line, long, start>>

-----------------------------------------------------------------------------
(* chunkBySize: a window slides over the text, in unsigned arithmetic.     *)

\* Offsets of newlines that rfind('\n', limit) looks at.
Newlines(limit) == {o \in 0..(Len(long) - 1) : o <= limit /\ Byte(long[o + 1]) = "newline"}

\* Mutant: any newline of the window will do.
WindowEndAny ==
    LET limit == (start + size) % Word
        found == {o \in Newlines(limit) : \A q \in Newlines(limit) : q <= o}
    IN  IF limit >= Len(long) THEN Len(long)
        ELSE IF found # {} THEN (CHOOSE o \in found : TRUE) + 1 ELSE limit

\* The end of the window: the last newline in its second half, else its size.
\* rfind looks at the byte behind the window as well.
WindowEnd ==
    LET limit == (start + size) % Word
        found == {o \in Newlines(limit) : \A q \in Newlines(limit) : q <= o}
        late  == {o \in found : o > (start + size \div 2) % Word}
    IN  IF limit >= Len(long) THEN Len(long)
        ELSE IF late # {} THEN (CHOOSE o \in late : TRUE) + 1 ELSE limit

\* Mutant: the quarter is added to the end, where it is to be taken off.
NextStartGap(end) == (end + size \div 4) % Word

\* The next window begins one overlap before the end of this one, and no
\* closer to it than a quarter of the size.
NextStart(end) ==
    LET back == (end - overlap) % Word
    IN  IF (back + size \div 4) % Word >= end THEN (end - size \div 4) % Word ELSE back

\* The caller of chunkBySize: chunkByParagraph, or code outside.
After == IF entry = "size" THEN "done" ELSE "merge"

\* One turn of the loop; start < text.size() is tested again at its end.
Window ==
    /\ pc = "window"
    /\ chunks' = Append(chunks, SubSeq(long, start + 1, WindowEnd))
    /\ start' = IF WindowEnd >= Len(long) THEN start ELSE NextStart(WindowEnd)
    /\ pc' = IF WindowEnd >= Len(long) \/ start' >= Len(long) THEN After ELSE pc
    /\ UNCHANGED <<args, para, paragraphs, line, current, long>>

ChunkerNext == AddLine \/ EndLines \/ Merge \/ EndMerge \/ Window

ChunkerSpec == ChunkerInit /\ [][ChunkerNext]_chunkerVars

-----------------------------------------------------------------------------
(* Properties.                                                             *)

\* Positions of a chunk follow the text, with nothing skipped but empty lines.
InOrder(c) == \A i \in 1..(Len(c) - 1) :
                c[i] < c[i + 1] /\ \A p \in (c[i] + 1)..(c[i + 1] - 1) : Byte(p) = "newline"

\* The chunks hold the text: nothing but newlines is lost, each chunk is in
\* order, and no chunk starts before the one that precedes it.  None is larger
\* than asked for, but for the newline behind the window of a long paragraph.
NothingLost ==
    pc = "done" =>
        /\ \A p \in 1..Len(text) : text[p] # "newline" => \E i \in DOMAIN chunks : p \in Range(chunks[i])
        /\ \A i \in DOMAIN chunks : InOrder(chunks[i])
        /\ \A i \in 1..(Len(chunks) - 1) : chunks[i][1] < chunks[i + 1][1]
        /\ \A i \in DOMAIN chunks : Len(chunks[i]) <= size + 1

\* "至少前进 chunk_size/4": a window begins at least a quarter of the size
\* behind the one before, so that the loop ends, and not behind its end.
Advances ==
    [][pc = "window" /\ pc' = "window" /\ long' = long =>
          start' >= start + size \div 4 /\ start' > start /\ start' <= WindowEnd]_chunkerVars
=============================================================================
