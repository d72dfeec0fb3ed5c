--------------------------- MODULE MultipartForm ----------------------------
(***************************************************************************)
(* The body of an upload: parseMultipartFormData of                        *)
(* src/src/server/FastCgiServer.cpp, one step for each turn of its loop,   *)
(* then what handleUpload of src/src/main.cpp takes from it, and the       *)
(* pre-check of handleFileCheck that a client makes before it uploads.     *)
(*                                                                         *)
(* A body is a sequence of atoms.  A hash is the content it is made from.  *)
(***************************************************************************)
EXTENDS StringFind, FiniteSets

CONSTANTS
    MaxContent,   \* bound: atoms in the content of a file
    MaxUploads    \* bound: uploads

ASSUME FormAssumption == MaxContent \in Nat

Delim == "--boundary"
Dash  == "--"
CrLf  == "CRLF"
Named == "filename=quote"   \* what stands before the name of a file
Quote == "quote"

\* What a file may hold; the boundary only where it is no delimiter.
ContentsOf(n) ==
    {c \in BoundedSeq({"a", CrLf, Dash, Delim}, n) :
        \A i \in DOMAIN c : c[i] = Delim => i > 1 /\ c[i - 1] # CrLf}

\* A form as a client makes it: one file, perhaps with a field behind it.
Field == [filename |-> <<>>, content |-> <<"a">>]
Forms == {<<[filename |-> <<"name">>, content |-> c]>> : c \in ContentsOf(MaxContent)}
           \cup {<<[filename |-> <<"name">>, content |-> c], Field>> : c \in ContentsOf(1)}

Header(part) == IF part.filename = <<>> THEN <<"field">>
                                        ELSE <<Named>> \o part.filename \o <<Quote>>

Encoded(part) == <<Delim, CrLf>> \o Header(part) \o <<CrLf, CrLf>> \o part.content \o <<CrLf>>

Parts(form) == IF Len(form) = 1 THEN Encoded(form[1]) ELSE Encoded(form[1]) \o Encoded(form[2])

Body(form) == Parts(form) \o <<Delim, Dash, CrLf>>

VARIABLES
    form,      \* what the client sends
    body,      \* its encoding; empty between two uploads
    pos,       \* pos of the parser
    files,     \* its result
    stored,    \* contents in the table files, by their hashes
    uploaded,  \* history: contents whose upload was answered with success
    checked,   \* the last pre-check: the content and the answer
    uploads

formVars == <<form, body, pos, files, stored, uploaded, checked, uploads>>

Unchecked == [content |-> <<>>, exists |-> TRUE]

FormInit ==
    /\ form = <<>> /\ body = <<>> /\ pos = 0 /\ files = <<>>
    /\ stored = {} /\ uploaded = {}
    /\ checked = Unchecked
    /\ uploads = 0

-----------------------------------------------------------------------------
(* The parser.                                                             *)

Find(pattern, from) == FindIn(body, pattern, from)

\* Mutant: the delimiter is not looked for at the start of a line.
PartEndAnywhere(start) == Find(<<Delim>>, start)

\* Up to the line break in front of the next delimiter.
PartEnd(start) ==
    LET broken == Find(<<CrLf, Delim>>, start)
        closed == Find(<<Delim, Dash>>, start)
    IN  IF broken # 0 THEN broken ELSE IF closed # 0 THEN closed ELSE Len(body) + 1

\* A line break at the end of the content is dropped.
Stripped(c) == IF c # <<>> /\ Last(c) = CrLf THEN Front(c) ELSE c

FileName(headers) ==
    LET start == FindIn(headers, <<Named>>, 1)
        end   == FindIn(headers, <<Quote>>, start + 1)
    IN  IF start = 0 \/ end = 0 THEN <<>> ELSE SubSeq(headers, start + 1, end - 1)

\* Where the part behind the next delimiter begins, 0 if there is none.
PartStart ==
    LET start == Find(<<Delim>>, pos)
        line  == Find(<<CrLf>>, start)
    IN  IF start = 0 \/ Find(<<Delim, Dash>>, pos) = start \/ line = 0 THEN 0 ELSE line + 1

Receive(f) ==
    /\ body = <<>> /\ uploads < MaxUploads
    /\ uploads' = uploads + 1
    /\ form' = f /\ body' = Body(f) /\ pos' = 1 /\ files' = <<>>
    /\ checked' = Unchecked
    /\ UNCHANGED <<stored, uploaded>>

ParsePart ==
    /\ body # <<>> /\ PartStart # 0
    /\ LET end  == PartEnd(PartStart)
           part == SubSeq(body, PartStart, end - 1)
           head == FindIn(part, <<CrLf, CrLf>>, 1)
           file == [filename |-> FileName(SubSeq(part, 1, head - 1)),
                    content  |-> Stripped(SubSeq(part, head + 2, Len(part)))]
       IN  /\ pos' = end
           /\ files' = IF head = 0 THEN files ELSE Append(files, file)
    /\ UNCHANGED <<form, body, stored, uploaded, checked, uploads>>

-----------------------------------------------------------------------------
(* The handlers.                                                           *)

Parsed == body # <<>> /\ PartStart = 0

\* handleUpload: the first part is the file, whatever it is; none and an empty
\* one are refused; a known hash is not stored again.
Upload ==
    /\ Parsed
    /\ body' = <<>>
    /\ IF files = <<>> \/ files[1].content = <<>>
         THEN UNCHANGED <<stored, uploaded>>
         ELSE /\ stored' = stored \cup {files[1].content}
              /\ uploaded' = uploaded \cup {form[1].content}
    /\ UNCHANGED <<form, pos, files, checked, uploads>>

\* A client hashes a file it has and asks.
Check(c) ==
    /\ body = <<>>
    /\ checked' = [content |-> c, exists |-> c \in stored]
    /\ UNCHANGED <<form, body, pos, files, stored, uploaded, uploads>>

FormNext ==
    \/ \E f \in Forms : Receive(f)
    \/ ParsePart \/ Upload
    \/ \E c \in uploaded : Check(c)

FormSpec == FormInit /\ [][FormNext]_formVars

-----------------------------------------------------------------------------
(* Properties.                                                             *)

\* The parser gives back the parts of the form, in their order, each under its
\* name and with its content to the byte, unless that ends in a line break;
\* dashes, line breaks and the boundary inside a line do not confuse it.
Delivered ==
    Parsed =>
        /\ Len(files) = Len(form)
        /\ \A i \in DOMAIN form :
             /\ files[i].filename = form[i].filename
             /\ \/ files[i].content = form[i].content
                \/ form[i].content = Append(files[i].content, CrLf)

\* "已存在文件直接引用，避免重复存储": the pre-check finds a file that was uploaded
\* before by the hash of its content.
UploadedIsFound == checked.content \in uploaded => checked.exists
=============================================================================
