------------------------------- MODULE Stream -------------------------------
(***************************************************************************)
(* One session at the grain of bytes: commands read by session_do_read, a  *)
(* file read by file_upload, a description read by session_do_read again   *)
(* and collected by file_upload_description; from a stream that TCP may    *)
(* cut anywhere, sent by a client that waits for answers or does not.      *)
(*                                                                         *)
(* Bytes are what the code tells apart: "UP" is the whole of an upload     *)
(* command, "E1" and "E2" are the five bytes of ":END:", and a package     *)
(* descriptor (s_file_pd_t) is a signal and a package size, one byte each. *)
(* A read or a write may fail, and a write take a part of what it is       *)
(* given; "?" is what a buffer held that nothing was read to.              *)
(* Disk, descriptors and tables are in Board.                              *)
(***************************************************************************)
EXTENDS Lines, Transfer

Marker == <<"E1", "E2">>
Text == {"x", "y", "CR", "NL", "E1", "E2"}
(* The package size a byte of a descriptor stands for. *)
SizeIn == [p1 |-> 1, p2 |-> 2, p4 |-> 4]
Byte == Text \cup Signal \cup DOMAIN SizeIn \cup {"UP", "?"}

(* strstr(line, ":END:") *)
MarkerEnds(s) == {i \in 2 .. Len(s) : SubSeq(s, i - 1, i) = Marker}
HasMarker(s) == MarkerEnds(s) # {}

CONSTANTS
  Script,        \* what a client may be about to send
  MaxCommands,   \* bound: commands of a script
  MaxFailures,   \* bound: reads that fail, and writes that fail or are short
  Failing        \* bound: the scripts that meet them

(* A file as the client packs it, and the bytes of it. *)
Package == [signal: Signal, size: DOMAIN SizeIn, bytes: Seq(Byte)]
Packed(p) == <<p.signal, p.size>> \o p.bytes
Packing(s) == [i \in DOMAIN s.packages |-> Packed(s.packages[i])]
Payload(s) == [i \in DOMAIN s.packages |-> s.packages[i].bytes]

(* begin is the state the session is in; the commands, each a message of   *)
(* its own and the last of them perhaps an upload, are followed by the     *)
(* packages of content, and a text that ends with its marker.  Only the    *)
(* last package may have less bytes than it announces.                     *)
ASSUME StreamAssumption ==
  /\ SizeofPd = 2
  /\ MaxFailures \in Nat
  /\ \A p \in DOMAIN SizeIn : SizeIn[p] < SizeMod
  /\ \A s \in Script :
       /\ s.begin \in {"command", "describing"}
       /\ s.commands \in Seq(Seq(Byte) \ {<<>>})
       /\ Len(s.commands) <= MaxCommands
       /\ \A i \in 1 .. Len(s.commands) - 1 :
            \A j \in 1 .. Len(s.commands[i]) : s.commands[i][j] # "UP"
       /\ s.packages \in Seq(Package)
       /\ \A i \in 1 .. Len(s.packages) :
            LET p == s.packages[i]
            IN  IF p.signal # "continue" THEN p.bytes = <<>>
                ELSE \/ Len(p.bytes) = SizeIn[p.size]
                     \/ i = Len(s.packages) /\ Len(p.bytes) < SizeIn[p.size]
       /\ s.content \in Seq(Byte) /\ Len(s.content) < SizeMod
       /\ IsPrefix(FlattenSeq(Payload(s)), s.content)
       /\ s.text \in Seq(Byte)
       /\ \A i \in MarkerEnds(s.text) :
            i = Len(s.text) - 1 /\ s.text[i + 1] = "NL"
       /\ s.begin = "describing" =>
            s.commands = <<>> /\ s.packages = <<>> /\ s.content = <<>>

VARIABLES
  script,        \* the client's script
  sent,          \* messages it has sent
  wire,          \* bytes sent and not read
  buf,           \* sess->buf, its first buf_used bytes
  state,         \* "command", "upload", "describing" or "closed"
  rest,          \* sess->file->rest
  package_rest,  \* sess->file->package_rest
  stored,        \* bytes written to the file
  description,   \* sess->file->description; <<>> is NULL
  saved,         \* the files that were saved, with their descriptions
  lines,         \* lines executed as commands
  taken,         \* history: bytes that a handler has taken, in order
  whole,         \* history: every command read was one message of one line
  inStep,        \* history: file and text were begun where they begin, and
                 \* no read for the file reached into the text
  clean,         \* history: every package descriptor was read in one piece,
                 \* and no read or write of an upload failed or was short
  failures,      \* reads that failed, and writes that failed or were short
  torn,          \* history: a write of an upload was short
  cut            \* history: a read ended inside of a marker or a line end

client == <<script, sent>>
file == <<rest, package_rest, stored>>
told == <<lines, taken, whole, inStep, clean, torn, cut>>
vars == <<client, wire, buf, state, file, description, saved, told, failures>>

-----------------------------------------------------------------------------
(* The client *)

(* Nothing is sent of what is empty. *)
MessageOf(m) == IF m = <<>> THEN <<>> ELSE <<m>>

File == FlattenSeq(Packing(script))

Messages == script.commands \o MessageOf(File) \o MessageOf(script.text)

(* Where file and text begin in the stream. *)
FileStart == Len(FlattenSeq(script.commands))
TextStart == FileStart + Len(File)

Init ==
  /\ script \in Script
  /\ sent = 0
  /\ wire = <<>>
  /\ buf = <<>>
  /\ state = script.begin
  /\ rest = 0
  /\ package_rest = 0
  /\ stored = <<>>
  /\ description = <<>>
  /\ saved = <<>>
  /\ lines = <<>>
  /\ taken = <<>>
  /\ whole = TRUE
  /\ inStep = TRUE
  /\ clean = TRUE
  /\ failures = 0
  /\ torn = FALSE
  /\ cut = FALSE

(* The next message, after the answer to the last one or before it. *)
Send ==
  /\ state # "closed"
  /\ sent < Len(Messages)
  /\ sent' = sent + 1
  /\ wire' = wire \o Messages[sent']
  /\ UNCHANGED <<script, buf, state, file, description, saved, told, failures>>

-----------------------------------------------------------------------------
(* session_do_read *)

(* What read() may return: any part of what has come, as far as there is   *)
(* room in the buffer.                                                     *)
LineReads == 1 .. Lesser(Len(wire), INBUFSIZE - Len(buf))

Received(n) == buf \o SubSeq(wire, 1, n)

(* The next n bytes are the message that was sent last, and one line. *)
IsMessage(n) ==
  LET m == Messages[sent]
  IN  buf = <<>> /\ n = Len(wire) /\ n = Len(m) /\ Newlines(m) \subseteq {n}

IsUpload(line) == line[1] = "UP"

(* Mutant: bytes without a newline stay in the buffer. *)
ReadWholeCommandOnly(n) ==
  /\ state = "command"
  /\ n \in LineReads
  /\ wire' = SubSeq(wire, n + 1, Len(wire))
  /\ IF Newlines(Received(n)) = {}
     THEN buf' = Received(n) /\ UNCHANGED <<taken, lines>>
     ELSE /\ buf' = Rest(Received(n))
          /\ taken' = taken \o SubSeq(Received(n), 1, Taken(Received(n)))
          /\ lines' = Append(lines, Line(Received(n)))
  /\ whole' = (whole /\ IsMessage(n))
  /\ UNCHANGED <<client, state, file, description, saved, inStep, clean, cut,
                 torn, failures>>

(* One read, one line, which is executed at once.  The rest of the buffer  *)
(* waits for the next read.                                                *)
ReadCommand(n) ==
  LET line == Line(Received(n))
  IN  /\ state = "command"
      /\ n \in LineReads
      /\ wire' = SubSeq(wire, n + 1, Len(wire))
      /\ buf' = Rest(Received(n))
      /\ taken' = taken \o SubSeq(Received(n), 1, Taken(Received(n)))
      /\ whole' = (whole /\ IsMessage(n))
      /\ IF Len(buf') >= INBUFSIZE
         THEN /\ state' = "closed"
              /\ UNCHANGED <<file, description, lines, inStep>>
         ELSE /\ lines' = Append(lines, line)
              /\ IF IsUpload(line)
                 THEN /\ state' = "upload"
                      /\ rest' = Len(script.content)
                      /\ package_rest' = 0
                      /\ stored' = <<>>
                      /\ description' = <<>>
                      /\ inStep' = (/\ inStep
                                    /\ buf' = <<>>
                                    /\ Len(taken') = FileStart)
                 ELSE UNCHANGED <<state, file, description, inStep>>
      /\ UNCHANGED <<client, saved, clean, cut, torn, failures>>

(* read() returns 0: the client has gone, perhaps by a reset that made a   *)
(* call fail, or there is no room to read to.  An upload is aborted first. *)
ReadNothing ==
  /\ state # "closed"
  /\ \/ wire = <<>>
     \/ failures > 0
     \/ state # "upload" /\ Len(buf) = INBUFSIZE
  /\ state' = "closed"
  /\ UNCHANGED <<client, wire, buf, file, description, saved, told, failures>>

(* read() returns -1: as if the client had gone. *)
LineReadFails ==
  /\ state \in {"command", "describing"}
  /\ script \in Failing /\ failures < MaxFailures
  /\ failures' = failures + 1
  /\ state' = "closed"
  /\ UNCHANGED <<client, wire, buf, file, description, saved, told>>

-----------------------------------------------------------------------------
(* file_upload, which reads past the buffer of the session *)

(* What the i-th byte of r says as part of a descriptor.  Bytes that are   *)
(* not one, or were not received (buf is not initialised), say anything.   *)
Signals(r, i) ==
  IF i <= Len(r) /\ r[i] \in Signal THEN {r[i]} ELSE Signal
PackageSizes(r, i) ==
  IF i <= Len(r) /\ r[i] \in DOMAIN SizeIn THEN {SizeIn[r[i]]}
  ELSE {SizeIn[s] : s \in DOMAIN SizeIn}

(* Mutant: the whole of what is behind the descriptor, as if the package   *)
(* before it had been empty.                                               *)
WrittenFromStart(r, u) ==
  SubSeq(r, 1, u.first) \o SubSeq(r, SizeofPd + 1, SizeofPd + u.second)

(* j bytes in front of the descriptor, and k behind it. *)
Parts(r, j, k) ==
  SubSeq(r, 1, j)
    \o SubSeq(r, package_rest + SizeofPd + 1, package_rest + SizeofPd + k)

(* Mutant: what is behind the descriptor is counted, and not written. *)
WrittenBefore(r, u) == SubSeq(r, 1, u.first)

(* The two writes of one call. *)
Written(r, u) == Parts(r, u.first, u.second)

(* There is no descriptor in the n bytes, or a complete one that announces *)
(* what follows it, or that makes the file pause and is all that was read. *)
ReadClean(n, sig, ps) ==
  \/ n <= package_rest
  \/ rest = package_rest
  \/ /\ Behind(package_rest, n) >= 0
     /\ \/ sig = "continue" /\ Behind(package_rest, n) <= ps
        \/ sig = "pause" /\ package_rest = 0 /\ Behind(package_rest, n) = 0
        \/ sig = "cancel"

(* Mutant: the buffer is always filled. *)
FileReadsFull == {INBUFSIZE} \cap (1 .. Len(wire))

FileReads == 1 .. Lesser(Len(wire), INBUFSIZE)

ReadFile(n) ==
  LET r == SubSeq(wire, 1, n)
  IN  /\ state = "upload"
      /\ n \in FileReads
      /\ wire' = SubSeq(wire, n + 1, Len(wire))
      /\ taken' = taken \o r
      /\ \E sig \in Signals(r, package_rest + 1),
            ps \in PackageSizes(r, package_rest + 2) :
           LET u == UploadStep(rest, package_rest, n, sig, ps)
           IN  /\ clean' = (clean /\ ReadClean(n, sig, ps))
               /\ rest' = u.rest
               /\ package_rest' = u.package_rest
               /\ IF u.cancel
                  THEN stored' = <<>> /\ state' = "command"
                  ELSE /\ stored' = stored \o Written(r, u)
                       /\ state' = IF u.rest = 0 THEN "describing"
                                                 ELSE "upload"
      /\ inStep' = (/\ inStep
                    /\ Len(taken') <= TextStart
                    /\ state' = "describing" => Len(taken') = TextStart)
      /\ UNCHANGED <<client, buf, description, saved, lines, whole, cut, torn,
                     failures>>

(* read() returns -1, which is more than package_rest when it is compared  *)
(* as a size_t: as much of the buffer as the package is short of is        *)
(* written, and a descriptor looked for behind it, where nothing was read. *)
(* (write() refuses a length of SIZE_MAX, which is -1.)                    *)
FileReadFails ==
  /\ state = "upload"
  /\ script \in Failing /\ failures < MaxFailures
  /\ failures' = failures + 1
  /\ clean' = FALSE
  /\ \E sig \in Signals(<<>>, 1), ps \in PackageSizes(<<>>, 2) :
       LET u == UploadStep(rest, package_rest, -1, sig, ps)
       IN  /\ u.first < SizeMod - 1
           /\ rest' = u.rest
           /\ package_rest' = u.package_rest
           /\ IF u.cancel
              THEN stored' = <<>> /\ state' = "command"
              ELSE /\ stored' = stored \o [i \in 1 .. u.first |-> "?"]
                   /\ state' = IF u.rest = 0 THEN "describing" ELSE "upload"
  /\ inStep' = (inStep /\ (state' = "describing" => Len(taken) = TextStart))
  /\ UNCHANGED <<client, wire, buf, description, saved, lines, taken, whole,
                 cut, torn>>

(* What a call writes whose read returned rlen. *)
ToWrite(rlen, sig, ps) ==
  LET u == UploadStep(rest, package_rest, rlen, sig, ps)
  IN  u.first + u.second

(* One of the two writes behind a read of n bytes fails (n = 0: behind a   *)
(* read that failed): the file is removed.                                 *)
FileWriteFails(n) ==
  /\ state = "upload"
  /\ n \in {0} \cup FileReads
  /\ \E sig \in Signals(SubSeq(wire, 1, n), package_rest + 1),
        ps \in PackageSizes(SubSeq(wire, 1, n), package_rest + 2) :
       ToWrite(IF n = 0 THEN -1 ELSE n, sig, ps) > 0
  /\ script \in Failing /\ failures < MaxFailures
  /\ failures' = failures + 1
  /\ wire' = SubSeq(wire, n + 1, Len(wire))
  /\ taken' = taken \o SubSeq(wire, 1, n)
  /\ state' = "command"
  /\ stored' = <<>>
  /\ clean' = FALSE
  /\ inStep' = (inStep /\ Len(taken') <= TextStart)
  /\ UNCHANGED <<client, buf, rest, package_rest, description, saved, lines,
                 whole, cut, torn>>

(* One of them, or each, takes a part of what it is given, at least a      *)
(* byte.  Nobody looks at how much: the counters move as if it were all.   *)
FileWriteShort(n) ==
  LET r == SubSeq(wire, 1, n)
  IN  /\ state = "upload"
      /\ n \in FileReads
      /\ script \in Failing /\ failures < MaxFailures
      /\ failures' = failures + 1
      /\ torn' = TRUE
      /\ clean' = FALSE
      /\ wire' = SubSeq(wire, n + 1, Len(wire))
      /\ taken' = taken \o r
      /\ \E sig \in Signals(r, package_rest + 1),
            ps \in PackageSizes(r, package_rest + 2) :
           LET u == UploadStep(rest, package_rest, n, sig, ps)
           IN  \E j \in Lesser(1, u.first) .. u.first,
                  k \in Lesser(1, u.second) .. u.second :
                 /\ ~u.cancel
                 /\ j + k < u.first + u.second
                 /\ stored' = stored \o Parts(r, j, k)
                 /\ rest' = u.rest
                 /\ package_rest' = u.package_rest
                 /\ state' = IF u.rest = 0 THEN "describing" ELSE "upload"
      /\ inStep' = (/\ inStep
                    /\ Len(taken') <= TextStart
                    /\ state' = "describing" => Len(taken') = TextStart)
      /\ UNCHANGED <<client, buf, description, saved, lines, whole, cut>>

-----------------------------------------------------------------------------
(* file_upload_description *)

(* The ends of the lines that are cut off b one after the other, and those *)
(* of them whose lines hold a marker.                                      *)
LineEnds(b) == Newlines(b) \cup {Len(b)}
MarkedEnds(b) ==
  {e \in LineEnds(b) :
     \E i \in MarkerEnds(SubSeq(b, 1, e)) :
       ~\E nl \in Newlines(b) : i - 1 <= nl /\ nl < e}

(* Mutant: what is left in the buffer is not looked at. *)
CollectedFirst(b) == Taken(b)

(* Lines are collected until one holds a marker, or the buffer is empty. *)
Collected(b) ==
  IF MarkedEnds(b) = {} THEN Len(b) ELSE Least(MarkedEnds(b))

(* Mutant: the marker alone is cut off. *)
CutMarkerOnly(d) == SubSeq(d, 1, Len(d) - Len(Marker))

(* The last 6 bytes are cut off: a marker and the newline behind it.  Of a *)
(* description that is the marker alone nothing is: the zero is written    *)
(* into the byte in front of it, which is zero in the heap already.        *)
Cut(d) ==
  IF Len(d) <= Len(Marker) THEN d ELSE SubSeq(d, 1, Len(d) - Len(Marker) - 1)

(* A read of n bytes separates two that belong together. *)
Cuts(n) ==
  n < Len(wire) /\ <<wire[n], wire[n + 1]>> \in
                     {<<"CR", "NL">>, Marker, <<"E2", "NL">>}

(* One read and the lines that are in the buffer then; with the marker the *)
(* file is saved (perform_session_action).                                 *)
ReadDescription(n) ==
  LET b == Received(n)
      k == Collected(b)
      d == description \o Unix(SubSeq(b, 1, k))
  IN  /\ state = "describing"
      /\ n \in LineReads
      /\ wire' = SubSeq(wire, n + 1, Len(wire))
      /\ buf' = SubSeq(b, k + 1, Len(b))
      /\ taken' = taken \o SubSeq(b, 1, k)
      /\ cut' = (cut \/ Cuts(n))
      /\ IF k \in MarkedEnds(b)
         THEN /\ saved' = Append(saved, [bytes |-> stored,
                                         description |-> Cut(d)])
              /\ state' = "command"
              /\ stored' = <<>>
              /\ description' = <<>>
         ELSE /\ description' = d
              /\ UNCHANGED <<saved, state, stored>>
      /\ UNCHANGED <<client, rest, package_rest, lines, whole, inStep, clean,
                     torn, failures>>

-----------------------------------------------------------------------------
Read(n) == ReadCommand(n) \/ ReadFile(n) \/ ReadDescription(n)

Next ==
  \/ Send
  \/ \E n \in 1 .. INBUFSIZE : Read(n)
  \/ ReadNothing
  \/ LineReadFails
  \/ FileReadFails
  \/ \E n \in 0 .. INBUFSIZE : FileWriteFails(n) \/ FileWriteShort(n)

(* The loop serves every session that has something to read (ServerLoop);  *)
(* the client need not send.                                               *)
Spec == Init /\ [][Next]_vars /\ WF_vars(\E n \in 1 .. INBUFSIZE : Read(n))
-----------------------------------------------------------------------------
(* Properties *)

(* Every variable has its type; a line is never empty (session.c), and the *)
(* counters of an upload are sizes (file_upload).                          *)
TypeOK ==
  /\ script \in Script
  /\ sent \in 0 .. Len(Messages)
  /\ wire \in Seq(Byte)
  /\ buf \in Seq(Byte)
  /\ state \in {"command", "upload", "describing", "closed"}
  /\ rest \in SizeT /\ package_rest \in SizeT
  /\ stored \in Seq(Byte)
  /\ description \in Seq(Byte)
  /\ saved \in Seq([bytes : Seq(Byte), description : Seq(Byte)])
  /\ lines \in Seq(Seq(Byte) \ {<<>>})
  /\ taken \in Seq(Byte)
  /\ {whole, inStep, clean, torn, cut} \subseteq BOOLEAN
  /\ failures \in 0 .. MaxFailures

(* read() is never called with a length of 0, which would return 0 and     *)
(* close the session of a client that is still there (session_do_read).    *)
ReadHasRoom == Len(buf) < INBUFSIZE

(* However the stream is cut, every byte is taken once and in the order in *)
(* which it was sent, by the three handlers that share the socket: as long *)
(* as file_upload began with an empty buffer, which it does not look at,   *)
(* and did not take what belongs to the description, which it drops.       *)
BytesInOrder ==
  inStep => taken \o buf \o wire = FlattenSeq(SubSeq(Messages, 1, sent))

(* With a client that waits for each answer, and a network that delivers   *)
(* each message whole, what is executed is what was sent, message by       *)
(* message, and nothing is left in the buffer, where file_upload would not *)
(* look for it (session_do_read).                                          *)
LinesAreMessages ==
  whole =>
    /\ \A i \in DOMAIN lines \cap DOMAIN script.commands :
         lines[i] = Unix(script.commands[i])
    /\ state \in {"command", "upload"} /\ saved = <<>> => buf = <<>>

(* ... and every message is executed. *)
MessagesAnswered ==
  \A k \in 1 .. MaxCommands :
    k <= Len(script.commands) /\ sent >= k
      ~> Len(lines) >= k \/ ~whole \/ state = "closed"

(* When every descriptor comes in one piece, no read or write of the file  *)
(* fails or is short, and the file begins behind the command and ends      *)
(* before the text is read, the bytes that are written are those of the    *)
(* file, in order and without the descriptors between them; and they are   *)
(* all there when the server asks for the description (file_upload).       *)
(* Reads may end anywhere else, and a package may announce more than the   *)
(* file has.                                                               *)
FileArrives ==
  inStep /\ clean =>
    /\ state = "upload" => IsPrefix(stored, script.content)
    /\ state = "describing" => stored = script.content
    /\ \A i \in DOMAIN saved : saved[i].bytes = script.content

(* Whatever a client sends, wherever its descriptors are cut and whatever  *)
(* fails, no file is finished with fewer bytes than its size: rest may     *)
(* wrap, and bytes that were never received may be counted, but it does    *)
(* not come to 0 before so many were written (file_upload).  Exempt: files *)
(* of which a write was short, which file_upload does not notice.          *)
NoShortFile ==
  torn \/
    /\ state = "describing" => Len(stored) >= Len(script.content)
    /\ \A i \in DOMAIN saved : Len(saved[i].bytes) >= Len(script.content)

(* A file that was sent and not cancelled does arrive.  One without bytes  *)
(* does not: file_upload waits for a first byte all the same.              *)
FileSent ==
  /\ sent > Len(script.commands)
  /\ FlattenSeq(Payload(script)) = script.content
  /\ script.content # <<>>
UploadEnds ==
  state = "upload" /\ FileSent ~> state = "describing" \/ ~inStep \/ ~clean

(* What the client wrote before the marker. *)
TextBeforeMarker ==
  SubSeq(script.text, 1, Least(MarkerEnds(script.text)) - Len(Marker))

(* When no read ends inside of the marker or of a line end, what is saved  *)
(* is what the client wrote before the marker, however many lines one read *)
(* brought or one line took (file_upload_description).                     *)
DescriptionIsText ==
  inStep /\ ~cut =>
    \A i \in DOMAIN saved : saved[i].description = Unix(TextBeforeMarker)

(* However it is cut, what is saved of a text without \r\n is the text,    *)
(* except for its last byte when the newline behind the marker came later  *)
(* than the marker; an empty text then leaves the marker (its last 6 bytes *)
(* are cut off a description of 5).                                        *)
DescriptionKept ==
  LET text == TextBeforeMarker
      Kept(d) ==
        \/ d = text
        \/ cut /\ d = IF text = <<>> THEN Marker ELSE Front(text)
  IN  inStep /\ saved # <<>> /\ Unix(text) = text =>
        \A i \in DOMAIN saved : Kept(saved[i].description)

(* ... and a description ends when its marker has come and can be read.    *)
DescriptionEnds ==
  state = "describing" /\ sent = Len(Messages) /\ HasMarker(script.text)
    ~> saved # <<>> \/ ~inStep \/ cut \/ failures > 0

(* Client and server never wait for each other: a server that has read all *)
(* that was sent has executed the messages that came whole, stored the file *)
(* and found the marker (session_do_read, file_upload,                     *)
(* file_upload_description).                                               *)
NoClientWaits ==
  wire = <<>> =>
    /\ whole => Len(lines) >= Lesser(sent, Len(script.commands))
    /\ inStep /\ clean => ~(state = "upload" /\ FileSent)
    /\ inStep /\ ~cut /\ HasMarker(script.text) =>
         ~(state = "describing" /\ sent = Len(Messages))

(* "returns 1 if there is :END: ; 0 if opposite": the session does not go  *)
(* on describing when the marker has come (file_upload_description).       *)
MarkerIsSeen == state = "describing" => ~HasMarker(description)

(* "File %s is uploaded to the server": when that is said of an upload     *)
(* that began behind its command, and of which every descriptor came in    *)
(* one piece, what is stored is the client's file (file_upload).           *)
FinishedIsUploaded ==
  [][inStep /\ clean /\ state = "upload" /\ state' = "describing" =>
       stored' = script.content]_vars
=============================================================================
