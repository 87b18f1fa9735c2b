------------------------------- MODULE Socket -------------------------------
(***************************************************************************)
(* Framing (socket/socket.go): WriteSocket at one end of a byte stream,    *)
(* ReadSocket at the other.  Both ends of the program use it the same way: *)
(* a loop calls it again after an error that is not "broken", and closes   *)
(* the connection after one that is.                                       *)
(*                                                                         *)
(* The stream is a sequence of 16-bit words.  A header is <<magic, code,   *)
(* length>> (the version, which nobody reads, is left out); length counts  *)
(* the words of the body.  MaxWord stands for 65535.  A body may contain   *)
(* any word, Magic too.  The network delivers any part of what is written  *)
(* at a time, and a cut loses any suffix of what is in flight.             *)
(***************************************************************************)
EXTENDS Naturals, Sequences

CONSTANTS
  MaxWord,    \* math.MaxUint16
  Magic,      \* constant.DefaultMagic
  Codes,      \* header codes that are sent
  Alphabet,   \* words bodies are made of
  MaxFrames,  \* bound: items written to the stream
  Deadlines   \* may a read deadline pass?

ASSUME SocketAssumption ==
  /\ MaxWord \in Nat /\ MaxFrames \in Nat /\ Deadlines \in BOOLEAN
  /\ Magic \in 0 .. MaxWord
  /\ Codes \subseteq 0 .. MaxWord /\ Alphabet \subseteq 0 .. MaxWord

Word == 0 .. MaxWord
HeaderSize == 3
Bodies == UNION {[1 .. n -> Alphabet] : n \in 0 .. MaxWord + 1}
Items == [magic : Word, code : Codes, body : Bodies]

VARIABLES
  sent,     \* the items of the writer's end, in order
  words,    \* all their words, one item after the other
  ends,     \* how many words there are up to the end of each item
  wstatus,  \* what the last WriteSocket returned
  writing,  \* words in bufWriter that are not on the stream yet
  failed,   \* the error that sticks to a bufio.Writer
  stream,   \* words in flight
  cut,      \* the connection is closed, by either end
  rpc,      \* where ReadSocket is
  header,   \* the header it has read
  got,      \* what it has returned of each item: a frame, or none
  rstatus   \* how its last call ended

history == <<sent, words, ends>>
writerVars == <<history, wstatus, writing, failed>>
readerVars == <<rpc, header, got, rstatus>>
socketVars == <<writerVars, stream, cut, readerVars>>

WriteStatuses == {"none", "busy", "ok", "ctx", "long", "broken"}
ReadStatuses == {"none", "frame", "ctx", "magic", "broken"}

SocketInit ==
  /\ sent = <<>> /\ words = <<>> /\ ends = <<>>
  /\ wstatus = "none" /\ writing = <<>> /\ failed = FALSE
  /\ stream = <<>> /\ cut = FALSE
  /\ rpc = "start" /\ header = <<>> /\ got = <<>> /\ rstatus = "none"

\* The bytes of a frame: the length is the low half of len(body).
Encode(item) ==
  <<item.magic, item.code, Len(item.body) % (MaxWord + 1)>> \o item.body

Put(item) ==
  /\ sent' = Append(sent, item)
  /\ words' = words \o Encode(item) /\ ends' = Append(ends, Len(words'))

-----------------------------------------------------------------------------
(* WriteSocket.                                                            *)

CanWrite == wstatus \notin {"busy", "broken"} /\ Len(sent) < MaxFrames

\* The context is done: nothing is written.
WriteSkip ==
  /\ CanWrite /\ wstatus' = "ctx"
  /\ UNCHANGED <<history, writing, failed, stream, cut, readerVars>>

\* Fault: the length field is computed, but nothing is refused.
NeverTooLong(body) == FALSE

TooLong(body) == Len(body) > MaxWord

WriteRefused ==
  /\ CanWrite /\ \E body \in Bodies : TooLong(body)
  /\ wstatus' = "long"
  /\ UNCHANGED <<history, writing, failed, stream, cut, readerVars>>

\* The frame goes into bufWriter.
WriteFrame ==
  /\ CanWrite /\ ~failed
  /\ \E code \in Codes, body \in Bodies :
       LET frame == [magic |-> Magic, code |-> code, body |-> body]
       IN /\ ~TooLong(body)
          /\ Put(frame) /\ writing' = Encode(frame)
  /\ wstatus' = "busy"
  /\ UNCHANGED <<failed, stream, cut, readerVars>>

\* bufio hands the connection any part of it at a time; Flush returns when
\* nothing is left.  A connection that the peer has closed may still take it.
Flush ==
  /\ wstatus = "busy"
  /\ \E n \in 1 .. Len(writing) :
       /\ stream' = IF cut THEN stream ELSE stream \o SubSeq(writing, 1, n)
       /\ writing' = SubSeq(writing, n + 1, Len(writing))
  /\ wstatus' = IF writing' = <<>> THEN "ok" ELSE "busy"
  /\ UNCHANGED <<history, failed, cut, readerVars>>

\* Write or Flush fails: the connection is closed, or its write deadline has
\* passed.  The caller closes the connection.
FlushFails ==
  /\ wstatus = "busy"
  /\ failed' = TRUE /\ wstatus' = "broken"
  /\ UNCHANGED <<history, writing, stream, cut, readerVars>>

\* A peer that speaks another protocol: an empty frame with a foreign magic.
Foreign ==
  /\ CanWrite /\ ~failed /\ ~cut
  /\ \E magic \in Word \ {Magic}, code \in Codes :
       LET junk == [magic |-> magic, code |-> code, body |-> <<>>]
       IN Put(junk) /\ stream' = stream \o Encode(junk)
  /\ UNCHANGED <<wstatus, writing, failed, cut, readerVars>>

\* Either end closes the connection; what was in flight may be lost.
Cut ==
  /\ ~cut /\ cut' = TRUE
  /\ \E n \in 0 .. Len(stream) : stream' = SubSeq(stream, 1, n)
  /\ UNCHANGED <<writerVars, readerVars>>

-----------------------------------------------------------------------------
(* ReadSocket.                                                             *)

\* Fault: the context is looked at after the header.
ReadSkipLate ==
  /\ rpc = "start" /\ rstatus' = "ctx"
  /\ stream' = IF Len(stream) >= HeaderSize
                 THEN SubSeq(stream, HeaderSize + 1, Len(stream)) ELSE stream
  /\ UNCHANGED <<writerVars, cut, rpc, header, got>>

\* The context is done: the stream is left as it is.
ReadSkip ==
  /\ rpc = "start" /\ rstatus' = "ctx"
  /\ UNCHANGED <<writerVars, stream, cut, rpc, header, got>>

StartRead ==
  /\ rpc = "start" /\ rpc' = "header"
  /\ UNCHANGED <<writerVars, stream, cut, header, got, rstatus>>

\* Fault: ReadFull is asked for a word too many of the body.
WantedGreedy ==
  CASE rpc = "header" -> HeaderSize
    [] rpc = "body"   -> header[3] + 1
    [] OTHER          -> 0

\* The words that ReadFull is asked for.
Wanted ==
  CASE rpc = "header" -> HeaderSize
    [] rpc = "body"   -> header[3]
    [] OTHER          -> 0

Take == Len(stream) >= Wanted /\ stream' = SubSeq(stream, Wanted + 1, Len(stream))
Return(status, result) == rpc' = "start" /\ rstatus' = status /\ got' = Append(got, result)
Frame(h, body) == <<[magic |-> h[1], code |-> h[2], body |-> body]>>

\* ReadFull has a whole header.
ReadHeader ==
  /\ rpc = "header" /\ Take
  /\ header' = SubSeq(stream, 1, HeaderSize)
  /\ \/ header'[1] # Magic /\ Return("magic", <<>>)
     \/ header'[1] = Magic /\ header'[3] = 0 /\ Return("frame", Frame(header', <<>>))
     \/ /\ header'[1] = Magic /\ header'[3] # 0
        /\ rpc' = "body"
        /\ UNCHANGED <<got, rstatus>>
  /\ UNCHANGED <<writerVars, cut>>

\* ReadFull has the whole body.
ReadBody ==
  /\ rpc = "body" /\ Take
  /\ Return("frame", Frame(header, SubSeq(stream, 1, Wanted)))
  /\ UNCHANGED <<writerVars, cut, header>>

\* The stream ends before ReadFull has what it wants: EOF, a short read or a
\* reset, or the read deadline passes.
ReadBroken ==
  /\ Len(stream) < Wanted /\ (cut \/ Deadlines)
  /\ rpc' = "ended" /\ rstatus' = "broken" /\ stream' = <<>>
  /\ UNCHANGED <<writerVars, cut, header, got>>

SocketNext ==
  \/ WriteSkip \/ WriteRefused \/ WriteFrame \/ Flush \/ FlushFails \/ Foreign
  \/ Cut \/ ReadSkip \/ StartRead \/ ReadHeader \/ ReadBody \/ ReadBroken

SocketSpec == SocketInit /\ [][SocketNext]_socketVars
-----------------------------------------------------------------------------
\* Every variable holds a value of its Go type.
SocketTypeOK ==
  /\ sent \in Seq(Items) /\ Len(sent) <= MaxFrames
  /\ words \in Seq(Word) /\ ends \in Seq(Nat)
  /\ wstatus \in WriteStatuses /\ rstatus \in ReadStatuses
  /\ failed \in BOOLEAN /\ cut \in BOOLEAN
  /\ stream \in Seq(Word) /\ writing \in Seq(Word)
  /\ rpc \in {"start", "header", "body", "ended"}
  /\ header \in Seq(Word)
  /\ got \in Seq(Seq([magic : {Magic}, code : Codes, body : Bodies]))

\* ReadSocket returns the frames WriteSocket accepted, whole, in order and
\* without a gap, however the network cuts them up and wherever the connection
\* breaks, and steps over empty foreign frames (what serve's "continue" after
\* an error that is not broken relies on).
FramesIntact ==
  /\ SocketTypeOK /\ Len(got) <= Len(sent)
  /\ \A i \in 1 .. Len(got) :
       got[i] = IF sent[i].magic = Magic THEN <<sent[i]>> ELSE <<>>

\* The end of item i, the words the reader has taken, and those it has not, if
\* nothing is lost.
End(i) == IF i = 0 THEN 0 ELSE ends[i]
Consumed == End(Len(got)) + (IF rpc = "body" THEN HeaderSize ELSE 0)
Unread == SubSeq(words, Consumed + 1, Len(words))

\* An error that is not "broken" leaves both ends aligned on a frame boundary:
\* a refused or skipped write puts nothing on the stream, a skipped read takes
\* nothing off it.
Aligned ==
  rpc # "ended" =>
    IF cut \/ failed
      THEN Len(stream) <= Len(Unread) /\ stream = SubSeq(Unread, 1, Len(stream))
      ELSE stream \o writing = Unread

\* While the connection lives, a reader never waits for more than what is
\* there of a frame that was flushed: a request is not held back until the
\* next one pushes it through.
FlushedIsReadable ==
  ~cut /\ wstatus = "ok" /\ rpc # "ended" /\ Len(got) < Len(sent) =>
    Wanted <= Len(stream)
=============================================================================
