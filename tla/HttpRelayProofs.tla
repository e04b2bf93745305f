--------------------------- MODULE HttpRelayProofs ---------------------------
(***************************************************************************)
(* Theorems about HttpRelay, for any responses, any text the origin's URL  *)
(* is replaced by, any limit on bodies and any width of usize.             *)
(***************************************************************************)
EXTENDS HttpRelay, SequenceLemmas

-----------------------------------------------------------------------------
(* Tokens and what they are put together to.                               *)

\* What is, and what is known of, a token.
LEMMA TokenFacts ==
  /\ Units \subseteq Tokens /\ Scheme \in Units /\ Host \in Units
  /\ CRLF \in Tokens /\ Trailer \in Tokens
  /\ \A n \in Nat : Size(n) \in Tokens
  /\ \A f \in Header : Fields(f) \in Tokens
  /\ \A u \in Contents : Unit(u) \in Units
  /\ \A t \in Tokens : /\ t[1] = "size" => t[2] \in Nat
                       /\ t[1] = "fields" => t[2] \in Header
<1>1. \A u \in Contents : Unit(u) \in Units
  BY DEF Units, Unit
<1>2. Scheme \in Units /\ Host \in Units
  BY <1>1 DEF Scheme, Host, Contents
<1>3. Units \subseteq Tokens /\ CRLF \in Tokens /\ Trailer \in Tokens
  BY DEF Tokens
<1>4. (\A n \in Nat : Size(n) \in Tokens) /\ (\A f \in Header : Fields(f) \in Tokens)
  BY DEF Tokens, Size, Fields
<1>5. ASSUME NEW t \in Tokens
      PROVE  (t[1] = "size" => t[2] \in Nat) /\ (t[1] = "fields" => t[2] \in Header)
  BY DEF Tokens, Units, CRLF, Trailer
<1> QED BY <1>1, <1>2, <1>3, <1>4, <1>5

\* The fields that a response is sent with.
SentFields(m) ==
  [text |-> m.text, framing |-> m.framing, len |-> IF HasLength(m) THEN m.len ELSE 0]

\* The tokens of a response are in S if its parts are.
LEMMA EncodeType ==
  ASSUME NEW m \in Responses, NEW S, Units \subseteq S, CRLF \in S, Trailer \in S,
         \A n \in Nat : Size(n) \in S, Fields(SentFields(m)) \in S
  PROVE  Encode(m) \in Seq(S)
<1>1. m.chunks \in Seq(Seq(Units)) /\ m.chunks \in Seq(Seq(S))
  <2>1. m.chunks \in Seq(Seq(Units))
    BY DEF Responses
  <2>2. Seq(Units) \subseteq Seq(S)
    BY SeqMonotonic
  <2> QED BY <2>1, <2>2, SeqMonotonic
<1>2. Body(m) \in Seq(S)
  BY <1>1, FlattenSeqType DEF Body
<1>3. ASSUME NEW units \in Seq(S)
      PROVE  Chunk(units) \in Seq(S)
  <2>1. Len(units) \in Nat
    BY LenProperties
  <2>2. <<Size(Len(units))>> \in Seq(S) /\ <<CRLF>> \in Seq(S)
    BY <2>1, SingletonSeq
  <2> QED BY <2>2, ConcatProperties DEF Chunk
<1> DEFINE chunks == [i \in DOMAIN m.chunks |-> Chunk(m.chunks[i])]
           last == IF m.huge THEN <<Size(Usize - 1), Scheme, Host>>
                   ELSE <<Size(0)>> \o (IF m.trailer THEN <<Trailer>> ELSE <<>>) \o <<CRLF>>
           body == CASE m.bodiless -> <<>>
                     [] ~m.bodiless /\ Chunked(m) -> FlattenSeq(chunks) \o last
                     [] OTHER -> Body(m)
<1>4. FlattenSeq(chunks) \in Seq(S)
  <2>1. /\ DOMAIN m.chunks = 1..Len(m.chunks) /\ Len(m.chunks) \in Nat
        /\ \A i \in 1..Len(m.chunks) : m.chunks[i] \in Seq(S)
    BY <1>1, LenProperties, ElementOfSeq
  <2>2. chunks \in [1..Len(m.chunks) -> Seq(S)]
    BY <1>3, <2>1
  <2> QED BY <2>1, <2>2, FunctionIsSeq, FlattenSeqType, Zenon
<1>5. last \in Seq(S)
  <2>1. <<Size(Usize - 1), Scheme, Host>> \in Seq(S)
    <3>1. Usize - 1 \in Nat
      BY MaxBodyAssumption
    <3> QED BY <3>1, TokenFacts
  <2>2. <<Size(0)>> \in Seq(S) /\ <<CRLF>> \in Seq(S)
        /\ (IF m.trailer THEN <<Trailer>> ELSE <<>>) \in Seq(S)
    <3>1. <<Trailer>> \in Seq(S) /\ <<>> \in Seq(S)
      BY SingletonSeq, EmptySeq
    <3>2. <<Size(0)>> \in Seq(S) /\ <<CRLF>> \in Seq(S)
      BY SingletonSeq
    <3> QED BY <3>1, <3>2
  <2>3. <<Size(0)>> \o (IF m.trailer THEN <<Trailer>> ELSE <<>>) \o <<CRLF>> \in Seq(S)
    BY <2>2, ConcatProperties
  <2> QED BY <2>1, <2>3
<1> HIDE DEF chunks, last
<1>6. body \in Seq(S)
  <2>1. FlattenSeq(chunks) \o last \in Seq(S) /\ <<>> \in Seq(S)
    BY <1>4, <1>5, ConcatProperties, EmptySeq
  <2> QED BY <1>2, <2>1, Zenon
<1>7. <<Fields(SentFields(m)), CRLF>> \in Seq(S)
  OBVIOUS
<1>8. Encode(m) = <<Fields(SentFields(m)), CRLF>> \o body
  BY Zenon DEF Encode, SentFields, chunks, last
<1> HIDE DEF body
<1> QED BY <1>6, <1>7, <1>8, ConcatProperties

\* The fields of a response are those of a header.
LEMMA SentFieldsType ==
  ASSUME NEW m \in Responses
  PROVE  SentFields(m) \in Header /\ SentFields(m).text = m.text
<1>1. m.text \in BOOLEAN /\ m.framing \in Framings /\ m.len \in Nat
  BY DEF Responses
<1>2. (IF HasLength(m) THEN m.len ELSE 0) \in Nat
  BY <1>1
<1> QED BY <1>1, <1>2 DEF SentFields, Header

\* The tokens of a connection are in S if those of each response are.
LEMMA StreamType ==
  ASSUME NEW s \in Seq(Responses), NEW S, \A i \in DOMAIN s : Encode(s[i]) \in Seq(S)
  PROVE  Stream(s) \in Seq(S)
<1>1. DOMAIN s = 1..Len(s) /\ Len(s) \in Nat
  BY LenProperties
<1>2. [i \in DOMAIN s |-> Encode(s[i])] \in [1..Len(s) -> Seq(S)]
  BY <1>1
<1> QED BY <1>1, <1>2, FunctionIsSeq, FlattenSeqType, Zenon DEF Stream

\* What the origin puts on the wire is made of tokens.
LEMMA WireTokens ==
  ASSUME NEW s \in Scripts
  PROVE  Stream(s) \in Seq(Tokens)
<1>1. s \in Seq(Responses) /\ DOMAIN s = 1..Len(s)
  BY ScriptsAssumption, LenProperties
<1>2. ASSUME NEW i \in DOMAIN s
      PROVE  Encode(s[i]) \in Seq(Tokens)
  <2>1. s[i] \in Responses
    BY <1>1, ElementOfSeq
  <2>2. Fields(SentFields(s[i])) \in Tokens
    BY <2>1, SentFieldsType, TokenFacts
  <2> QED BY <2>1, <2>2, EncodeType, TokenFacts
<1> QED BY <1>1, <1>2, StreamType

\* Header fields are known, or nothing is (lines 212-229).
LEMMA ParsedType ==
  ASSUME NEW lines \in Seq(Tokens)
  PROVE  Parsed(lines) \in Header
<1> DEFINE known == {i \in DOMAIN lines : lines[i][1] = "fields"}
<1>1. DOMAIN lines = 1..Len(lines) /\ Len(lines) \in Nat
  BY LenProperties
<1>2. CASE known = {}
  <2>1. [text |-> FALSE, framing |-> "close", len |-> 0] \in Header
    BY DEF Header, Framings
  <2>2. Parsed(lines) = [text |-> FALSE, framing |-> "close", len |-> 0]
    BY <1>2, Zenon DEF Parsed
  <2> QED BY <2>1, <2>2
<1>3. CASE known # {}
  <2>1. known \in SUBSET Nat
    BY <1>1
  <2>2. Min(known) \in known
    BY <1>3, <2>1, MinInSet, Zenon
  <2>3. Parsed(lines) = lines[Min(known)][2]
    BY <1>3, Zenon DEF Parsed
  <2>4. lines[Min(known)] \in Tokens /\ lines[Min(known)][1] = "fields"
    BY <1>1, <2>2, ElementOfSeq
  <2> QED BY <2>3, <2>4, TokenFacts
<1> QED BY <1>2, <1>3

\* Replacing URLs in a body of tokens or of units makes one again (lines
\* 361-364).
LEMMA RewriteType ==
  ASSUME NEW S, Units \subseteq S, NEW b \in Seq(S)
  PROVE  Rewrite(b) \in Seq(S)
<1> DEFINE part(i) == CASE UrlAt(b, i)            -> ProxyUrl
                        [] UrlAt(b, i - 1)        -> <<>>
                        [] b[i] = Unit("badbyte") -> [j \in 1..3 |-> Unit("replacement")]
                        [] OTHER                  -> <<b[i]>>
<1>1. DOMAIN b = 1..Len(b) /\ Len(b) \in Nat
  BY LenProperties
<1>2. ProxyUrl \in Seq(S) /\ <<>> \in Seq(S)
  BY ProxyUrlAssumption, TokenFacts, SeqMonotonic, EmptySeq
<1>3. [j \in 1..3 |-> Unit("replacement")] \in Seq(S)
  <2>1. Unit("replacement") \in S
    BY TokenFacts DEF Contents
  <2>2. [j \in 1..3 |-> Unit("replacement")] \in [1..3 -> S]
    BY <2>1
  <2> QED BY <2>2, FunctionIsSeq
<1>4. ASSUME NEW i \in DOMAIN b
      PROVE  part(i) \in Seq(S)
  <2>1. <<b[i]>> \in Seq(S)
    BY <1>1, ElementOfSeq, SingletonSeq
  <2> QED BY <1>2, <1>3, <2>1, Zenon
<1>5. Rewrite(b) = FlattenSeq([i \in DOMAIN b |-> part(i)])
  BY Zenon DEF Rewrite
<1> HIDE DEF part
<1>6. [i \in DOMAIN b |-> part(i)] \in [1..Len(b) -> Seq(S)]
  BY <1>1, <1>4
<1> QED BY <1>1, <1>5, <1>6, FunctionIsSeq, FlattenSeqType, Zenon

\* update_content_length changes the value of a header field, and no more
\* (lines 501-515).
LEMMA UpdateContentLengthType ==
  ASSUME NEW lines \in Seq(Tokens), NEW n \in Nat
  PROVE  UpdateContentLength(lines, n) \in Seq(Tokens)
<1>1. DOMAIN lines = 1..Len(lines) /\ Len(lines) \in Nat
  BY LenProperties
<1>2. ASSUME NEW i \in DOMAIN lines, lines[i][1] = "fields"
      PROVE  Fields([lines[i][2] EXCEPT !.len = n]) \in Tokens
  <2>1. lines[i][2] \in Header
    BY <1>1, <1>2, ElementOfSeq, TokenFacts
  <2>2. [lines[i][2] EXCEPT !.len = n] \in Header
    BY <2>1 DEF Header
  <2> QED BY <2>2, TokenFacts
<1>3. UpdateContentLength(lines, n) \in [1..Len(lines) -> Tokens]
  BY <1>1, <1>2, ElementOfSeq DEF UpdateContentLength
<1> QED BY <1>1, <1>3, FunctionIsSeq

\* write_chunked_body frames a body in tokens (lines 486-499).
LEMMA WriteChunkedBodyType ==
  ASSUME NEW b \in Seq(Tokens)
  PROVE  WriteChunkedBody(b) \in Seq(Tokens)
<1>1. <<Size(Len(b))>> \in Seq(Tokens) /\ <<CRLF>> \in Seq(Tokens)
  BY LenProperties, TokenFacts, SingletonSeq
<1>2. <<Size(0), CRLF>> \in Seq(Tokens)
  BY TokenFacts
<1>3. Chunk(b) \in Seq(Tokens)
  BY <1>1, ConcatProperties DEF Chunk
<1> QED BY <1>2, <1>3, ConcatProperties DEF WriteChunkedBody

-----------------------------------------------------------------------------
(* The inductive invariant.                                                *)

Phases ==
  {"headers", "stream", "fixed", "size", "chunk", "crlf", "trailer",
   "body", "emit", "done", "failed"}

\* What BufferBounded needs to be kept: a body or chunk that is being read has
\* units left, and nothing is set aside where nothing is collected, so that a
\* body starts with an empty buffer (lines 353 and 443).
Collecting ==
  /\ phase \in {"fixed", "body", "chunk"} => left # 0
  /\ phase \in {"headers", "stream", "fixed"} => buf = <<>>
  /\ phase \in {"size", "chunk", "crlf", "trailer"} /\ ~Rewriting => buf = <<>>

IInv == TypeOK /\ BufferBounded /\ Collecting

\* What can be read: lines and units of the part of the wire that has come.
LEMMA Reading ==
  ASSUME TypeOK
  PROVE  /\ wire \in Seq(Tokens) /\ Len(wire) \in Nat
         /\ sent \in 0..Len(wire) /\ pos \in 0..sent
         /\ \A k \in pos..sent :
              /\ k \in 0..sent /\ Line(k) \in Seq(Tokens)
              /\ Line(k) # <<>> => Line(k)[1] \in Tokens
         /\ Available => pos + 1 \in 0..sent /\ Next1 \in Tokens
<1>1. /\ wire \in Seq(Tokens) /\ Len(wire) \in Nat
      /\ sent \in 0..Len(wire) /\ pos \in 0..sent
  BY WireTokens, LenProperties DEF TypeOK
<1>2. ASSUME NEW k \in pos..sent
      PROVE  /\ k \in 0..sent /\ Line(k) \in Seq(Tokens)
             /\ Line(k) # <<>> => Line(k)[1] \in Tokens
  <2>1. k \in 0..sent /\ pos \in 0..Len(wire) /\ k \in pos..Len(wire)
    BY <1>1
  <2>2. Line(k) \in Seq(Tokens)
    BY <1>1, <2>1, ReadOn DEF Line
  <2>3. Line(k) # <<>> => 1 \in 1..Len(Line(k))
    BY <2>2, EmptySeq
  <2> QED BY <2>1, <2>2, <2>3, ElementOfSeq
<1>3. ASSUME Available
      PROVE  pos + 1 \in 0..sent /\ Next1 \in Tokens
  <2>1. pos \in 0..Len(wire) /\ pos < Len(wire) /\ pos + 1 \in 0..sent
    BY <1>1, <1>3 DEF Available
  <2> QED BY <1>1, <2>1, ReadOne DEF Next1
<1> QED BY <1>1, <1>2, <1>3

\* A step of the relay keeps the types if it keeps those of its own variables.
LEMMA TypeKept ==
  ASSUME TypeOK, UNCHANGED envVars, phase' \in Phases, pos' \in 0..sent, left' \in Nat,
         head' \in Seq(Tokens), buf' \in Seq(Tokens), out' \in Seq(Tokens)
  PROVE  TypeOK'
BY DEF TypeOK, envVars, Phases

\* What is written is a sequence of tokens, and a write leads to the next phase
\* or, when the client is gone, to the end (lines 321-323).
LEMMA WriteType ==
  ASSUME TypeOK, NEW tokens \in Seq(Tokens), NEW next, Write(tokens, next)
  PROVE  out' \in Seq(Tokens) /\ phase' \in {next, "failed"}
<1>1. out \in Seq(Tokens)
  BY DEF TypeOK
<1>2. out \o tokens \in Seq(Tokens)
  BY <1>1, ConcatProperties
<1> QED BY <1>1, <1>2, Zenon DEF Write

\* The same of what is passed through or kept back (lines 391-436).
LEMMA PassType ==
  ASSUME TypeOK, NEW tokens \in Seq(Tokens), NEW next, Pass(tokens, next)
  PROVE  out' \in Seq(Tokens) /\ phase' \in {next, "failed"}
<1>1. CASE ~Rewriting /\ Write(tokens, next)
  BY <1>1, WriteType
<1>2. CASE Rewriting /\ phase' = next /\ UNCHANGED out
  BY <1>2 DEF TypeOK
<1> QED BY <1>1, <1>2 DEF Pass

\* A buffer that is empty is within every limit.
LEMMA EmptyBuffer ==
  ASSUME buf' = <<>>, left' \in Nat, phase' \in {"fixed", "body", "chunk"} => left' # 0,
         phase' = "body" \/ (phase' = "chunk" /\ head' # <<>>) => left' <= MaxBody
  PROVE  BufferBounded' /\ Collecting'
<1>1. Len(buf') = 0
  BY EmptySeq, Zenon
<1>2. 0 <= MaxBody /\ \A n \in Nat : 0 + n = n
  BY MaxBodyAssumption
<1>3. BufferBounded'
  BY <1>1, <1>2, Zenon DEF BufferBounded, Rewriting
<1>4. Collecting'
  BY Zenon DEF Collecting
<1> QED BY <1>3, <1>4

-----------------------------------------------------------------------------
(* Every step of the relay keeps the inductive invariant.                  *)

\* How a body is treated is decided so that a body to be rewritten is within the
\* limit, and a body to be read is not empty (lines 274-359).
LEMMA EndOfHeadersResult ==
  ASSUME TypeOK, EndOfHeaders
  PROVE  /\ head' \in Seq(Tokens) /\ out' \in Seq(Tokens) /\ left' \in Nat
         /\ phase' \in {"stream", "size", "headers", "emit", "fixed", "body", "failed"}
         /\ phase' \in {"fixed", "body"} => left' # 0
         /\ phase' = "body" => left' <= MaxBody
<1> DEFINE f == Parsed(head)
           pass == f.framing = "close" \/ ~f.text \/ TooLarge(f)
           next == CASE f.framing = "close" -> "stream"
                     [] Chunked(f)          -> "size"
                     [] f.framing = "length" /\ f.len = 0 -> IF pass THEN "headers" ELSE "emit"
                     [] OTHER -> IF pass THEN "fixed" ELSE "body"
<1>1. /\ left' = IF f.framing = "length" THEN f.len ELSE 0
      /\ \/ pass /\ head' = <<>> /\ Write(head \o <<CRLF>>, next)
         \/ ~pass /\ phase' = next /\ UNCHANGED <<head, out>>
  BY Zenon DEF EndOfHeaders
<1>2. f \in Header
  BY ParsedType DEF TypeOK
<1>3. f.framing \in Framings /\ f.len \in Nat
  BY <1>2 DEF Header
<1> HIDE DEF f
<1>4. next \in {"stream", "size", "headers", "emit", "fixed", "body"}
  BY Zenon
<1>5. next \in {"fixed", "body"} =>
        f.framing # "close" /\ ~Chunked(f) /\ (f.framing = "length" => f.len # 0)
  BY Zenon
<1>6. next = "body" => ~pass
  BY Zenon
<1> HIDE DEF next, pass
<1>7. next \in {"fixed", "body"} => f.framing = "length" /\ left' # 0
  BY <1>1, <1>3, <1>5 DEF Framings, Chunked
<1>8. next = "body" => ~TooLarge(f)
  BY <1>6, Zenon DEF pass
<1>9. next = "body" => left' <= MaxBody
  <2>1. HasLength(f) /\ ~TooLarge(f) => f.len <= MaxBody
    BY <1>3, MaxBodyAssumption DEF TooLarge
  <2> QED BY <1>1, <1>7, <1>8, <2>1 DEF HasLength
<1>10. head' \in Seq(Tokens) /\ out' \in Seq(Tokens) /\ phase' \in {next, "failed"}
  <2>1. head \in Seq(Tokens) /\ out \in Seq(Tokens) /\ <<>> \in Seq(Tokens)
    BY EmptySeq DEF TypeOK
  <2>2. head \o <<CRLF>> \in Seq(Tokens)
    BY <2>1, TokenFacts, SingletonSeq, ConcatProperties
  <2>3. Write(head \o <<CRLF>>, next) => out' \in Seq(Tokens) /\ phase' \in {next, "failed"}
    BY <2>2, WriteType, Zenon
  <2> QED BY <1>1, <2>1, <2>3, Zenon
<1>11. left' \in Nat
  BY <1>1, <1>3
<1> QED BY <1>4, <1>7, <1>9, <1>10, <1>11

\* A header line, the empty line or the end of the stream (lines 241-283).
LEMMA ReadHeaderLineKeeps ==
  ASSUME IInv, ReadHeaderLine
  PROVE  IInv'
<1>1. /\ TypeOK /\ phase = "headers" /\ buf = <<>>
      /\ UNCHANGED <<envVars, buf>>
  BY DEF IInv, Collecting, ReadHeaderLine
<1>2. /\ left \in Nat /\ head \in Seq(Tokens) /\ out \in Seq(Tokens) /\ buf' \in Seq(Tokens)
      /\ buf' = <<>>
  BY <1>1, EmptySeq DEF TypeOK
<1>3. PICK k \in pos..sent :
        /\ pos' = k
        /\ \/ Line(k) = <<>> /\ phase' = "done" /\ UNCHANGED <<head, left, out>>
           \/ Line(k) = <<CRLF>> /\ EndOfHeaders
           \/ /\ head' = head \o Line(k)
              /\ UNCHANGED <<phase, left, out>>
  BY DEF ReadHeaderLine
<1>4. pos' \in 0..sent /\ head \o Line(k) \in Seq(Tokens)
  BY <1>1, <1>2, <1>3, Reading, ConcatProperties
<1>5. /\ phase' \in Phases /\ left' \in Nat /\ head' \in Seq(Tokens) /\ out' \in Seq(Tokens)
      /\ phase' \in {"fixed", "body"} => left' # 0
      /\ phase' = "body" => left' <= MaxBody
      /\ phase' \notin {"chunk"}
  <2>1. CASE phase' = "done" /\ UNCHANGED <<head, left, out>>
    BY <1>2, <2>1 DEF Phases
  <2>2. CASE EndOfHeaders
    BY <1>1, <2>2, EndOfHeadersResult DEF Phases
  <2>3. CASE head' = head \o Line(k) /\ UNCHANGED <<phase, left, out>>
    BY <1>1, <1>2, <1>4, <2>3 DEF Phases
  <2> QED BY <1>3, <2>1, <2>2, <2>3
<1>6. TypeOK'
  BY <1>1, <1>2, <1>4, <1>5, TypeKept
<1>7. BufferBounded' /\ Collecting'
  BY <1>2, <1>5, EmptyBuffer
<1> QED BY <1>6, <1>7 DEF IInv

\* io::copy, until the origin closes (lines 302-312).
LEMMA CopyStreamKeeps ==
  ASSUME IInv, CopyStream
  PROVE  IInv'
<1>1. /\ TypeOK /\ buf = <<>>
      /\ UNCHANGED <<envVars, head, left, buf>>
  BY DEF IInv, Collecting, CopyStream
<1>2. /\ left' \in Nat /\ head' \in Seq(Tokens) /\ out \in Seq(Tokens) /\ buf' \in Seq(Tokens)
      /\ buf' = <<>> /\ pos \in 0..sent
  BY <1>1, EmptySeq DEF TypeOK
<1>3. pos' \in 0..sent /\ out' \in Seq(Tokens) /\ phase' \in {"stream", "done", "failed"}
  <2>1. CASE Available /\ pos' = pos + 1 /\ Write(<<Next1>>, "stream")
    <3>1. pos + 1 \in 0..sent /\ <<Next1>> \in Seq(Tokens)
      BY <1>1, <2>1, Reading, SingletonSeq
    <3> QED BY <1>1, <2>1, <3>1, WriteType, Zenon
  <2>2. CASE Eof /\ phase' = "done" /\ UNCHANGED <<pos, out>>
    BY <1>2, <2>2
  <2> QED BY <2>1, <2>2 DEF CopyStream
<1>4. TypeOK'
  BY <1>1, <1>2, <1>3, TypeKept DEF Phases
<1>5. BufferBounded' /\ Collecting'
  BY <1>2, <1>3, EmptyBuffer
<1> QED BY <1>4, <1>5 DEF IInv

\* A unit of a body or chunk was read: one fewer is left, none after the last.
LEMMA CountedResult ==
  ASSUME TypeOK, left # 0, left' = left - 1, NEW next
  PROVE  /\ left' \in Nat
         /\ Counted(next) \in {next, phase}
         /\ Counted(next) # next => left' # 0
<1>1. left \in Nat
  BY DEF TypeOK
<1> QED BY <1>1 DEF Counted

\* A unit moves from what is left to the buffer.
LEMMA Collected ==
  ASSUME NEW b \in Seq(Tokens), NEW t \in Tokens, NEW n \in Nat, n # 0,
         Len(b) + n <= MaxBody
  PROVE  /\ Append(b, t) \in Seq(Tokens)
         /\ Len(Append(b, t)) <= MaxBody
         /\ Len(Append(b, t)) + (n - 1) <= MaxBody
<1>1. Len(b) \in Nat
  BY LenProperties
<1>2. Append(b, t) \in Seq(Tokens) /\ Len(Append(b, t)) = Len(b) + 1
  BY AppendProperties
<1> QED BY <1>1, <1>2, MaxBodyAssumption

\* A body of known length that is passed through (lines 328-347).
LEMMA CopyFixedKeeps ==
  ASSUME IInv, CopyFixed
  PROVE  IInv'
<1>1. /\ TypeOK /\ phase = "fixed" /\ buf = <<>> /\ left # 0
      /\ UNCHANGED <<envVars, head, buf>>
  BY DEF IInv, Collecting, CopyFixed
<1>2. /\ left \in Nat /\ head' \in Seq(Tokens) /\ out \in Seq(Tokens) /\ buf' \in Seq(Tokens)
      /\ buf' = <<>> /\ pos \in 0..sent
  BY <1>1, EmptySeq DEF TypeOK
<1>3. /\ pos' \in 0..sent /\ left' \in Nat /\ out' \in Seq(Tokens)
      /\ phase' \in {"headers", "fixed", "failed"}
      /\ phase' = "fixed" => left' # 0
  <2>1. CASE /\ Available
             /\ pos' = pos + 1
             /\ left' = left - 1
             /\ Write(<<Next1>>, Counted("headers"))
    <3>1. pos + 1 \in 0..sent /\ <<Next1>> \in Seq(Tokens)
      BY <1>1, <2>1, Reading, SingletonSeq
    <3>2. out' \in Seq(Tokens) /\ phase' \in {Counted("headers"), "failed"}
      BY <1>1, <2>1, <3>1, WriteType, Zenon
    <3>3. /\ left' \in Nat /\ Counted("headers") \in {"headers", "fixed"}
          /\ Counted("headers") # "headers" => left' # 0
      BY <1>1, <2>1, CountedResult
    <3> QED BY <2>1, <3>1, <3>2, <3>3
  <2>2. CASE Eof /\ phase' = "headers" /\ UNCHANGED <<pos, left, out>>
    BY <1>2, <2>2
  <2> QED BY <2>1, <2>2 DEF CopyFixed
<1>4. TypeOK'
  BY <1>1, <1>2, <1>3, TypeKept DEF Phases
<1>5. BufferBounded' /\ Collecting'
  BY <1>2, <1>3, EmptyBuffer
<1> QED BY <1>4, <1>5 DEF IInv

\* read_exact of a text body of known length (lines 352-355).
LEMMA ReadBodyKeeps ==
  ASSUME IInv, ReadBody
  PROVE  IInv'
<1>1. /\ TypeOK /\ phase = "body" /\ left # 0 /\ Len(buf) <= MaxBody
      /\ Len(buf) + left <= MaxBody
      /\ UNCHANGED <<envVars, head, out>>
  BY DEF IInv, Collecting, BufferBounded, ReadBody
<1>2. /\ left \in Nat /\ head' \in Seq(Tokens) /\ out' \in Seq(Tokens) /\ buf \in Seq(Tokens)
      /\ pos \in 0..sent
  BY <1>1 DEF TypeOK
<1>3. /\ pos' \in 0..sent /\ left' \in Nat /\ buf' \in Seq(Tokens)
      /\ phase' \in {"emit", "body", "failed"}
      /\ Len(buf') <= MaxBody
      /\ phase' = "body" => left' # 0 /\ Len(buf') + left' <= MaxBody
  <2>1. CASE /\ Available
             /\ pos' = pos + 1
             /\ left' = left - 1
             /\ buf' = Append(buf, Next1)
             /\ phase' = Counted("emit")
    <3>1. pos + 1 \in 0..sent /\ Next1 \in Tokens
      BY <1>1, <2>1, Reading
    <3>2. /\ left' \in Nat /\ phase' \in {"emit", "body"}
          /\ phase' # "emit" => left' # 0
      BY <1>1, <2>1, CountedResult
    <3>3. /\ buf' \in Seq(Tokens) /\ Len(buf') <= MaxBody
          /\ Len(buf') + left' <= MaxBody
      BY <1>1, <1>2, <2>1, <3>1, Collected, Zenon
    <3> QED BY <2>1, <3>1, <3>2, <3>3
  <2>2. CASE UnexpectedEof /\ UNCHANGED <<pos, left, buf>>
    BY <1>1, <1>2, <2>2 DEF UnexpectedEof
  <2> QED BY <2>1, <2>2 DEF ReadBody
<1>4. TypeOK'
  BY <1>1, <1>2, <1>3, TypeKept DEF Phases
<1>5. BufferBounded'
  <2>1. phase' # "chunk"
    BY <1>3
  <2> QED BY <1>3, <2>1, Zenon DEF BufferBounded
<1>6. Collecting'
  <2>1. phase' \notin {"fixed", "chunk", "headers", "stream", "size", "crlf", "trailer"}
    BY <1>3
  <2> QED BY <1>3, <2>1, Zenon DEF Collecting
<1> QED BY <1>4, <1>5, <1>6 DEF IInv

\* What is written once a body is complete is made of tokens.
LEMMA EmittedType ==
  ASSUME NEW h \in Seq(Tokens), NEW b \in Seq(Tokens)
  PROVE  LET body == Rewrite(b)
             lines == IF Len(body) = Len(b) THEN h ELSE UpdateContentLength(h, Len(body))
         IN lines \o <<CRLF>> \o (IF Chunked(Parsed(h)) THEN WriteChunkedBody(body) ELSE body)
              \in Seq(Tokens)
<1> DEFINE body == Rewrite(b)
           lines == IF Len(body) = Len(b) THEN h ELSE UpdateContentLength(h, Len(body))
           framed == IF Chunked(Parsed(h)) THEN WriteChunkedBody(body) ELSE body
<1>1. body \in Seq(Tokens) /\ Len(body) \in Nat
  BY RewriteType, TokenFacts, LenProperties
<1> HIDE DEF body
<1>2. lines \in Seq(Tokens)
  BY <1>1, UpdateContentLengthType, Zenon
<1>3. framed \in Seq(Tokens)
  BY <1>1, WriteChunkedBodyType, Zenon
<1> HIDE DEF lines, framed
<1>4. <<CRLF>> \in Seq(Tokens)
  BY TokenFacts, SingletonSeq
<1>5. lines \o <<CRLF>> \in Seq(Tokens)
  BY <1>2, <1>4, ConcatProperties
<1>6. lines \o <<CRLF>> \o framed \in Seq(Tokens)
  BY <1>3, <1>5, ConcatProperties
<1> QED BY <1>6, Zenon DEF lines, framed, body

\* The headers and the rewritten body go out, and both buffers are cleared
\* (lines 374-388).
LEMMA EmitKeeps ==
  ASSUME IInv, Emit
  PROVE  IInv'
<1> DEFINE body == Rewrite(buf)
           lines == IF Len(body) = Len(buf) THEN head ELSE UpdateContentLength(head, Len(body))
           emitted == lines \o <<CRLF>>
                        \o (IF Chunked(Parsed(head)) THEN WriteChunkedBody(body) ELSE body)
<1>1. TypeOK
  BY DEF IInv
<1>2. emitted \in Seq(Tokens)
  BY <1>1, EmittedType, Zenon DEF TypeOK
<1>3. /\ Write(emitted, "headers") /\ head' = <<>> /\ buf' = <<>>
      /\ UNCHANGED <<envVars, pos, left>>
  BY Zenon DEF Emit
<1> HIDE DEF emitted
<1>4. out' \in Seq(Tokens) /\ phase' \in {"headers", "failed"}
  BY <1>1, <1>2, <1>3, WriteType
<1>5. /\ head' \in Seq(Tokens) /\ buf' \in Seq(Tokens) /\ left' \in Nat
      /\ pos' \in 0..sent /\ UNCHANGED envVars
  BY <1>1, <1>3, EmptySeq DEF TypeOK
<1>6. TypeOK'
  BY <1>1, <1>4, <1>5, TypeKept DEF Phases
<1>7. BufferBounded' /\ Collecting'
  BY <1>3, <1>4, <1>5, EmptyBuffer
<1> QED BY <1>6, <1>7 DEF IInv

\* A chunk that is collected fits in what is left of the limit: the sum that the
\* code compares with it cannot wrap, since the buffer and the chunk are each
\* less than half of usize (lines 463 and 474).
LEMMA AfterSizeResult ==
  ASSUME NEW line, line[1] \in Tokens, buf \in Seq(Tokens), Len(buf) <= MaxBody,
         AfterSize(line) = "chunk"
  PROVE  /\ line[1][2] \in Nat /\ line[1][2] # 0
         /\ head # <<>> => Len(buf) + line[1][2] <= MaxBody
<1> DEFINE n == line[1][2]
<1>1. line[1][1] = "size" /\ n # 0
  BY Zenon DEF AfterSize
<1>2. n \in Nat /\ Len(buf) \in Nat
  BY <1>1, TokenFacts, LenProperties
<1>3. head # <<>> => ~((Len(buf) + n) % Usize > MaxBody) /\ ~Unallocated(n)
  BY Zenon DEF AfterSize, Rewriting
<1> DEFINE l == Len(buf)
<1>4. Unallocated(n) \/ l + n < Usize
  <2>1. l \in Nat /\ n \in Nat /\ l <= MaxBody
    BY <1>2
  <2> HIDE DEF l, n
  <2> QED BY <2>1, MaxBodyAssumption DEF Unallocated
<1>5. \A k \in Nat : k < Usize => k % Usize = k
  BY MaxBodyAssumption
<1>6. ~((l + n) % Usize > MaxBody) /\ l + n < Usize => l + n <= MaxBody
  <2>1. l \in Nat /\ n \in Nat /\ l + n \in Nat
    BY <1>2
  <2> HIDE DEF l, n
  <2>2. l + n < Usize => (l + n) % Usize = l + n
    BY <1>5, <2>1
  <2> QED BY <2>1, <2>2, MaxBodyAssumption
<1> QED BY <1>1, <1>2, <1>3, <1>4, <1>6

ChunkPhases == {"size", "chunk", "crlf", "trailer", "emit", "headers", "failed"}

\* What a step within a chunked body has to see to.
LEMMA ChunkedKeeps ==
  ASSUME Len(buf') <= MaxBody, head' = <<>> => buf' = <<>>, phase' \in ChunkPhases,
         phase' = "headers" => head' = <<>>,
         phase' = "chunk" => left' # 0 /\ (head' # <<>> => Len(buf') + left' <= MaxBody)
  PROVE  BufferBounded' /\ Collecting'
<1>1. phase' \notin {"body", "fixed", "stream"}
  BY DEF ChunkPhases
<1>2. BufferBounded'
  BY <1>1, Zenon DEF BufferBounded, Rewriting
<1>3. Collecting'
  BY <1>1, Zenon DEF Collecting, Rewriting
<1> QED BY <1>2, <1>3

\* Where a chunked body ends, what is done with it is what was decided.
LEMMA BodyEndResult ==
  BodyEnd \in {"emit", "headers"} /\ (BodyEnd = "headers" => head = <<>>)
BY DEF BodyEnd, Rewriting

\* Within a chunked body the buffer is empty unless the body is rewritten.
LEMMA ChunkedHolds ==
  ASSUME IInv, phase \in {"size", "chunk", "crlf", "trailer"}
  PROVE  /\ TypeOK /\ Len(buf) <= MaxBody
         /\ head = <<>> => buf = <<>>
         /\ left \in Nat /\ head \in Seq(Tokens) /\ buf \in Seq(Tokens) /\ out \in Seq(Tokens)
         /\ pos \in 0..sent
<1>1. TypeOK /\ BufferBounded /\ Collecting
  BY DEF IInv
<1>2. Len(buf) <= MaxBody
  BY <1>1, Zenon DEF BufferBounded
<1>3. head = <<>> => buf = <<>>
  BY <1>1, Zenon DEF Collecting, Rewriting
<1> QED BY <1>1, <1>2, <1>3 DEF TypeOK

\* A chunk size, or what comes where one should (lines 399-408 and 447-471).
LEMMA ReadSizeKeeps ==
  ASSUME IInv, ReadSize
  PROVE  IInv'
<1>1. phase = "size" /\ UNCHANGED <<envVars, head, buf>>
  BY DEF ReadSize
<1>2. /\ TypeOK /\ Len(buf) <= MaxBody /\ (head = <<>> => buf = <<>>)
      /\ head \in Seq(Tokens) /\ buf \in Seq(Tokens)
      /\ left \in Nat /\ out \in Seq(Tokens)
  BY <1>1, ChunkedHolds
<1>3. PICK k \in pos..sent :
        /\ pos' = k
        /\ \/ Line(k) = <<>> /\ phase' = BodyEnd /\ UNCHANGED <<left, out>>
           \/ /\ Line(k) # <<>>
              /\ Pass(Line(k), AfterSize(Line(k)))
              /\ left' = IF AfterSize(Line(k)) = "chunk" THEN Line(k)[1][2] ELSE 0
  BY DEF ReadSize
<1>4. /\ pos' \in 0..sent /\ Line(k) \in Seq(Tokens)
      /\ Line(k) # <<>> => Line(k)[1] \in Tokens
  BY <1>2, <1>3, Reading
<1>5. /\ left' \in Nat /\ out' \in Seq(Tokens) /\ phase' \in ChunkPhases
      /\ phase' = "headers" => head = <<>>
      /\ phase' = "chunk" => left' # 0 /\ (head # <<>> => Len(buf) + left' <= MaxBody)
  <2>1. CASE Line(k) = <<>> /\ phase' = BodyEnd /\ UNCHANGED <<left, out>>
    BY <1>2, <2>1, BodyEndResult DEF ChunkPhases
  <2>2. CASE /\ Line(k) # <<>>
             /\ Pass(Line(k), AfterSize(Line(k)))
             /\ left' = IF AfterSize(Line(k)) = "chunk" THEN Line(k)[1][2] ELSE 0
    <3> DEFINE next == AfterSize(Line(k))
    <3>1. out' \in Seq(Tokens) /\ phase' \in {next, "failed"}
      BY <1>2, <1>4, <2>2, PassType, Zenon
    <3>2. next \in {"failed", "trailer", "chunk"}
      BY Zenon DEF AfterSize
    <3>3. next = "chunk" =>
            /\ Line(k)[1][2] \in Nat /\ Line(k)[1][2] # 0
            /\ head # <<>> => Len(buf) + Line(k)[1][2] <= MaxBody
      BY <1>2, <1>4, <2>2, AfterSizeResult, Zenon
    <3> HIDE DEF next
    <3>4. next = "chunk" => left' = Line(k)[1][2]
      BY <2>2, Zenon DEF next
    <3>5. next # "chunk" => left' = 0
      BY <2>2, Zenon DEF next
    <3> QED BY <3>1, <3>2, <3>3, <3>4, <3>5 DEF ChunkPhases
  <2> QED BY <1>3, <2>1, <2>2
<1>6. TypeOK'
  <2>1. phase' \in Phases /\ head' \in Seq(Tokens) /\ buf' \in Seq(Tokens)
    BY <1>1, <1>2, <1>5 DEF ChunkPhases, Phases
  <2> QED BY <1>1, <1>2, <1>4, <1>5, <2>1, TypeKept
<1>7. BufferBounded' /\ Collecting'
  <2>1. head' = head /\ buf' = buf
    BY <1>1
  <2> QED BY <1>2, <1>5, <2>1, ChunkedKeeps, Zenon
<1> QED BY <1>6, <1>7 DEF IInv

\* A unit of a chunk (lines 416-427 and 473-476).
LEMMA ReadChunkKeeps ==
  ASSUME IInv, ReadChunk
  PROVE  IInv'
<1>1. /\ phase = "chunk" /\ UNCHANGED <<envVars, head>>
      /\ left # 0 /\ (head # <<>> => Len(buf) + left <= MaxBody)
  BY Zenon DEF IInv, BufferBounded, Collecting, Rewriting, ReadChunk
<1>2. /\ TypeOK /\ Len(buf) <= MaxBody /\ (head = <<>> => buf = <<>>)
      /\ head \in Seq(Tokens) /\ buf \in Seq(Tokens)
      /\ left \in Nat /\ out \in Seq(Tokens) /\ pos \in 0..sent
  BY <1>1, ChunkedHolds
<1>3. /\ pos' \in 0..sent /\ left' \in Nat /\ out' \in Seq(Tokens) /\ buf' \in Seq(Tokens)
      /\ phase' \in {"chunk", "crlf", "failed"}
      /\ Len(buf') <= MaxBody /\ (head = <<>> => buf' = <<>>)
      /\ phase' = "chunk" => left' # 0 /\ (head # <<>> => Len(buf') + left' <= MaxBody)
  <2>1. CASE /\ Available
             /\ pos' = pos + 1
             /\ left' = left - 1
             /\ Pass(<<Next1>>, Counted("crlf"))
             /\ buf' = IF Rewriting THEN Append(buf, Next1) ELSE buf
    <3>1. pos + 1 \in 0..sent /\ Next1 \in Tokens /\ <<Next1>> \in Seq(Tokens)
      BY <1>2, <2>1, Reading, SingletonSeq
    <3>2. out' \in Seq(Tokens) /\ phase' \in {Counted("crlf"), "failed"}
      BY <1>2, <2>1, <3>1, PassType, Zenon
    <3>3. /\ left' \in Nat /\ Counted("crlf") \in {"crlf", "chunk"}
          /\ Counted("crlf") # "crlf" => left' # 0
      BY <1>1, <1>2, <2>1, CountedResult
    <3>4. CASE head = <<>>
      <4>1. buf' = buf
        BY <2>1, <3>4, Zenon DEF Rewriting
      <4> QED BY <1>2, <2>1, <3>1, <3>2, <3>3, <3>4, <4>1
    <3>5. CASE head # <<>>
      <4>1. buf' = Append(buf, Next1)
        BY <2>1, <3>5, Zenon DEF Rewriting
      <4>2. buf' \in Seq(Tokens) /\ Len(buf') <= MaxBody /\ Len(buf') + left' <= MaxBody
        BY <1>1, <1>2, <2>1, <3>1, <3>5, <4>1, Collected, Zenon
      <4> QED BY <2>1, <3>1, <3>2, <3>3, <3>5, <4>2
    <3> QED BY <3>4, <3>5
  <2>2. CASE UnexpectedEof /\ UNCHANGED <<pos, left, buf, out>>
    BY <1>2, <2>2 DEF UnexpectedEof
  <2> QED BY <2>1, <2>2 DEF ReadChunk
<1>4. TypeOK'
  BY <1>1, <1>2, <1>3, TypeKept DEF Phases
<1>5. BufferBounded' /\ Collecting'
  <2>1. head' = head /\ phase' \in ChunkPhases /\ phase' # "headers"
    BY <1>1, <1>3 DEF ChunkPhases
  <2> QED BY <1>3, <2>1, ChunkedKeeps, Zenon
<1> QED BY <1>4, <1>5 DEF IInv

\* The CRLF after a chunk (lines 429-432 and 478-480).
LEMMA ReadChunkEndKeeps ==
  ASSUME IInv, ReadChunkEnd
  PROVE  IInv'
<1>1. phase = "crlf" /\ UNCHANGED <<envVars, head, left, buf>>
  BY DEF ReadChunkEnd
<1>2. /\ TypeOK /\ Len(buf) <= MaxBody /\ (head = <<>> => buf = <<>>)
      /\ head \in Seq(Tokens) /\ buf \in Seq(Tokens)
      /\ left \in Nat /\ out \in Seq(Tokens) /\ pos \in 0..sent
  BY <1>1, ChunkedHolds
<1>3. pos' \in 0..sent /\ out' \in Seq(Tokens) /\ phase' \in {"size", "failed"}
  <2>1. CASE Available /\ pos' = pos + 1 /\ Pass(<<Next1>>, "size")
    <3>1. pos + 1 \in 0..sent /\ <<Next1>> \in Seq(Tokens)
      BY <1>2, <2>1, Reading, SingletonSeq
    <3> QED BY <1>2, <2>1, <3>1, PassType, Zenon
  <2>2. CASE UnexpectedEof /\ UNCHANGED <<pos, out>>
    BY <1>2, <2>2 DEF UnexpectedEof
  <2> QED BY <2>1, <2>2 DEF ReadChunkEnd
<1>4. TypeOK'
  BY <1>1, <1>2, <1>3, TypeKept DEF Phases
<1>5. BufferBounded' /\ Collecting'
  <2>1. /\ head' = head /\ buf' = buf /\ phase' \in ChunkPhases
        /\ phase' \notin {"headers", "chunk"}
    BY <1>1, <1>3 DEF ChunkPhases
  <2> QED BY <1>2, <2>1, ChunkedKeeps
<1> QED BY <1>4, <1>5 DEF IInv

\* The line after the last chunk (lines 408-414 and 455-460).
LEMMA ReadTrailerKeeps ==
  ASSUME IInv, ReadTrailer
  PROVE  IInv'
<1>1. phase = "trailer" /\ UNCHANGED <<envVars, head, left, buf>>
  BY DEF ReadTrailer
<1>2. /\ TypeOK /\ Len(buf) <= MaxBody /\ (head = <<>> => buf = <<>>)
      /\ head \in Seq(Tokens) /\ buf \in Seq(Tokens)
      /\ left \in Nat /\ out \in Seq(Tokens)
  BY <1>1, ChunkedHolds
<1>3. PICK k \in pos..sent : pos' = k /\ Pass(Line(k), BodyEnd)
  BY DEF ReadTrailer
<1>4. pos' \in 0..sent /\ Line(k) \in Seq(Tokens)
  BY <1>2, <1>3, Reading
<1>5. out' \in Seq(Tokens) /\ phase' \in {BodyEnd, "failed"}
  BY <1>2, <1>3, <1>4, PassType, Zenon
<1>6. phase' \in {"emit", "headers", "failed"} /\ (phase' = "headers" => head = <<>>)
  BY <1>5, BodyEndResult
<1>7. TypeOK'
  BY <1>1, <1>2, <1>4, <1>5, <1>6, TypeKept DEF Phases
<1>8. BufferBounded' /\ Collecting'
  <2>1. head' = head /\ buf' = buf /\ phase' \in ChunkPhases /\ phase' # "chunk"
    BY <1>1, <1>6 DEF ChunkPhases
  <2> QED BY <1>2, <1>6, <2>1, ChunkedKeeps
<1> QED BY <1>7, <1>8 DEF IInv

\* A read that fails ends the relay.
LEMMA ReadFailsKeeps ==
  ASSUME IInv, ReadFails
  PROVE  IInv'
<1>1. /\ TypeOK /\ Len(buf) <= MaxBody
      /\ phase' = "failed" /\ UNCHANGED <<envVars, pos, head, left, buf, out>>
  BY DEF IInv, BufferBounded, ReadFails
<1>2. TypeOK'
  BY <1>1, TypeKept DEF TypeOK, Phases
<1>3. BufferBounded' /\ Collecting'
  BY <1>1 DEF BufferBounded, Collecting
<1> QED BY <1>2, <1>3 DEF IInv

\* The peers leave the relay's state alone, and the origin sends no more than
\* there is.
LEMMA PeersKeep ==
  ASSUME IInv, OriginSend \/ OriginEnd \/ ClientLeave \/ UNCHANGED vars
  PROVE  IInv'
<1>1. UNCHANGED relayVars
  BY DEF OriginSend, OriginEnd, ClientLeave, vars, relayVars
<1>2. /\ script' \in Scripts /\ wire' = Stream(script')
      /\ origin' \in {"open", "closed", "reset"} /\ client' \in {"reading", "gone"}
      /\ sent' \in 0..Len(wire') /\ pos \in 0..sent'
  <2>1. sent \in 0..Len(wire) /\ Len(wire) \in Nat /\ pos \in 0..sent
    BY Reading DEF IInv
  <2>2. /\ script \in Scripts /\ wire = Stream(script)
        /\ origin \in {"open", "closed", "reset"} /\ client \in {"reading", "gone"}
    BY DEF IInv, TypeOK
  <2>3. script' = script /\ wire' = wire
    BY DEF OriginSend, OriginEnd, ClientLeave, vars, envVars
  <2>4. sent' \in 0..Len(wire) /\ pos \in 0..sent'
    <3>1. sent' = sent \/ (sent < Len(wire) /\ sent' = sent + 1)
      BY DEF OriginSend, OriginEnd, ClientLeave, vars, envVars
    <3> QED BY <2>1, <3>1
  <2>5. origin' \in {"open", "closed", "reset"} /\ client' \in {"reading", "gone"}
    BY <2>2 DEF OriginSend, OriginEnd, ClientLeave, vars, envVars
  <2> QED BY <2>2, <2>3, <2>4, <2>5, Zenon
<1>3. TypeOK'
  BY <1>1, <1>2 DEF IInv, TypeOK, relayVars
<1>4. BufferBounded' /\ Collecting'
  BY <1>1, Zenon DEF IInv, BufferBounded, Collecting, Rewriting, relayVars
<1> QED BY <1>3, <1>4 DEF IInv

\* The invariant holds when the connection to the origin is there.
LEMMA InitInvariant ==
  ASSUME Init
  PROVE  IInv
<1>1. script \in Scripts /\ wire = Stream(script) /\ Len(wire) \in Nat
  BY WireTokens, LenProperties DEF Init
<1>2. TypeOK
  BY <1>1, EmptySeq DEF Init, TypeOK
<1>3. BufferBounded /\ Collecting
  <2>1. Len(buf) = 0
    BY EmptySeq, Zenon DEF Init
  <2> QED BY <2>1, MaxBodyAssumption DEF Init, BufferBounded, Collecting
<1> QED BY <1>2, <1>3 DEF IInv

\* Every step keeps it.
LEMMA NextInvariant ==
  ASSUME IInv, [Next]_vars
  PROVE  IInv'
BY ReadHeaderLineKeeps, CopyStreamKeeps, CopyFixedKeeps, ReadBodyKeeps, EmitKeeps,
   ReadSizeKeeps, ReadChunkKeeps, ReadChunkEndKeeps, ReadTrailerKeeps, ReadFailsKeeps,
   PeersKeep, Zenon DEF Next, RelayStep

\* The inductive invariant, of which the theorems below are parts.
LEMMA Invariant == Spec => []IInv
BY InitInvariant, NextInvariant, PTL DEF Spec

\* Every variable keeps its type: what is buffered and written are tokens,
\* whatever the origin sends and wherever it stops (lines 232-389).
THEOREM TypeCorrect == Spec => []TypeOK
<1>1. IInv => TypeOK
  BY DEF IInv
<1> QED BY <1>1, Invariant, PTL

\* The relay never sets aside more than MAX_REWRITABLE_BODY_SIZE for a body and
\* the part of it that it is about to read, whatever lengths and sizes the
\* origin announces, and although the sum it checks is one of usize (lines 315,
\* 463 and 474).
THEOREM BufferIsBounded == Spec => []BufferBounded
<1>1. IInv => BufferBounded
  BY DEF IInv
<1> QED BY <1>1, Invariant, PTL

-----------------------------------------------------------------------------
(* A connection without a text response.                                   *)

Media == \A i \in DOMAIN script : ~script[i].text

\* The tokens of responses that are not text.
MediaTokens == {t \in Tokens : t[1] = "fields" => t[2].text = FALSE}

\* No header on such a connection says that a body is text.
LEMMA MediaWire ==
  ASSUME NEW s \in Scripts, \A i \in DOMAIN s : ~s[i].text
  PROVE  Stream(s) \in Seq(MediaTokens)
<1>1. s \in Seq(Responses) /\ DOMAIN s = 1..Len(s)
  BY ScriptsAssumption, LenProperties
<1>2. /\ Units \subseteq MediaTokens /\ CRLF \in MediaTokens /\ Trailer \in MediaTokens
      /\ \A n \in Nat : Size(n) \in MediaTokens
  <2>1. \A u \in Units : u[1] # "fields"
    BY DEF Units
  <2>2. CRLF[1] # "fields" /\ Trailer[1] # "fields" /\ \A n \in Nat : Size(n)[1] # "fields"
    BY DEF CRLF, Trailer, Size
  <2> QED BY <2>1, <2>2, TokenFacts, Zenon DEF MediaTokens
<1>3. ASSUME NEW i \in DOMAIN s
      PROVE  Encode(s[i]) \in Seq(MediaTokens)
  <2>1. s[i] \in Responses /\ s[i].text = FALSE
    <3>1. s[i] \in Responses
      BY <1>1, ElementOfSeq
    <3>2. s[i].text \in BOOLEAN /\ ~s[i].text
      BY <3>1 DEF Responses
    <3> QED BY <3>1, <3>2
  <2>2. SentFields(s[i]) \in Header /\ SentFields(s[i]).text = FALSE
    BY <2>1, SentFieldsType
  <2>3. Fields(SentFields(s[i])) \in Tokens /\ Fields(SentFields(s[i]))[2] = SentFields(s[i])
    BY <2>2, TokenFacts DEF Fields
  <2>4. Fields(SentFields(s[i])) \in MediaTokens
    BY <2>2, <2>3, Zenon DEF MediaTokens
  <2> QED BY <1>2, <2>1, <2>4, EncodeType
<1> QED BY <1>1, <1>3, StreamType

\* Nor do the header lines of a response, once they are parsed (lines 212-229).
LEMMA MediaParsed ==
  ASSUME NEW lines \in Seq(MediaTokens)
  PROVE  Parsed(lines).text = FALSE
<1> DEFINE known == {i \in DOMAIN lines : lines[i][1] = "fields"}
<1>1. DOMAIN lines = 1..Len(lines) /\ Len(lines) \in Nat
  BY LenProperties
<1>2. CASE known = {}
  <2>1. Parsed(lines) = [text |-> FALSE, framing |-> "close", len |-> 0]
    BY <1>2, Zenon DEF Parsed
  <2> QED BY <2>1
<1>3. CASE known # {}
  <2>1. known \in SUBSET Nat
    BY <1>1
  <2>2. Min(known) \in known
    BY <1>3, <2>1, MinInSet, Zenon
  <2>3. Parsed(lines) = lines[Min(known)][2]
    BY <1>3, Zenon DEF Parsed
  <2>4. lines[Min(known)] \in MediaTokens /\ lines[Min(known)][1] = "fields"
    BY <1>1, <2>2, ElementOfSeq
  <2> QED BY <2>3, <2>4 DEF MediaTokens
<1> QED BY <1>2, <1>3, Zenon

\* What ByteTransparent needs to be kept: what was read is what was written and
\* the header lines that are held back, which there are only among headers; no
\* body is collected, and when a write fails what was written before it stays.
Transparent ==
  Media =>
    /\ phase \notin {"body", "emit"}
    /\ phase \notin {"headers", "done", "failed"} => head = <<>>
    /\ phase \notin {"done", "failed"} =>
         head \in Seq(MediaTokens) /\ out \o head = SubSeq(wire, 1, pos)
    /\ IsPrefix(out, wire)

\* What can be read on such a connection.
LEMMA MediaReading ==
  ASSUME TypeOK, Media
  PROVE  /\ wire \in Seq(MediaTokens) /\ Len(wire) \in Nat
         /\ \A k \in pos..sent : Line(k) \in Seq(MediaTokens)
<1>1. wire \in Seq(MediaTokens) /\ Len(wire) \in Nat
  BY MediaWire, LenProperties DEF TypeOK, Media
<1>2. ASSUME NEW k \in pos..sent
      PROVE  Line(k) \in Seq(MediaTokens)
  <2>1. pos \in 0..Len(wire) /\ k \in pos..Len(wire)
    BY <1>1, Reading
  <2> QED BY <1>1, <2>1, ReadOn DEF Line
<1> QED BY <1>1, <1>2

\* A line is empty only where nothing is read.
LEMMA NothingRead ==
  ASSUME TypeOK, NEW k \in pos..sent, Line(k) = <<>>
  PROVE  k = pos
<1>1. wire \in Seq(Tokens) /\ pos \in 0..Len(wire) /\ k \in pos..Len(wire) /\ k \in 0..Len(wire)
  BY Reading
<1>2. /\ SubSeq(wire, 1, pos) \in Seq(Tokens) /\ Len(SubSeq(wire, 1, pos)) = pos
      /\ SubSeq(wire, 1, pos) \o Line(k) = SubSeq(wire, 1, k)
  BY <1>1, ReadOn DEF Line
<1>3. Len(SubSeq(wire, 1, k)) = k
  <2>1. k \in k..Len(wire)
    BY <1>1
  <2> QED BY <1>1, <2>1, ReadOn
<1>4. SubSeq(wire, 1, pos) \o <<>> = SubSeq(wire, 1, pos)
  BY <1>2, ConcatEmptySeq
<1> QED BY <1>2, <1>3, <1>4, Zenon

\* It does not matter in which order parts are put together.
LEMMA Regrouped ==
  ASSUME NEW s \in Seq(Tokens), NEW t \in Seq(Tokens), NEW u \in Seq(Tokens)
  PROVE  (s \o t) \o u = s \o (t \o u)
BY ConcatAssociative, SMTT(20)

\* When what was held back is written together with what was read, what was
\* read and what was written are the same again.
LEMMA WrittenOn ==
  ASSUME TypeOK, out \o head = SubSeq(wire, 1, pos), NEW k \in pos..sent, NEW next,
         Write(head \o Line(k), next)
  PROVE  /\ out' = SubSeq(wire, 1, k) \/ (out' = out /\ phase' = "failed")
         /\ IsPrefix(out', wire)
<1>1. /\ wire \in Seq(Tokens) /\ head \in Seq(Tokens) /\ out \in Seq(Tokens)
      /\ pos \in 0..Len(wire) /\ k \in pos..Len(wire) /\ k \in 0..Len(wire)
  BY Reading DEF TypeOK
<1>2. Line(k) \in Seq(Tokens) /\ SubSeq(wire, 1, pos) \o Line(k) = SubSeq(wire, 1, k)
  BY <1>1, ReadOn, Zenon DEF Line
<1>3. out \o (head \o Line(k)) = SubSeq(wire, 1, k)
  <2>1. (out \o head) \o Line(k) = out \o (head \o Line(k))
    BY <1>1, <1>2, Regrouped, Zenon
  <2> QED BY <1>2, <2>1, Zenon
<1>4. \/ out' = SubSeq(wire, 1, k)
      \/ out' = out /\ phase' = "failed"
  BY <1>3 DEF Write
<1>5. IsPrefix(out, wire)
  BY <1>1, PartIsPrefix, Zenon
<1>6. IsPrefix(SubSeq(wire, 1, k), wire)
  <2>1. SubSeq(wire, 1, k) \in Seq(Tokens) /\ <<>> \in Seq(Tokens)
    BY <1>1, ReadOn, EmptySeq
  <2>2. SubSeq(wire, 1, k) \o <<>> = SubSeq(wire, 1, k)
    BY <2>1, ConcatEmptySeq
  <2> QED BY <1>1, <2>1, <2>2, PartIsPrefix, Zenon
<1> QED BY <1>4, <1>5, <1>6, Zenon

\* A step that writes what it read, or reads nothing, while nothing is held back.
LEMMA PassedOn ==
  ASSUME TypeOK, head = <<>>, out \o head = SubSeq(wire, 1, pos),
         NEW k \in pos..sent, NEW next, next \notin {"body", "emit"},
         Write(Line(k), next) \/ (k = pos /\ UNCHANGED out /\ phase' \in {next, "failed"}),
         pos' = k, UNCHANGED <<envVars, head>>
  PROVE  Transparent'
<1>1. /\ wire \in Seq(Tokens) /\ out \in Seq(Tokens) /\ Line(k) \in Seq(Tokens)
      /\ head \in Seq(Tokens) /\ pos \in 0..Len(wire) /\ k \in 0..Len(wire)
      /\ head' = <<>> /\ <<>> \in Seq(Tokens) /\ <<>> \in Seq(MediaTokens)
  BY Reading, EmptySeq DEF TypeOK
<1>2. head \o Line(k) = Line(k) /\ out \o head = out
  BY <1>1, ConcatEmptySeq
<1>3. /\ phase' \in {next, "failed"}
      /\ out' = SubSeq(wire, 1, k) \/ (out' = out /\ phase' = "failed")
      /\ IsPrefix(out', wire)
  <2>1. CASE Write(Line(k), next)
    <3>1. Write(head \o Line(k), next)
      BY <1>2, <2>1, Zenon
    <3>2. phase' \in {next, "failed"}
      BY <2>1 DEF Write
    <3> QED BY <3>1, <3>2, WrittenOn
  <2>2. CASE k = pos /\ UNCHANGED out /\ phase' \in {next, "failed"}
    <3>1. IsPrefix(out, wire)
      BY <1>1, PartIsPrefix, Zenon
    <3>2. out = SubSeq(wire, 1, k)
      BY <1>2, <2>2
    <3> QED BY <2>2, <3>1, <3>2
  <2> QED BY <2>1, <2>2
<1>4. wire' = wire /\ pos' = k
  BY DEF envVars
<1>5. out' = SubSeq(wire, 1, k) => out' \o head' = SubSeq(wire', 1, pos')
  <2>1. SubSeq(wire, 1, k) \in Seq(Tokens)
    BY <1>1, ReadOn
  <2>2. SubSeq(wire, 1, k) \o <<>> = SubSeq(wire, 1, k)
    BY <2>1, ConcatEmptySeq
  <2> QED BY <1>1, <1>4, <2>2, Zenon
<1>6. phase' \notin {"body", "emit"}
  BY <1>3
<1>7. phase' # "failed" => out' \o head' = SubSeq(wire', 1, pos')
  BY <1>3, <1>5
<1> QED BY <1>1, <1>3, <1>4, <1>6, <1>7, Zenon DEF Transparent

\* What is known of a connection without text between the relay's steps.
LEMMA MediaHolds ==
  ASSUME IInv, Transparent, Media
  PROVE  /\ TypeOK /\ phase \notin {"body", "emit"}
         /\ phase \notin {"done", "failed"} => out \o head = SubSeq(wire, 1, pos)
         /\ phase \notin {"headers", "done", "failed"} => head = <<>>
         /\ Available => pos + 1 \in pos..sent /\ Line(pos + 1) = <<Next1>>
         /\ pos \in pos..sent
<1>1. TypeOK
  BY DEF IInv
<1>2. wire \in Seq(Tokens) /\ Len(wire) \in Nat /\ sent \in 0..Len(wire) /\ pos \in 0..sent
  BY <1>1, Reading
<1>3. pos \in pos..sent
  BY <1>2
<1>4. ASSUME Available
      PROVE  pos + 1 \in pos..sent /\ Line(pos + 1) = <<Next1>>
  <2>1. pos \in 0..Len(wire) /\ pos < Len(wire) /\ pos + 1 \in pos..sent
    BY <1>2, <1>4 DEF Available
  <2> QED BY <1>2, <2>1, ReadOne DEF Line, Next1
<1> QED BY <1>1, <1>3, <1>4, Zenon DEF Transparent

\* Without text every header block is passed through (lines 321-323).
LEMMA MediaHeaders ==
  ASSUME TypeOK, Media, head \in Seq(MediaTokens), EndOfHeaders
  PROVE  /\ head' = <<>>
         /\ \E next \in {"stream", "size", "headers", "fixed"} : Write(head \o <<CRLF>>, next)
<1> DEFINE f == Parsed(head)
           pass == f.framing = "close" \/ ~f.text \/ TooLarge(f)
           next == CASE f.framing = "close" -> "stream"
                     [] Chunked(f)          -> "size"
                     [] f.framing = "length" /\ f.len = 0 -> IF pass THEN "headers" ELSE "emit"
                     [] OTHER -> IF pass THEN "fixed" ELSE "body"
<1>1. \/ pass /\ head' = <<>> /\ Write(head \o <<CRLF>>, next)
      \/ ~pass /\ phase' = next /\ UNCHANGED <<head, out>>
  BY Zenon DEF EndOfHeaders
<1>2. f.text = FALSE
  BY MediaParsed, Zenon
<1> HIDE DEF f
<1>3. pass
  BY <1>2, Zenon
<1>4. next \in {"stream", "size", "headers", "fixed"}
  BY <1>3, Zenon
<1> HIDE DEF next, pass
<1> QED BY <1>1, <1>3, <1>4, Zenon

\* The header lines of a response, or the end of the stream (lines 241-323).
LEMMA ReadHeaderLineTransparent ==
  ASSUME IInv, Transparent, Media, ReadHeaderLine
  PROVE  Transparent'
<1>1. /\ phase = "headers" /\ TypeOK /\ UNCHANGED <<envVars, buf>>
      /\ head \in Seq(MediaTokens) /\ out \o head = SubSeq(wire, 1, pos)
      /\ IsPrefix(out, wire)
  BY Zenon DEF IInv, Transparent, ReadHeaderLine
<1>2. PICK k \in pos..sent :
        /\ pos' = k
        /\ \/ Line(k) = <<>> /\ phase' = "done" /\ UNCHANGED <<head, left, out>>
           \/ Line(k) = <<CRLF>> /\ EndOfHeaders
           \/ /\ head' = head \o Line(k)
              /\ UNCHANGED <<phase, left, out>>
  BY DEF ReadHeaderLine
<1>3. /\ head \in Seq(Tokens) /\ out \in Seq(Tokens) /\ wire \in Seq(Tokens)
      /\ Line(k) \in Seq(Tokens) /\ Line(k) \in Seq(MediaTokens)
      /\ pos \in 0..Len(wire) /\ k \in pos..Len(wire) /\ k \in 0..Len(wire)
  BY <1>1, Reading, MediaReading DEF TypeOK
<1>4. wire' = wire
  BY <1>1 DEF envVars
<1>5. CASE phase' = "done" /\ UNCHANGED <<head, left, out>>
  BY <1>1, <1>4, <1>5 DEF Transparent
<1>6. CASE Line(k) = <<CRLF>> /\ EndOfHeaders
  <2>1. PICK next \in {"stream", "size", "headers", "fixed"} : Write(head \o <<CRLF>>, next)
    BY <1>1, <1>6, MediaHeaders, Zenon
  <2>2. head' = <<>>
    BY <1>1, <1>6, MediaHeaders, Zenon
  <2>3. /\ out' = SubSeq(wire, 1, k) \/ (out' = out /\ phase' = "failed")
        /\ IsPrefix(out', wire)
    <3>1. Write(head \o Line(k), next)
      BY <1>6, <2>1, Zenon
    <3> QED BY <1>1, <3>1, WrittenOn, Zenon
  <2>4. phase' \in {next, "failed"}
    BY <2>1 DEF Write
  <2>5. SubSeq(wire, 1, k) \o <<>> = SubSeq(wire, 1, k)
    BY <1>3, ReadOn, ConcatEmptySeq
  <2>6. phase' # "failed" => out' \o head' = SubSeq(wire', 1, pos')
    BY <1>2, <1>4, <2>2, <2>3, <2>5, Zenon
  <2>7. head' \in Seq(MediaTokens)
    BY <2>2, EmptySeq
  <2>8. phase' \notin {"body", "emit"}
    BY <2>1, <2>4
  <2> QED BY <1>4, <2>2, <2>3, <2>6, <2>7, <2>8, Zenon DEF Transparent
<1>7. CASE head' = head \o Line(k) /\ UNCHANGED <<phase, left, out>>
  <2>1. head' \in Seq(MediaTokens)
    BY <1>1, <1>3, <1>7, ConcatProperties
  <2>2. SubSeq(wire, 1, pos) \o Line(k) = SubSeq(wire, 1, k)
    BY <1>3, ReadOn DEF Line
  <2>3. (out \o head) \o Line(k) = out \o (head \o Line(k))
    BY <1>3, Regrouped, Zenon
  <2>4. phase' = "headers" /\ out' = out
    BY <1>1, <1>7
  <2>5. out' \o head' = SubSeq(wire', 1, pos')
    BY <1>1, <1>2, <1>4, <1>7, <2>2, <2>3, <2>4, Zenon
  <2>6. phase' \notin {"body", "emit"} /\ ~(phase' \notin {"headers", "done", "failed"})
    BY <2>4
  <2> QED BY <1>1, <1>4, <2>1, <2>4, <2>5, <2>6, Zenon DEF Transparent
<1> QED BY <1>2, <1>5, <1>6, <1>7

\* Bodies that are passed through, framed by the end of the stream or by a
\* length (lines 302-312 and 328-347).
LEMMA CopyTransparent ==
  ASSUME IInv, Transparent, Media, CopyStream \/ CopyFixed
  PROVE  Transparent'
<1>1. phase \in {"stream", "fixed"} /\ UNCHANGED <<envVars, head>>
  BY DEF CopyStream, CopyFixed
<1>2. /\ TypeOK /\ head = <<>> /\ out \o head = SubSeq(wire, 1, pos) /\ pos \in pos..sent
      /\ Available => pos + 1 \in pos..sent /\ Line(pos + 1) = <<Next1>>
  BY <1>1, MediaHolds
<1>3. \/ /\ Available /\ pos' = pos + 1
         /\ \E next \in {"stream", "headers", "fixed"} : Write(<<Next1>>, next)
      \/ phase' \in {"done", "headers"} /\ UNCHANGED <<pos, out>>
  <2>1. Counted("headers") \in {"headers", phase}
    BY DEF Counted
  <2> QED BY <1>1, <2>1, Zenon DEF CopyStream, CopyFixed
<1>4. CASE /\ Available /\ pos' = pos + 1
           /\ \E next \in {"stream", "headers", "fixed"} : Write(<<Next1>>, next)
  <2>1. PICK next \in {"stream", "headers", "fixed"} : Write(<<Next1>>, next)
    BY <1>4
  <2>2. Write(Line(pos + 1), next) /\ next \notin {"body", "emit"} /\ pos + 1 \in pos..sent
    BY <1>2, <1>4, <2>1
  <2> QED BY <1>1, <1>2, <1>4, <2>2, PassedOn
<1>5. CASE phase' \in {"done", "headers"} /\ UNCHANGED <<pos, out>>
  BY <1>1, <1>2, <1>5, PassedOn, Zenon
<1> QED BY <1>3, <1>4, <1>5

\* Chunked bodies that are passed through, which is all of them when nothing is
\* held back (lines 391-436).
LEMMA ChunkedTransparent ==
  ASSUME IInv, Transparent, Media, ReadSize \/ ReadChunk \/ ReadChunkEnd \/ ReadTrailer
  PROVE  Transparent'
<1> DEFINE Nexts == {"size", "chunk", "crlf", "trailer", "headers", "failed"}
<1>1. phase \in {"size", "chunk", "crlf", "trailer"} /\ UNCHANGED <<envVars, head>>
  BY DEF ReadSize, ReadChunk, ReadChunkEnd, ReadTrailer
<1>2. /\ TypeOK /\ head = <<>> /\ out \o head = SubSeq(wire, 1, pos) /\ pos \in pos..sent
      /\ Available => pos + 1 \in pos..sent /\ Line(pos + 1) = <<Next1>>
  BY <1>1, MediaHolds
<1>3. \A tokens, next : Pass(tokens, next) => Write(tokens, next)
  BY <1>2, Zenon DEF Pass, Rewriting
<1>4. BodyEnd = "headers"
  BY <1>2, Zenon DEF BodyEnd, Rewriting
<1>5. \E k \in pos..sent : \E next \in Nexts :
        /\ pos' = k
        /\ Write(Line(k), next) \/ (k = pos /\ UNCHANGED out /\ phase' \in {next, "failed"})
  <2>1. ASSUME UnexpectedEof, UNCHANGED <<pos, out>>
        PROVE  /\ pos' = pos
               /\ pos = pos /\ UNCHANGED out /\ phase' \in {"failed", "failed"}
    BY <2>1 DEF UnexpectedEof
  <2>2. CASE ReadSize
    <3>1. PICK k \in pos..sent :
            /\ LineTo(k) /\ pos' = k
            /\ \/ Line(k) = <<>> /\ phase' = BodyEnd /\ UNCHANGED <<left, out>>
               \/ Pass(Line(k), AfterSize(Line(k)))
      BY <2>2, Zenon DEF ReadSize
    <3>2. AfterSize(Line(k)) \in Nexts
      BY Zenon DEF AfterSize
    <3>3. Line(k) = <<>> => k = pos
      BY <1>2, NothingRead, Zenon
    <3> QED BY <1>3, <1>4, <3>1, <3>2, <3>3, Zenon
  <2>3. CASE ReadChunk
    <3>1. \/ Available /\ pos' = pos + 1 /\ Pass(<<Next1>>, Counted("crlf"))
          \/ UnexpectedEof /\ UNCHANGED <<pos, out>>
      BY <2>3, Zenon DEF ReadChunk
    <3>2. Counted("crlf") \in Nexts
      BY <1>1, Zenon DEF Counted
    <3> QED BY <1>2, <1>3, <2>1, <3>1, <3>2, Zenon
  <2>4. CASE ReadChunkEnd
    <3>1. \/ Available /\ pos' = pos + 1 /\ Pass(<<Next1>>, "size")
          \/ UnexpectedEof /\ UNCHANGED <<pos, out>>
      BY <2>4, Zenon DEF ReadChunkEnd
    <3> QED BY <1>2, <1>3, <2>1, <3>1, Zenon
  <2>5. CASE ReadTrailer
    <3>1. PICK k \in pos..sent : pos' = k /\ Pass(Line(k), BodyEnd)
      BY <2>5, Zenon DEF ReadTrailer
    <3> QED BY <1>3, <1>4, <3>1, Zenon
  <2> QED BY <2>2, <2>3, <2>4, <2>5
<1>6. PICK k \in pos..sent, next \in Nexts :
        /\ pos' = k
        /\ Write(Line(k), next) \/ (k = pos /\ UNCHANGED out /\ phase' \in {next, "failed"})
  BY <1>5, Zenon
<1>7. next \notin {"body", "emit"}
  BY <1>6
<1> QED BY <1>1, <1>2, <1>6, <1>7, PassedOn

\* Nothing is read or written at first.
LEMMA InitTransparent ==
  ASSUME Init
  PROVE  Transparent
<1>1. /\ IInv /\ phase = "headers" /\ pos = 0 /\ head = <<>> /\ out = <<>>
  BY InitInvariant DEF Init
<1>2. wire \in Seq(Tokens) /\ 0 \in 0..Len(wire)
  BY <1>1, Reading DEF IInv
<1>3. SubSeq(wire, 1, 0) = <<>> /\ <<>> \in Seq(Tokens) /\ <<>> \in Seq(MediaTokens)
  <2>1. Len(SubSeq(wire, 1, 0)) = 0 /\ SubSeq(wire, 1, 0) \in Seq(Tokens)
    BY <1>2, ReadOn
  <2> QED BY <2>1, EmptySeq
<1>4. <<>> \o <<>> = <<>>
  BY <1>3, ConcatEmptySeq
<1>5. out \o head = SubSeq(wire, 1, pos)
  BY <1>1, <1>3, <1>4, Zenon
<1>6. IsPrefix(out, wire)
  BY <1>1, <1>2, <1>3, <1>5, PartIsPrefix, Zenon
<1>7. phase \notin {"body", "emit"} /\ head \in Seq(MediaTokens)
  BY <1>1, <1>3
<1> QED BY <1>1, <1>5, <1>6, <1>7, Zenon DEF Transparent

\* A text body is never collected here, a failed read writes nothing, and the
\* peers leave what was read and written alone.
LEMMA NextTransparent ==
  ASSUME IInv, Transparent, [Next]_vars
  PROVE  Transparent'
<1>1. script' = script /\ wire' = wire
  BY DEF Next, RelayStep, vars, envVars, ReadHeaderLine, CopyStream, CopyFixed, ReadBody, Emit,
         ReadSize, ReadChunk, ReadChunkEnd, ReadTrailer, ReadFails,
         OriginSend, OriginEnd, ClientLeave
<1>2. CASE ~Media
  <2>1. ~Media'
    BY <1>1, <1>2, Zenon DEF Media
  <2> QED BY <2>1, Zenon DEF Transparent
<1>3. CASE Media
  <2>1. CASE ReadHeaderLine
    BY <1>3, <2>1, ReadHeaderLineTransparent
  <2>2. CASE CopyStream \/ CopyFixed
    BY <1>3, <2>2, CopyTransparent
  <2>3. CASE ReadSize \/ ReadChunk \/ ReadChunkEnd \/ ReadTrailer
    BY <1>3, <2>3, ChunkedTransparent
  <2>4. CASE ReadBody \/ Emit
    <3>1. phase \in {"body", "emit"}
      BY <2>4 DEF ReadBody, Emit
    <3> QED BY <1>3, <3>1, MediaHolds
  <2>5. CASE ReadFails
    <3>1. phase' = "failed" /\ out' = out
      BY <2>5 DEF ReadFails
    <3>2. phase' \notin {"body", "emit"}
      BY <3>1
    <3>3. IsPrefix(out, wire)
      BY <1>3, Zenon DEF Transparent
    <3> QED BY <1>1, <3>1, <3>2, <3>3, Zenon DEF Transparent
  <2>6. CASE OriginSend \/ OriginEnd \/ ClientLeave \/ UNCHANGED vars
    <3>1. UNCHANGED relayVars
      BY <2>6 DEF OriginSend, OriginEnd, ClientLeave, vars, relayVars
    <3>2. phase' = phase /\ pos' = pos /\ head' = head /\ out' = out
      BY <3>1 DEF relayVars
    <3> QED BY <1>1, <1>3, <3>2, Zenon DEF Transparent
  <2> QED BY <2>1, <2>2, <2>3, <2>4, <2>5, <2>6, Zenon DEF Next, RelayStep
<1> QED BY <1>2, <1>3

\* A connection without a text response is relayed byte for byte, whatever the
\* framing of its responses and wherever it ends: what the client has seen is a
\* prefix of what the origin sent, even where the relay has lost track of where
\* responses begin (lines 321-347 and 391-436).
THEOREM MediaIsTransparent == Spec => []ByteTransparent
<1>1. Init => IInv /\ Transparent
  BY InitInvariant, InitTransparent
<1>2. IInv /\ Transparent /\ [Next]_vars => (IInv /\ Transparent)'
  BY NextInvariant, NextTransparent
<1>3. Transparent => ByteTransparent
  BY Zenon DEF Transparent, ByteTransparent, Media
<1> QED BY <1>1, <1>2, <1>3, PTL DEF Spec
=============================================================================
