----------------------------- MODULE HttpRelay -----------------------------
(***************************************************************************)
(* One direction of one connection: proxy_response_with_rewrite, which     *)
(* reads the origin's HTTP responses and writes them to the client, with   *)
(* the origin's URL replaced in the bodies of text responses.              *)
(*                                                                         *)
(* The stream is a sequence of tokens, each of which counts as one unit of *)
(* length: the header lines of a response up to the empty line, a CRLF, a  *)
(* chunk-size line, a trailer line, a unit of a body.  The origin's URL is *)
(* two units, Scheme and Host, so that a chunk may end inside it.  A line  *)
(* is read when its line feed has come; bytes of a line that the end of    *)
(* the stream cuts short are lost with it.                                 *)
(***************************************************************************)
EXTENDS Naturals, Sequences, SequencesExt

CONSTANTS
  Scripts,   \* the sequences of responses an origin may send
  ProxyUrl,  \* what the origin's URL is replaced by, a sequence of units
  MaxBody,   \* MAX_REWRITABLE_BODY_SIZE, 10 MB in the code
  Usize      \* how many values the type usize of the target has

ASSUME MaxBodyAssumption == MaxBody \in Nat /\ Usize \in Nat /\ 2 * MaxBody < Usize

VARIABLES
  script,  \* the responses of this connection
  wire,    \* their tokens
  sent,    \* how many tokens the origin sent
  origin,  \* the origin's end: "open", "closed" (FIN), "reset"
  client,  \* the client's end: "reading", "gone"
  phase,   \* where proxy_response_with_rewrite is, and what it returned
  pos,     \* how many tokens it read
  head,    \* header_buf: header lines read and not yet written
  left,    \* units of the body or chunk still to be read
  buf,     \* the body, while it is collected for rewriting
  out      \* the tokens written to the client

envVars == <<script, wire, sent, origin, client>>
vars == <<envVars, phase, pos, head, left, buf, out>>

-----------------------------------------------------------------------------
(* Responses and their tokens.                                             *)

Unit(u)   == <<"unit", u>>
Scheme    == Unit("scheme")
Host      == Unit("host")
CRLF      == <<"crlf", 0>>
Size(n)   == <<"size", n>>
Trailer   == <<"trailer", 0>>
Fields(f) == <<"fields", f>>

Framings == {"length", "chunked", "both", "close"}
Contents == {"text", "scheme", "host", "badbyte", "proxy", "port", "replacement"}
Units    == {"unit"} \X Contents
Header   == [text : BOOLEAN, framing : Framings, len : Nat]
Tokens   ==
  Units \cup {CRLF, Trailer} \cup ({"size"} \X Nat) \cup ({"fields"} \X Header)

Responses ==
  [text : BOOLEAN, framing : Framings, len : Nat, chunks : Seq(Seq(Units)),
   bodiless : BOOLEAN, trailer : BOOLEAN, huge : BOOLEAN]

ASSUME ScriptsAssumption == Scripts \subseteq Seq(Responses)
ASSUME ProxyUrlAssumption == ProxyUrl \in Seq(Units)

EndsLine(token) == token[1] # "unit"

Body(m) == FlattenSeq(m.chunks)

Chunk(units) == <<Size(Len(units))>> \o units \o <<CRLF>>

\* A response has a length, chunks, both or neither ("close"); with both the
\* length may be anything.
HasLength(f) == f.framing \in {"length", "both"}
Chunked(f)   == f.framing \in {"chunked", "both"}

\* What the origin sends for a response.  A bodiless one, the answer to a HEAD
\* request or a 304, declares the length of a body that does not follow.  A huge
\* one ends in a chunk that is announced with the largest size there is.
Encode(m) ==
  LET fields == [text |-> m.text, framing |-> m.framing, len |-> IF HasLength(m) THEN m.len ELSE 0]
      body == CASE m.bodiless -> <<>>
                [] ~m.bodiless /\ Chunked(m) ->
                     FlattenSeq([i \in DOMAIN m.chunks |-> Chunk(m.chunks[i])])
                       \o IF m.huge THEN <<Size(Usize - 1), Scheme, Host>>
                          ELSE <<Size(0)>> \o (IF m.trailer THEN <<Trailer>> ELSE <<>>) \o <<CRLF>>
                [] OTHER -> Body(m)
  IN <<Fields(fields), CRLF>> \o body

Stream(s) == FlattenSeq([i \in DOMAIN s |-> Encode(s[i])])

-----------------------------------------------------------------------------
(* The pure parts of the relay.                                            *)

UrlAt(b, i) == i \in 1..(Len(b) - 1) /\ b[i] = Scheme /\ b[i + 1] = Host

\* str::replace on the lossy string: each origin URL gives way to the proxy's,
\* and each invalid byte to a replacement character of three bytes.
Rewrite(b) ==
  FlattenSeq([i \in DOMAIN b |->
    CASE UrlAt(b, i)           -> ProxyUrl
      [] UrlAt(b, i - 1)       -> <<>>
      [] b[i] = Unit("badbyte") -> [j \in 1..3 |-> Unit("replacement")]
      [] OTHER                 -> <<b[i]>>])

\* What the header lines say; without the fields nothing is known of the body.
Parsed(lines) ==
  LET known == {i \in DOMAIN lines : lines[i][1] = "fields"}
  IN IF known = {} THEN [text |-> FALSE, framing |-> "close", len |-> 0]
     ELSE lines[Min(known)][2]

KeepContentLength(lines, n) == lines     \* mutant of UpdateContentLength

\* update_content_length, which is called only when there is a Content-Length.
UpdateContentLength(lines, n) ==
  [i \in DOMAIN lines |->
     IF lines[i][1] = "fields" /\ HasLength(lines[i][2])
     THEN Fields([lines[i][2] EXCEPT !.len = n])
     ELSE lines[i]]

\* write_chunked_body: one chunk with all the data, then the last chunk.
WriteChunkedBody(b) == Chunk(b) \o <<Size(0), CRLF>>

TypeOK ==
  /\ script \in Scripts
  /\ wire = Stream(script)
  /\ sent \in 0..Len(wire)
  /\ origin \in {"open", "closed", "reset"}
  /\ client \in {"reading", "gone"}
  /\ phase \in {"headers", "stream", "fixed", "size", "chunk", "crlf", "trailer",
                "body", "emit", "done", "failed"}
  /\ pos \in 0..sent
  /\ left \in Nat
  /\ head \in Seq(Tokens)
  /\ buf \in Seq(Tokens)
  /\ out \in Seq(Tokens)

Init ==
  /\ script \in Scripts
  /\ wire = Stream(script)
  /\ sent = 0
  /\ origin = "open"
  /\ client = "reading"
  /\ phase = "headers"
  /\ pos = 0
  /\ head = <<>>
  /\ left = 0
  /\ buf = <<>>
  /\ out = <<>>

-----------------------------------------------------------------------------
(* Reading and writing.                                                    *)

\* read_until('\n'): up to the first line feed, or to the end of the stream.
LineTo(k) ==
  /\ \A j \in (pos + 1)..(k - 1) : ~EndsLine(wire[j])
  /\ \/ k > pos /\ EndsLine(wire[k])
     \/ k = sent /\ origin = "closed" /\ (k > pos => ~EndsLine(wire[k]))
Line(k) == SubSeq(wire, pos + 1, k)

Available == pos < sent
Next1 == wire[pos + 1]
Eof == pos = sent /\ origin = "closed"

\* One more unit of a body or chunk was read: the last one, or not.
Uncounted(next) == phase                 \* mutant of Counted
Counted(next) == IF left = 1 THEN next ELSE phase

\* The stream ends where read_exact, now or next, needs more of it.
TryAgain == FALSE                        \* mutant of UnexpectedEof
UnexpectedEof == Eof /\ phase' = "failed"

\* write_all(tokens).await?, and where the relay goes from there
Write(tokens, next) ==
  \/ out' = out \o tokens /\ phase' = next
  \/ client = "gone" /\ UNCHANGED out /\ phase' = "failed"

\* Header lines are held back only while a body is collected for rewriting.
Rewriting == head # <<>>

-----------------------------------------------------------------------------
(* proxy_response_with_rewrite, its loop over responses.                   *)

TooLargeByMore(f) ==                     \* mutant of TooLarge: off by one
  HasLength(f) /\ f.len > MaxBody + 1
TooLarge(f) == HasLength(f) /\ f.len > MaxBody

\* The empty line: how the body is treated is decided once and for all.
EndOfHeaders ==
  LET f == Parsed(head)
      pass == f.framing = "close" \/ ~f.text \/ TooLarge(f)
      next == CASE f.framing = "close"                -> "stream"
                [] Chunked(f)                         -> "size"
                [] f.framing = "length" /\ f.len = 0 -> IF pass THEN "headers" ELSE "emit"
                [] OTHER                              -> IF pass THEN "fixed" ELSE "body"
  IN /\ left' = IF f.framing = "length" THEN f.len ELSE 0
     /\ \/ pass /\ head' = <<>> /\ Write(head \o <<CRLF>>, next)
        \/ ~pass /\ phase' = next /\ UNCHANGED <<head, out>>

ReadHeaderLine ==
  /\ phase = "headers"
  /\ \E k \in pos..sent :
       /\ LineTo(k)
       /\ pos' = k
       /\ \/ Line(k) = <<>> /\ phase' = "done" /\ UNCHANGED <<head, left, out>>
          \/ Line(k) = <<CRLF>> /\ EndOfHeaders
          \/ /\ Line(k) \notin {<<>>, <<CRLF>>}
             /\ head' = head \o Line(k)
             /\ UNCHANGED <<phase, left, out>>
  /\ UNCHANGED <<envVars, buf>>

\* No Content-Length and no chunks: io::copy until the origin closes.
CopyStream ==
  /\ phase = "stream"
  /\ \/ Available /\ pos' = pos + 1 /\ Write(<<Next1>>, "stream")
     \/ Eof /\ phase' = "done" /\ UNCHANGED <<pos, out>>
  /\ UNCHANGED <<envVars, head, left, buf>>

\* Pass a body of known length through; the end of the stream ends the loop.
CopyFixed ==
  /\ phase = "fixed"
  /\ \/ /\ Available
        /\ pos' = pos + 1
        /\ left' = left - 1
        /\ Write(<<Next1>>, Counted("headers"))
     \/ Eof /\ phase' = "headers" /\ UNCHANGED <<pos, left, out>>
  /\ UNCHANGED <<envVars, head, buf>>

\* read_exact of a text body of known length
ReadBody ==
  /\ phase = "body"
  /\ \/ /\ Available
        /\ pos' = pos + 1
        /\ left' = left - 1
        /\ buf' = Append(buf, Next1)
        /\ phase' = Counted("emit")
     \/ UnexpectedEof /\ UNCHANGED <<pos, left, buf>>
  /\ UNCHANGED <<envVars, head, out>>

\* The body is complete: headers and rewritten body go out.  The length is
\* corrected when the rewriting changed it.
Emit ==
  /\ phase = "emit"
  /\ LET body == Rewrite(buf)
         lines == IF Len(body) = Len(buf) THEN head ELSE UpdateContentLength(head, Len(body))
     IN Write(lines \o <<CRLF>> \o (IF Chunked(Parsed(head)) THEN WriteChunkedBody(body) ELSE body),
              "headers")
  /\ head' = <<>>
  /\ buf' = <<>>
  /\ UNCHANGED <<envVars, pos, left>>

-----------------------------------------------------------------------------
(* pass_through_chunked, and read_chunked_body when Rewriting.             *)

BodyEnd == IF Rewriting THEN "emit" ELSE "headers"

\* Passed through at once, or kept back.
Pass(tokens, next) ==
  \/ ~Rewriting /\ Write(tokens, next)
  \/ Rewriting /\ phase' = next /\ UNCHANGED out

\* vec![0u8; chunk_size] panics for more than isize::MAX.
Unallocated(n) == 2 * n >= Usize

\* A size line; the end of the stream counts as the end of the body, and a line
\* that is not a size is an error.  The sum is computed in usize, and wraps; a
\* debug build panics there.
AfterSize(line) ==
  LET n == line[1][2]
      tooLarge == (Len(buf) + n) % Usize > MaxBody
  IN CASE line[1][1] # "size"            -> "failed"
       [] line[1][1] = "size" /\ n = 0 -> "trailer"
       [] OTHER                         ->
            IF Rewriting /\ (tooLarge \/ Unallocated(n)) THEN "failed" ELSE "chunk"

ReadSize ==
  /\ phase = "size"
  /\ \E k \in pos..sent :
       /\ LineTo(k)
       /\ pos' = k
       /\ \/ Line(k) = <<>> /\ phase' = BodyEnd /\ UNCHANGED <<left, out>>
          \/ /\ Line(k) # <<>>
             /\ Pass(Line(k), AfterSize(Line(k)))
             /\ left' = IF AfterSize(Line(k)) = "chunk" THEN Line(k)[1][2] ELSE 0
  /\ UNCHANGED <<envVars, head, buf>>

ReadChunk ==
  /\ phase = "chunk"
  /\ \/ /\ Available
        /\ pos' = pos + 1
        /\ left' = left - 1
        /\ Pass(<<Next1>>, Counted("crlf"))
        /\ buf' = IF Rewriting THEN Append(buf, Next1) ELSE buf
     \/ UnexpectedEof /\ UNCHANGED <<pos, left, buf, out>>
  /\ UNCHANGED <<envVars, head>>

\* read_exact of the CRLF after a chunk, whatever its bytes are
ReadChunkEnd ==
  /\ phase = "crlf"
  /\ \/ Available /\ pos' = pos + 1 /\ Pass(<<Next1>>, "size")
     \/ UnexpectedEof /\ UNCHANGED <<pos, out>>
  /\ UNCHANGED <<envVars, head, left, buf>>

\* mutant of ReadTrailer: reads trailers to the end of the stream
ReadTrailersToEnd ==
  /\ phase = "trailer"
  /\ origin = "closed"
  /\ pos' = sent
  /\ Pass(Line(sent), BodyEnd)
  /\ UNCHANGED <<envVars, head, left, buf>>

\* mutant of ReadTrailer: writes the empty line that it takes for granted
ReadTrailerNormalised ==
  /\ phase = "trailer"
  /\ \E k \in pos..sent : LineTo(k) /\ pos' = k /\ Pass(<<CRLF>>, BodyEnd)
  /\ UNCHANGED <<envVars, head, left, buf>>

\* After the last chunk exactly one more line is read.
ReadTrailer ==
  /\ phase = "trailer"
  /\ \E k \in pos..sent : LineTo(k) /\ pos' = k /\ Pass(Line(k), BodyEnd)
  /\ UNCHANGED <<envVars, head, left, buf>>

\* A read fails: the origin's end was reset.
ReadFails ==
  /\ phase \notin {"emit", "done", "failed"}
  /\ origin = "reset"
  /\ phase' = "failed"
  /\ UNCHANGED <<envVars, pos, head, left, buf, out>>

-----------------------------------------------------------------------------
(* The peers.                                                              *)

relayVars == <<phase, pos, head, left, buf, out>>

OriginSend ==
  /\ origin = "open"
  /\ sent < Len(wire)
  /\ sent' = sent + 1
  /\ UNCHANGED <<script, wire, origin, client, relayVars>>

OriginEnd ==
  /\ origin = "open"
  /\ origin' \in {"closed", "reset"}
  /\ UNCHANGED <<script, wire, sent, client, relayVars>>

ClientLeave ==
  /\ client = "reading"
  /\ client' = "gone"
  /\ UNCHANGED <<script, wire, sent, origin, relayVars>>

RelayStep ==
  \/ ReadHeaderLine \/ CopyStream \/ CopyFixed \/ ReadBody \/ Emit
  \/ ReadSize \/ ReadChunk \/ ReadChunkEnd \/ ReadTrailer \/ ReadFails

Next == RelayStep \/ OriginSend \/ OriginEnd \/ ClientLeave

Spec == Init /\ [][Next]_vars

\* The runtime polls the task whenever its socket is ready; the peers owe nothing.
FairSpec == Spec /\ WF_vars(RelayStep)

-----------------------------------------------------------------------------
(* Properties.                                                             *)

\* A response whose URLs the relay is there to rewrite.
Rewritable(m) ==
  m.text /\ m.framing # "close" /\ ~TooLarge(m) /\ Len(Body(m)) <= MaxBody

\* Connections on which the relay knows where each response ends: bodies are
\* there and as long as announced, a chunk of size 0 is the last one, no trailers
\* follow, nothing follows what only the end of the connection delimits, and no
\* chunked text is empty or beyond the limit.
Tracked ==
  \A i \in DOMAIN script :
    LET m == script[i] IN
    /\ ~m.bodiless /\ ~m.trailer /\ ~m.huge
    /\ m.framing = "length" => m.len = Len(Body(m))
    /\ m.framing = "close" => i = Len(script)
    /\ Chunked(m) => <<>> \notin Range(m.chunks)
    /\ m.text /\ Chunked(m) => TooLarge(m) \/ Len(Body(m)) \in 1..MaxBody

\* A rewritten response; its length is what it was where the body's is.
Rewritten(m) ==
  LET body == Rewrite(Body(m)) IN
  [m EXCEPT !.chunks = <<body>>, !.trailer = FALSE,
            !.len = IF Len(body) = Len(Body(m)) THEN @ ELSE Len(body)]

\* What the client should see of the responses s: a rewritten body with headers
\* that agree with it, and everything else as it was.
Relayed(s) ==
  Stream([i \in DOMAIN s |-> IF Rewritable(s[i]) THEN Rewritten(s[i]) ELSE s[i]])

\* The responses up to the i-th, of which only j chunks are left.
CutShort(i, j) ==
  SubSeq(script, 1, i - 1)
    \o <<[script[i] EXCEPT !.chunks = SubSeq(@, 1, j), !.trailer = FALSE]>>

\* At any moment the client has seen a prefix of what it should see: responses
\* in order, each Content-Length and chunk size agreeing with the rewritten
\* body, nothing of a text response before all of it has come.  One case is
\* accepted because the code is made that way: when the origin closes where a
\* chunk size should come, what it sent passes for the whole body (lines
\* 447-450), so the client cannot tell that it was cut.
RelayedInOrder ==
  Tracked =>
    \/ IsPrefix(out, Relayed(script))
    \/ /\ origin = "closed"
       /\ \E i \in DOMAIN script : \E j \in DOMAIN script[i].chunks \cup {0} :
            /\ script[i].text /\ Chunked(script[i])
            /\ Len(Stream(CutShort(i, j))) = sent + 2
            /\ IsPrefix(out, Relayed(CutShort(i, j)))

\* README.md:47 "Rewrites URLs in response bodies on the fly, replacing the
\* remote server's address with the local proxy address": if every response
\* that names the origin's URL is one the code rewrites, the URL never reaches
\* the client (lines 362-364).
UrlsRewritten ==
  (\A i \in DOMAIN script :
     (\E j \in DOMAIN Body(script[i]) : UrlAt(Body(script[i]), j)) => Rewritable(script[i]))
  => ~\E i \in DOMAIN out : UrlAt(out, i)

\* The relay never sets aside more than MAX_REWRITABLE_BODY_SIZE for a body and
\* the part of it that it is about to read, however the body is framed and
\* whatever sizes are announced (lines 315, 353, 463 and 474).
BufferBounded ==
  /\ Len(buf) <= MaxBody
  /\ phase = "body" \/ (phase = "chunk" /\ Rewriting) => Len(buf) + left <= MaxBody

\* On a connection that carries no text response the relay is transparent to
\* the last byte, even where it loses track of where responses begin: after an
\* answer without its body, or after trailers (lines 322-347 and 392-436).
ByteTransparent ==
  (\A i \in DOMAIN script : ~script[i].text) => IsPrefix(out, wire)

Came(i)  == i <= Len(script) /\ sent >= Len(Stream(SubSeq(script, 1, i)))
Shown(i) == i <= Len(script) /\ Len(out) >= Len(Relayed(SubSeq(script, 1, i)))

\* A response that the origin has sent completely reaches the client without
\* another byte from the origin, which may keep the connection open: the relay
\* never waits for more than the response (lines 334-341, 352-354, 408-414).
KeepAliveDelivers ==
  Tracked =>
    \A i \in 1..2 : Came(i) ~> Shown(i) \/ origin = "reset" \/ client = "gone"

\* The task ends when the origin has closed or reset its end, wherever in a
\* response that is: handle_conn can go on and release the permit.
RelayEnds == (origin # "open") ~> (phase \in {"done", "failed"})

\* tcp_proxy.rs:15 "Bodies larger than this will be passed through without
\* rewriting to prevent OOM": no response is refused, so as long as both ends
\* are there the relay does not fail.
NothingRefused == (origin = "open" /\ client = "reading") => phase # "failed"
=============================================================================
