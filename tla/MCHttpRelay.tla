---------------------------- MODULE MCHttpRelay ----------------------------
(* Small instances of HttpRelay for TLC.                                   *)
EXTENDS HttpRelay

Text == Unit("text")
Url  == <<Scheme, Host>>

ShortUrl == <<Unit("proxy")>>
LongUrl  == <<Unit("proxy"), Unit("port"), Unit("port")>>

Response(text, framing, chunks) ==
  [text |-> text, framing |-> framing, len |-> Len(FlattenSeq(chunks)), chunks |-> chunks,
   bodiless |-> FALSE, trailer |-> FALSE, huge |-> FALSE]
Declared(m, n) == [m EXCEPT !.len = n]
Huge(m) == [m EXCEPT !.huge = TRUE]
WithoutBody(m) == [m EXCEPT !.bodiless = TRUE]
WithTrailer(m) == [m EXCEPT !.trailer = TRUE]

\* With MaxBody = 4: bodies with no URL, one, two, one that a chunk boundary
\* cuts, one that is broken, an invalid byte; at the limit and beyond it.
OneChunk == {<<>>, <<<<Text>>>>, <<Url>>, <<Url \o Url>>, <<<<Host, Scheme>>>>,
             <<<<Unit("badbyte")>> \o Url>>}
TwoChunks == {<<<<Text, Scheme>>, <<Host>>>>, <<<<Text, Text>>, Url>>}
Large == <<<<Text>> \o Url \o Url>>

TextResponses ==
  {Response(TRUE, "length", c) : c \in OneChunk \cup {Large}}
    \cup {Response(TRUE, "chunked", c) : c \in (OneChunk \ {<<>>}) \cup TwoChunks}

MediaResponses ==
  {Response(FALSE, "length", c) : c \in {<<>>, <<Url>>, Large}}
    \cup {Response(FALSE, "chunked", c) : c \in {<<>>, <<Url>>, <<<<Text, Scheme>>, <<Host>>>>}}

\* Length and chunks at once: a length that is right, too small, beyond the limit.
BothResponses ==
  {Declared(Response(t, "both", <<Url>>), n) : t \in BOOLEAN, n \in {1, 2, 5}}
    \cup {Response(TRUE, "both", <<<<Text>>>>)}

StreamResponses == {Response(t, "close", <<Url>>) : t \in BOOLEAN}

\* Well-formed connections: up to two responses, the last of which may be one
\* that only the end of the connection delimits.
Connections ==
  LET delimited == TextResponses \cup MediaResponses \cup BothResponses
      second == {Response(t, f, <<Url>>) : t \in BOOLEAN, f \in {"length", "chunked", "close"}}
                  \cup {Response(TRUE, "length", Large),
                        Response(TRUE, "chunked", <<<<Text, Scheme>>, <<Host>>>>)}
  IN {<<m>> : m \in delimited \cup StreamResponses}
       \cup {<<m, n>> : m \in delimited, n \in second}

\* Connections on which the relay loses track: answers without the body they
\* declare, trailers, chunked text that is empty, beyond the limit, or beyond
\* what memory can hold.
Puzzling ==
  {WithoutBody(Response(t, "length", c)) : t \in BOOLEAN, c \in {<<Url>>, Large}}
    \cup {WithTrailer(Response(t, "chunked", <<Url>>)) : t \in BOOLEAN}
    \cup {WithoutBody(Response(t, "chunked", <<>>)) : t \in BOOLEAN}
    \cup {Response(TRUE, "chunked", <<Url, <<Text>>, Url>>)}
    \cup {Huge(Response(t, "chunked", <<Url>>)) : t \in BOOLEAN}
    \cup {Response(TRUE, "chunked", <<>>)}

PuzzlingConnections ==
  LET texts == {Response(TRUE, "length", <<Url>>), Response(TRUE, "chunked", <<Url>>)}
      media == {Response(FALSE, f, <<Url>>) : f \in {"length", "chunked"}}
  IN {<<m, n>> : m \in Puzzling, n \in texts \cup media}
       \cup {<<m, n, o>> : m \in Puzzling, n \in media, o \in texts \cup media}

AllConnections == Connections \cup PuzzlingConnections

\* A HEAD of a media file, and a description on the same connection.
HeadThenDescription ==
  {<<WithoutBody(Response(FALSE, "length", <<<<Text, Text, Text, Text>>>>)),
     Response(TRUE, "length", <<Url>>)>>}

\* A chunked text response beyond the limit.
LargeText == {<<Response(TRUE, "chunked", <<Url, <<Text>>, Url>>)>>}
=============================================================================
