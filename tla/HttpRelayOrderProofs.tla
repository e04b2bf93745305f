------------------------ MODULE HttpRelayOrderProofs ------------------------
(***************************************************************************)
(* What the client sees is a prefix of the rewritten responses, for any    *)
(* connection on which the relay knows where each response ends.  The      *)
(* invariant says in which response the relay is, at which token of it,    *)
(* and that what was written is the rewriting of what came before.         *)
(***************************************************************************)
EXTENDS HttpRelayProofs

-----------------------------------------------------------------------------
(* The tokens of a response, and where each of them is.                    *)

\* What the relay makes of a response.
RelayedAs(m) == IF Rewritable(m) THEN Rewritten(m) ELSE m

\* The tokens of every response, as the origin sends and as the client sees them.
Sent(s) == [i \in DOMAIN s |-> Encode(s[i])]
Seen(s) == [i \in DOMAIN s |-> Encode(RelayedAs(s[i]))]

\* The tokens before the response after the i-th, and what the client should see
\* of the first i responses.
Start(s, i) == Len(Joined(Sent(s), i))
Done(s, i)  == Joined(Seen(s), i)

\* A response of its header, its body and nothing else, and one of these the end
\* of which the relay finds.
Whole(m) == m \in Responses /\ ~m.bodiless /\ ~m.trailer /\ ~m.huge
Plain(m) ==
  /\ Whole(m)
  /\ m.framing = "length" => m.len = Len(Body(m))
  /\ Chunked(m) => <<>> \notin Range(m.chunks)
  /\ m.text /\ Chunked(m) => TooLarge(m) \/ Len(Body(m)) \in 1..MaxBody

\* The header of a response, and the tokens before the size line that follows
\* its first j chunks.
HeadOf(m)      == <<Fields(SentFields(m))>>
ChunkTokens(m) == [c \in DOMAIN m.chunks |-> Chunk(m.chunks[c])]
At(m, j)       == 2 + Len(Joined(ChunkTokens(m), j))

\* Responses are responses again once their URLs are replaced.
LEMMA RelayedAsType ==
  ASSUME NEW m \in Responses
  PROVE  RelayedAs(m) \in Responses
<1> DEFINE body == Rewrite(Body(m))
           length == IF Len(body) = Len(Body(m)) THEN m.len ELSE Len(body)
<1>1. m.chunks \in Seq(Seq(Units)) /\ m.len \in Nat
  BY DEF Responses
<1>2. body \in Seq(Units)
  BY <1>1, FlattenSeqType, RewriteType DEF Body
<1>3. Len(body) \in Nat /\ <<body>> \in Seq(Seq(Units))
  BY <1>2, LenProperties, SingletonSeq
<1>4. length \in Nat
  BY <1>1, <1>3
<1>5. Rewritten(m) = [m EXCEPT !.chunks = <<body>>, !.trailer = FALSE, !.len = length]
  BY DEF Rewritten, body, length
<1> HIDE DEF body, length
<1>6. Rewritten(m) \in Responses
  BY <1>3, <1>4, <1>5 DEF Responses
<1> QED BY <1>6 DEF RelayedAs

\* It does not matter in which order parts of a body are put together.
LEMMA UnitsRegroup ==
  ASSUME NEW s \in Seq(Units), NEW t \in Seq(Units), NEW u \in Seq(Units)
  PROVE  (s \o t) \o u = s \o (t \o u)
BY Regroup

\* The tokens of a response are tokens.
LEMMA ResponseTokens ==
  ASSUME NEW m \in Responses
  PROVE  Encode(m) \in Seq(Tokens)
<1>1. Fields(SentFields(m)) \in Tokens
  BY SentFieldsType, TokenFacts
<1> QED BY <1>1, EncodeType, TokenFacts

\* Both sequences are joined from the tokens of each response.
LEMMA ResponsesJoined ==
  ASSUME NEW s \in Seq(Responses)
  PROVE  /\ Sent(s) \in Seq(Seq(Tokens)) /\ Seen(s) \in Seq(Seq(Tokens))
         /\ Len(Sent(s)) = Len(s) /\ Len(Seen(s)) = Len(s) /\ Len(s) \in Nat
         /\ \A i \in 1..Len(s) : /\ s[i] \in Responses
                                 /\ Sent(s)[i] = Encode(s[i])
                                 /\ Seen(s)[i] = Encode(RelayedAs(s[i]))
         /\ Stream(s) = FlattenSeq(Sent(s))
         /\ Relayed(s) = FlattenSeq(Seen(s))
<1>1. /\ DOMAIN s = 1..Len(s) /\ Len(s) \in Nat
      /\ \A i \in 1..Len(s) : s[i] \in Responses
  BY LenProperties, ElementOfSeq
<1>2. \A i \in 1..Len(s) : /\ Encode(s[i]) \in Seq(Tokens)
                           /\ Encode(RelayedAs(s[i])) \in Seq(Tokens)
  BY <1>1, ResponseTokens, RelayedAsType
<1>3. /\ Sent(s) \in [1..Len(s) -> Seq(Tokens)]
      /\ Seen(s) \in [1..Len(s) -> Seq(Tokens)]
      /\ \A i \in 1..Len(s) : /\ Sent(s)[i] = Encode(s[i])
                              /\ Seen(s)[i] = Encode(RelayedAs(s[i]))
  BY <1>1, <1>2 DEF Sent, Seen
<1>4. Sent(s) \in Seq(Seq(Tokens)) /\ Seen(s) \in Seq(Seq(Tokens))
  BY <1>1, <1>3, FunctionIsSeq
<1>5. Len(Sent(s)) = Len(s) /\ Len(Seen(s)) = Len(s)
  <2>1. DOMAIN Sent(s) = 1..Len(s) /\ DOMAIN Seen(s) = 1..Len(s)
    BY <1>3
  <2> QED BY <1>1, <1>4, <2>1, LenProperties
<1>6. Stream(s) = FlattenSeq(Sent(s))
  BY DEF Stream, Sent
<1>7. Relayed(s) = FlattenSeq(Seen(s))
  <2> DEFINE t == [i \in DOMAIN s |-> IF Rewritable(s[i]) THEN Rewritten(s[i]) ELSE s[i]]
  <2>1. DOMAIN t = DOMAIN s /\ \A i \in DOMAIN s : t[i] = RelayedAs(s[i])
    BY DEF RelayedAs
  <2>2. Relayed(s) = Stream(t)
    BY DEF Relayed
  <2> HIDE DEF t
  <2>3. [i \in DOMAIN t |-> Encode(t[i])] = Seen(s)
    BY <2>1 DEF Seen
  <2> QED BY <2>2, <2>3 DEF Stream
<1> QED BY <1>1, <1>3, <1>4, <1>5, <1>6, <1>7

\* The responses of a connection on which the relay does not lose track.
LEMMA TrackedArePlain ==
  ASSUME script \in Scripts, Tracked
  PROVE  /\ script \in Seq(Responses)
         /\ \A i \in 1..Len(script) :
              Plain(script[i]) /\ (script[i].framing = "close" => i = Len(script))
<1>1. script \in Seq(Responses) /\ DOMAIN script = 1..Len(script)
  BY ScriptsAssumption, LenProperties
<1>2. ASSUME NEW i \in 1..Len(script)
      PROVE  Plain(script[i]) /\ (script[i].framing = "close" => i = Len(script))
  <2>1. script[i] \in Responses
    BY <1>1, ElementOfSeq
  <2>2. /\ ~script[i].bodiless /\ ~script[i].trailer /\ ~script[i].huge
        /\ script[i].framing = "length" => script[i].len = Len(Body(script[i]))
        /\ script[i].framing = "close" => i = Len(script)
        /\ Chunked(script[i]) => <<>> \notin Range(script[i].chunks)
        /\ script[i].text /\ Chunked(script[i]) =>
             TooLarge(script[i]) \/ Len(Body(script[i])) \in 1..MaxBody
    BY <1>1 DEF Tracked
  <2> QED BY <2>1, <2>2 DEF Plain, Whole
<1> QED BY <1>1, <1>2

\* Where a response begins and ends in the stream, and the tokens between.
LEMMA TokenOf ==
  ASSUME NEW s \in Seq(Responses), NEW i \in 0..Len(s), i < Len(s)
  PROVE  /\ s[i + 1] \in Responses /\ Encode(s[i + 1]) \in Seq(Tokens)
         /\ Start(s, i) \in Nat /\ Len(Encode(s[i + 1])) \in Nat
         /\ Start(s, i + 1) = Start(s, i) + Len(Encode(s[i + 1]))
         /\ \A k \in 1..Len(Encode(s[i + 1])) :
              /\ Stream(s)[Start(s, i) + k] = Encode(s[i + 1])[k]
              /\ Start(s, i) + k \in 1..Len(Stream(s))
<1>1. i + 1 \in 1..Len(s)
  BY LenProperties
<1>2. /\ Sent(s) \in Seq(Seq(Tokens)) /\ Len(Sent(s)) = Len(s)
      /\ s[i + 1] \in Responses /\ Sent(s)[i + 1] = Encode(s[i + 1])
      /\ Stream(s) = FlattenSeq(Sent(s))
  BY <1>1, ResponsesJoined
<1>3. /\ Encode(s[i + 1]) \in Seq(Tokens)
      /\ Start(s, i) \in Nat
      /\ Start(s, i + 1) = Start(s, i) + Len(Encode(s[i + 1]))
  BY <1>2, JoinedParts DEF Start
<1>4. \A k \in 1..Len(Encode(s[i + 1])) :
        /\ Stream(s)[Start(s, i) + k] = Encode(s[i + 1])[k]
        /\ Start(s, i) + k \in 1..Len(Stream(s))
  BY <1>2, JoinedAt DEF Start
<1> QED BY <1>2, <1>3, <1>4, LenProperties

\* The end of the stream is the end of the last response.
LEMMA StreamEnds ==
  ASSUME NEW s \in Seq(Responses)
  PROVE  Start(s, Len(s)) = Len(Stream(s)) /\ Start(s, 0) = 0 /\ Done(s, 0) = <<>>
<1>1. /\ Sent(s) \in Seq(Seq(Tokens)) /\ Len(Sent(s)) = Len(s)
      /\ Seen(s) \in Seq(Seq(Tokens)) /\ Stream(s) = FlattenSeq(Sent(s))
  BY ResponsesJoined
<1>2. Joined(Sent(s), Len(s)) = Stream(s) /\ Joined(Sent(s), 0) = <<>> /\ Done(s, 0) = <<>>
  BY <1>1, JoinedParts DEF Done
<1> QED BY <1>2, EmptySeq DEF Start

\* What the client should see of the first responses, it should see first; and so
\* it is with the beginning of one that is passed on as it is.
LEMMA DoneIsSeen ==
  ASSUME NEW s \in Seq(Responses), NEW i \in 0..Len(s)
  PROVE  /\ Done(s, i) \in Seq(Tokens) /\ IsPrefix(Done(s, i), Relayed(s))
         /\ Relayed(s) \in Seq(Tokens)
         /\ i < Len(s) =>
              /\ Done(s, i + 1) = Done(s, i) \o Encode(RelayedAs(s[i + 1]))
              /\ \A t \in Seq(Tokens) : IsPrefix(t, Encode(RelayedAs(s[i + 1]))) =>
                   IsPrefix(Done(s, i) \o t, Relayed(s))
<1>1. /\ Seen(s) \in Seq(Seq(Tokens)) /\ Len(Seen(s)) = Len(s)
      /\ Relayed(s) = FlattenSeq(Seen(s))
      /\ \A j \in 1..Len(s) : Seen(s)[j] = Encode(RelayedAs(s[j]))
  BY ResponsesJoined
<1>2. /\ Done(s, i) \in Seq(Tokens) /\ IsPrefix(Done(s, i), Relayed(s))
      /\ Relayed(s) \in Seq(Tokens)
  BY <1>1, JoinedParts, JoinedIsPrefix, FlattenSeqType DEF Done
<1>3. ASSUME i < Len(s)
      PROVE  /\ Done(s, i + 1) = Done(s, i) \o Encode(RelayedAs(s[i + 1]))
             /\ Done(s, i + 1) \in Seq(Tokens) /\ IsPrefix(Done(s, i + 1), Relayed(s))
             /\ Encode(RelayedAs(s[i + 1])) \in Seq(Tokens)
  <2>1. i + 1 \in 1..Len(s) /\ i + 1 \in 0..Len(s)
    BY <1>3, LenProperties
  <2>2. Seen(s)[i + 1] \in Seq(Tokens) /\ Joined(Seen(s), i + 1) = Joined(Seen(s), i) \o Seen(s)[i + 1]
    BY <1>1, <1>3, JoinedParts
  <2> QED BY <1>1, <2>1, <2>2, JoinedParts, JoinedIsPrefix DEF Done
<1>4. ASSUME i < Len(s), NEW t \in Seq(Tokens), IsPrefix(t, Encode(RelayedAs(s[i + 1])))
      PROVE  IsPrefix(Done(s, i) \o t, Relayed(s))
  <2>1. IsPrefix(Done(s, i) \o t, Done(s, i + 1))
    BY <1>2, <1>3, <1>4, PrefixAfter
  <2>2. Done(s, i) \o t \in Seq(Tokens)
    BY <1>2, ConcatProperties
  <2> QED BY <1>2, <1>3, <1>4, <2>1, <2>2, PrefixOfPrefix
<1> QED BY <1>2, <1>3, <1>4

\* A chunk is its size, its units and a CRLF.
LEMMA InChunk ==
  ASSUME NEW c \in Seq(Units)
  PROVE  /\ Chunk(c) \in Seq(Tokens) /\ Len(Chunk(c)) = Len(c) + 2 /\ Len(c) \in Nat
         /\ Chunk(c)[1] = Size(Len(c)) /\ Chunk(c)[Len(c) + 2] = CRLF
         /\ \A u \in 1..Len(c) : Chunk(c)[1 + u] = c[u] /\ c[u] \in Units
<1> DEFINE a == <<Size(Len(c))>>
           z == <<CRLF>>
<1>1. Len(c) \in Nat /\ c \in Seq(Tokens) /\ \A u \in 1..Len(c) : c[u] \in Units
  BY LenProperties, TokenFacts, SeqMonotonic, ElementOfSeq
<1>2. /\ a \in Seq(Tokens) /\ Len(a) = 1 /\ a[1] = Size(Len(c))
      /\ z \in Seq(Tokens) /\ Len(z) = 1 /\ z[1] = CRLF
  BY <1>1, TokenFacts, SingletonSeq
<1>3. Chunk(c) = (a \o c) \o z
  BY DEF Chunk
<1> HIDE DEF a, z
<1>5. /\ Chunk(c) = a \o (c \o z)
      /\ a \o (c \o z) \in Seq(Tokens)
      /\ Len(a \o (c \o z)) = Len(a) + Len(c) + Len(z)
      /\ \A k \in 1..Len(a) : (a \o (c \o z))[k] = a[k]
      /\ \A k \in 1..Len(c) : (a \o (c \o z))[Len(a) + k] = c[k]
      /\ \A k \in 1..Len(z) : (a \o (c \o z))[Len(a) + Len(c) + k] = z[k]
  <2>1. a \in Seq(Tokens) /\ c \in Seq(Tokens) /\ z \in Seq(Tokens)
    BY <1>1, <1>2
  <2>2. (a \o c) \o z = a \o (c \o z)
    BY <2>1, Regrouped, Zenon
  <2>3. /\ a \o (c \o z) \in Seq(Tokens)
        /\ Len(a \o (c \o z)) = Len(a) + Len(c) + Len(z)
        /\ \A k \in 1..Len(a) : (a \o (c \o z))[k] = a[k]
    BY <2>1, InThree
  <2>4. \A k \in 1..Len(c) : (a \o (c \o z))[Len(a) + k] = c[k]
    BY <2>1, InThree
  <2>5. \A k \in 1..Len(z) : (a \o (c \o z))[Len(a) + Len(c) + k] = z[k]
    BY <2>1, InThree
  <2> QED BY <1>3, <2>2, <2>3, <2>4, <2>5
<1>6. Len(a) + Len(c) + 1 = Len(c) + 2 /\ Len(a) + Len(c) + Len(z) = Len(c) + 2
      /\ 1 \in 1..Len(z) /\ 1 \in 1..Len(a)
  BY <1>1, <1>2
<1>7. Chunk(c)[1] = Size(Len(c)) /\ Chunk(c)[Len(c) + 2] = CRLF
  BY <1>2, <1>5, <1>6
<1>8. \A u \in 1..Len(c) : Chunk(c)[1 + u] = c[u]
  BY <1>2, <1>5
<1> QED BY <1>1, <1>5, <1>6, <1>7, <1>8

\* The header of a response, and the empty line after it.
LEMMA HeaderTokens ==
  ASSUME NEW m, Whole(m)
  PROVE  /\ HeadOf(m) \in Seq(Tokens) /\ Len(HeadOf(m)) = 1
         /\ HeadOf(m) \o <<CRLF>> \in Seq(Tokens) /\ Len(HeadOf(m) \o <<CRLF>>) = 2
         /\ Encode(m) \in Seq(Tokens) /\ Len(Encode(m)) \in Nat /\ Len(Encode(m)) >= 2
         /\ Encode(m)[1] = Fields(SentFields(m)) /\ Encode(m)[2] = CRLF
         /\ SubSeq(Encode(m), 1, 1) = HeadOf(m)
         /\ SubSeq(Encode(m), 1, 2) = HeadOf(m) \o <<CRLF>>
         /\ Encode(m) = HeadOf(m) \o <<CRLF>> \o
                        (IF Chunked(m) THEN FlattenSeq(ChunkTokens(m)) \o <<Size(0), CRLF>>
                         ELSE Body(m))
<1> DEFINE body == IF Chunked(m) THEN FlattenSeq(ChunkTokens(m)) \o <<Size(0), CRLF>> ELSE Body(m)
           h == <<Fields(SentFields(m)), CRLF>>
<1>1. Fields(SentFields(m)) \in Tokens
  BY SentFieldsType, TokenFacts DEF Whole
<1>2. /\ HeadOf(m) \in Seq(Tokens) /\ Len(HeadOf(m)) = 1
      /\ HeadOf(m)[1] = Fields(SentFields(m))
      /\ h \in Seq(Tokens) /\ Len(h) = 2 /\ h[1] = Fields(SentFields(m)) /\ h[2] = CRLF
      /\ h = HeadOf(m) \o <<CRLF>>
  BY <1>1, TokenFacts DEF HeadOf
<1>3. Encode(m) = h \o body
  <2>1. (<<Size(0)>> \o <<>>) \o <<CRLF>> = <<Size(0), CRLF>>
    <3>1. <<Size(0)>> \o <<>> = <<Size(0)>>
      BY TokenFacts, SingletonSeq, ConcatEmptySeq
    <3>2. <<Size(0)>> \o <<CRLF>> = <<Size(0), CRLF>>
      <4>1. Size(0) \in Tokens /\ CRLF \in Tokens
        BY TokenFacts
      <4> QED BY <4>1, PairSeq, Zenon
    <3> QED BY <3>1, <3>2, Zenon
  <2> QED BY <2>1, Zenon DEF Encode, Whole, SentFields, ChunkTokens
<1>4. Encode(m) \in Seq(Tokens) /\ body \in Seq(Tokens)
  <2>1. Encode(m) \in Seq(Tokens) /\ m \in Responses
    BY ResponseTokens DEF Whole
  <2>2. Body(m) \in Seq(Tokens)
    BY <2>1, TokenFacts, SeqMonotonic, FlattenSeqType DEF Body, Responses
  <2>3. FlattenSeq(ChunkTokens(m)) \in Seq(Tokens)
    <3>1. /\ m.chunks \in Seq(Seq(Units)) /\ DOMAIN m.chunks = 1..Len(m.chunks)
          /\ Len(m.chunks) \in Nat /\ \A i \in 1..Len(m.chunks) : m.chunks[i] \in Seq(Units)
      BY <2>1, LenProperties, ElementOfSeq DEF Responses
    <3>2. ChunkTokens(m) \in [1..Len(m.chunks) -> Seq(Tokens)]
      BY <3>1, InChunk DEF ChunkTokens
    <3> QED BY <3>1, <3>2, FunctionIsSeq, FlattenSeqType
  <2>4. <<Size(0), CRLF>> \in Seq(Tokens)
    BY TokenFacts
  <2>5. FlattenSeq(ChunkTokens(m)) \o <<Size(0), CRLF>> \in Seq(Tokens)
    BY <2>3, <2>4, ConcatProperties
  <2> QED BY <2>1, <2>2, <2>5, Zenon
<1> HIDE DEF body, h
<1>5. /\ Len(body) \in Nat /\ Len(Encode(m)) = 2 + Len(body)
      /\ Encode(m)[1] = h[1] /\ Encode(m)[2] = h[2]
  BY <1>2, <1>3, <1>4, LenProperties, ConcatProperties
<1>6. SubSeq(Encode(m), 1, 1) = HeadOf(m) /\ SubSeq(Encode(m), 1, 2) = h
  <2> DEFINE e == Encode(m)
  <2>1. e \in Seq(Tokens) /\ Len(e) \in Nat /\ Len(e) >= 2 /\ e[1] = Fields(SentFields(m)) /\ e[2] = CRLF
    BY <1>2, <1>4, <1>5
  <2> HIDE DEF e
  <2>2. SubSeq(e, 1, 0) = <<>>
    BY SubSeqEmpty
  <2>3. SubSeq(e, 1, 1) = <<>> \o <<e[1]>>
    <3>1. 0 \in 0..Len(e) /\ 0 < Len(e) /\ 0 + 1 = 1
      BY <2>1
    <3> QED BY <2>1, <2>2, <3>1, PartAppend
  <2>4. SubSeq(e, 1, 2) = SubSeq(e, 1, 1) \o <<e[2]>>
    <3>1. 1 \in 0..Len(e) /\ 1 < Len(e) /\ 1 + 1 = 2
      BY <2>1
    <3> QED BY <2>1, <3>1, PartAppend
  <2>5. <<>> \o <<e[1]>> = HeadOf(m)
    BY <1>2, <2>1, ConcatEmptySeq DEF HeadOf
  <2> QED BY <1>2, <2>1, <2>3, <2>4, <2>5 DEF e
<1>7. Encode(m) = HeadOf(m) \o <<CRLF>> \o body
  BY <1>2, <1>3
<1>8. SubSeq(Encode(m), 1, 2) = HeadOf(m) \o <<CRLF>>
  BY <1>2, <1>6
<1>9. /\ Encode(m)[1] = Fields(SentFields(m)) /\ Encode(m)[2] = CRLF
      /\ Len(Encode(m)) \in Nat /\ Len(Encode(m)) >= 2
  BY <1>2, <1>5
<1>10. Encode(m) = HeadOf(m) \o <<CRLF>> \o
                     (IF Chunked(m) THEN FlattenSeq(ChunkTokens(m)) \o <<Size(0), CRLF>>
                      ELSE Body(m))
  BY <1>7, Zenon DEF body
<1>11. HeadOf(m) \o <<CRLF>> \in Seq(Tokens) /\ Len(HeadOf(m) \o <<CRLF>>) = 2
  BY <1>2, Zenon
<1> QED BY <1>2, <1>4, <1>6, <1>8, <1>9, <1>10, <1>11

\* The chunks of a response, as the origin cuts them and as it sends them.
LEMMA ChunksOf ==
  ASSUME NEW m, Plain(m)
  PROVE  /\ m.chunks \in Seq(Seq(Units)) /\ Len(m.chunks) \in Nat
         /\ Body(m) \in Seq(Units) /\ Len(Body(m)) \in Nat
         /\ ChunkTokens(m) \in Seq(Seq(Tokens)) /\ Len(ChunkTokens(m)) = Len(m.chunks)
         /\ \A i \in 1..Len(m.chunks) :
              /\ m.chunks[i] \in Seq(Units)
              /\ Chunked(m) => Len(m.chunks[i]) # 0
              /\ ChunkTokens(m)[i] = Chunk(m.chunks[i])
<1>1. m.chunks \in Seq(Seq(Units))
  BY DEF Plain, Whole, Responses
<1>2. /\ DOMAIN m.chunks = 1..Len(m.chunks) /\ Len(m.chunks) \in Nat
      /\ \A i \in 1..Len(m.chunks) : m.chunks[i] \in Seq(Units)
  BY <1>1, LenProperties, ElementOfSeq
<1>3. Body(m) \in Seq(Units) /\ Len(Body(m)) \in Nat
  BY <1>1, FlattenSeqType, LenProperties DEF Body
<1>4. /\ ChunkTokens(m) \in [1..Len(m.chunks) -> Seq(Tokens)]
      /\ \A i \in 1..Len(m.chunks) : ChunkTokens(m)[i] = Chunk(m.chunks[i])
  BY <1>2, InChunk DEF ChunkTokens
<1>5. ChunkTokens(m) \in Seq(Seq(Tokens)) /\ Len(ChunkTokens(m)) = Len(m.chunks)
  <2>1. ChunkTokens(m) \in Seq(Seq(Tokens)) /\ DOMAIN ChunkTokens(m) = 1..Len(m.chunks)
    BY <1>2, <1>4, FunctionIsSeq
  <2> QED BY <1>2, <2>1, LenProperties
<1>6. ASSUME NEW i \in 1..Len(m.chunks), Chunked(m)
      PROVE  Len(m.chunks[i]) # 0
  <2>1. m.chunks[i] \in Range(m.chunks)
    BY <1>2 DEF Range
  <2>2. m.chunks[i] # <<>>
    BY <1>6, <2>1 DEF Plain
  <2> QED BY <1>2, <2>2, EmptySeq
<1> QED BY <1>1, <1>2, <1>3, <1>4, <1>5, <1>6

\* Where the tokens of a chunked response are: behind its header the size line,
\* the units and the CRLF of each chunk, and the last chunk.
LEMMA ChunkedTokens ==
  ASSUME NEW m, Plain(m), Chunked(m)
  PROVE  /\ At(m, 0) = 2
         /\ \A j \in 0..Len(m.chunks) : At(m, j) \in Nat /\ At(m, j) + 2 <= Len(Encode(m))
         /\ \A j \in 0..Len(m.chunks) : j < Len(m.chunks) =>
              /\ At(m, j + 1) = At(m, j) + Len(m.chunks[j + 1]) + 2
              /\ Encode(m)[At(m, j) + 1] = Size(Len(m.chunks[j + 1]))
              /\ Encode(m)[At(m, j + 1)] = CRLF
              /\ \A u \in 1..Len(m.chunks[j + 1]) :
                   Encode(m)[At(m, j) + 1 + u] = m.chunks[j + 1][u]
         /\ At(m, Len(m.chunks)) + 2 = Len(Encode(m))
         /\ Encode(m)[At(m, Len(m.chunks)) + 1] = Size(0)
         /\ Encode(m)[At(m, Len(m.chunks)) + 2] = CRLF
<1> DEFINE n == Len(m.chunks)
           C == ChunkTokens(m)
           h == HeadOf(m) \o <<CRLF>>
           z == <<Size(0), CRLF>>
           all == FlattenSeq(C)
<1>1. /\ n \in Nat /\ C \in Seq(Seq(Tokens)) /\ Len(C) = n
      /\ \A i \in 1..n : m.chunks[i] \in Seq(Units) /\ C[i] = Chunk(m.chunks[i])
  BY ChunksOf
<1>2. /\ h \in Seq(Tokens) /\ Len(h) = 2 /\ all \in Seq(Tokens) /\ Len(all) \in Nat
      /\ z \in Seq(Tokens) /\ Len(z) = 2 /\ z[1] = Size(0) /\ z[2] = CRLF
  <2>3. h \in Seq(Tokens) /\ Len(h) = 2
    BY HeaderTokens DEF Plain
  <2>4. all \in Seq(Tokens) /\ Len(all) \in Nat
    BY <1>1, FlattenSeqType, LenProperties
  <2>5. z \in Seq(Tokens) /\ Len(z) = 2 /\ z[1] = Size(0) /\ z[2] = CRLF
    BY TokenFacts
  <2> QED BY <2>3, <2>4, <2>5
<1>3. Encode(m) = h \o (all \o z)
  <2>1. Encode(m) = h \o (IF Chunked(m) THEN all \o z ELSE Body(m))
    BY HeaderTokens, Zenon DEF Plain
  <2> QED BY <2>1
<1>4. \A j \in 0..n : /\ At(m, j) = 2 + Len(Joined(C, j)) /\ Len(Joined(C, j)) \in Nat
                      /\ Len(Joined(C, j)) <= Len(all)
  <2>1. \A j \in 0..n : Len(Joined(C, j)) \in Nat /\ IsPrefix(Joined(C, j), all)
    BY <1>1, JoinedParts, JoinedIsPrefix
  <2> QED BY <2>1 DEF At, IsPrefix
<1>5. /\ Joined(C, 0) = <<>> /\ Joined(C, n) = all
      /\ \A j \in 0..n : j < n => Len(Joined(C, j + 1)) = Len(Joined(C, j)) + Len(C[j + 1])
  BY <1>1, JoinedParts
<1>6. \A j \in 0..n : j < n =>
        \A k \in 1..Len(C[j + 1]) : /\ all[Len(Joined(C, j)) + k] = C[j + 1][k]
                                    /\ Len(Joined(C, j)) + k \in 1..Len(all)
  BY <1>1, JoinedAt
<1> HIDE DEF C, h, z, all
<1>7. /\ Len(Encode(m)) = 2 + Len(all) + 2
      /\ \A k \in 1..Len(all) : Encode(m)[2 + k] = all[k]
      /\ \A k \in 1..2 : Encode(m)[2 + Len(all) + k] = z[k]
  <2>1. h \in Seq(Tokens) /\ all \in Seq(Tokens) /\ z \in Seq(Tokens)
    BY <1>2
  <2>2. /\ Len(h \o (all \o z)) = Len(h) + Len(all) + Len(z)
        /\ \A k \in 1..Len(all) : (h \o (all \o z))[Len(h) + k] = all[k]
    BY <2>1, InThree
  <2>3. \A k \in 1..Len(z) : (h \o (all \o z))[Len(h) + Len(all) + k] = z[k]
    BY <2>1, InThree
  <2> QED BY <1>2, <1>3, <2>2, <2>3
<1>8. At(m, n) + 2 = Len(Encode(m)) /\ At(m, n) = 2 + Len(all)
  <2>1. n \in 0..n
    BY <1>1
  <2>2. At(m, n) = 2 + Len(all)
    BY <1>4, <1>5, <2>1
  <2> QED BY <1>2, <1>7, <2>2
<1>9. Encode(m)[At(m, n) + 1] = Size(0) /\ Encode(m)[At(m, n) + 2] = CRLF
  BY <1>2, <1>7, <1>8
<1>10. At(m, 0) = 2
  <2>1. 0 \in 0..n /\ Len(<<>>) = 0
    BY <1>1, EmptySeq
  <2> QED BY <1>4, <1>5, <2>1
<1>11. \A j \in 0..n : At(m, j) \in Nat /\ At(m, j) + 2 <= Len(Encode(m))
  BY <1>2, <1>4, <1>7
<1>12. ASSUME NEW j \in 0..n, j < n
       PROVE  /\ At(m, j + 1) = At(m, j) + Len(m.chunks[j + 1]) + 2
              /\ Encode(m)[At(m, j) + 1] = Size(Len(m.chunks[j + 1]))
              /\ Encode(m)[At(m, j + 1)] = CRLF
              /\ \A u \in 1..Len(m.chunks[j + 1]) :
                   Encode(m)[At(m, j) + 1 + u] = m.chunks[j + 1][u]
  <2> DEFINE c == m.chunks[j + 1]
  <2>1. j + 1 \in 0..n /\ j + 1 \in 1..n
    BY <1>1, <1>12
  <2>2. c \in Seq(Units) /\ C[j + 1] = Chunk(c)
    BY <1>1, <2>1
  <2> HIDE DEF c
  <2>3. /\ Len(c) \in Nat /\ Len(C[j + 1]) = Len(c) + 2
        /\ C[j + 1][1] = Size(Len(c)) /\ C[j + 1][Len(c) + 2] = CRLF
        /\ \A u \in 1..Len(c) : C[j + 1][1 + u] = c[u]
    BY <2>2, InChunk
  <2>4. At(m, j + 1) = At(m, j) + Len(c) + 2
    <3>1. At(m, j) = 2 + Len(Joined(C, j)) /\ Len(Joined(C, j)) \in Nat
      BY <1>4
    <3>2. At(m, j + 1) = 2 + Len(Joined(C, j + 1))
      BY <1>4, <2>1
    <3>3. Len(Joined(C, j + 1)) = Len(Joined(C, j)) + Len(C[j + 1])
      BY <1>5, <1>12
    <3>4. Len(C[j + 1]) = Len(c) + 2 /\ Len(c) \in Nat
      BY <2>3
    <3>5. \A p, q \in Nat : 2 + (p + (q + 2)) = 2 + p + q + 2
      OBVIOUS
    <3> QED BY <3>1, <3>2, <3>3, <3>4, <3>5, Zenon
  <2>5. ASSUME NEW k \in 1..Len(C[j + 1])
        PROVE  Encode(m)[At(m, j) + k] = C[j + 1][k]
    <3>1. /\ all[Len(Joined(C, j)) + k] = C[j + 1][k]
          /\ Len(Joined(C, j)) + k \in 1..Len(all)
      BY <1>6, <1>12
    <3>2. Encode(m)[2 + (Len(Joined(C, j)) + k)] = C[j + 1][k]
      BY <1>7, <3>1
    <3>3. 2 + (Len(Joined(C, j)) + k) = At(m, j) + k
      BY <1>4, <2>3
    <3> QED BY <3>2, <3>3
  <2>6. /\ 1 \in 1..Len(C[j + 1]) /\ Len(c) + 2 \in 1..Len(C[j + 1])
        /\ \A u \in 1..Len(c) : 1 + u \in 1..Len(C[j + 1]) /\ At(m, j) + (1 + u) = At(m, j) + 1 + u
        /\ At(m, j) + (Len(c) + 2) = At(m, j + 1)
    <3>1. At(m, j) \in Nat
      BY <1>11
    <3>2. Len(C[j + 1]) = Len(c) + 2 /\ Len(c) \in Nat
      BY <2>3
    <3> QED BY <2>4, <3>1, <3>2
  <2>7. Encode(m)[At(m, j) + 1] = Size(Len(c)) /\ Encode(m)[At(m, j + 1)] = CRLF
    <3>1. Encode(m)[At(m, j) + (Len(c) + 2)] = C[j + 1][Len(c) + 2]
      BY <2>5, <2>6, Zenon
    <3>2. Encode(m)[At(m, j) + 1] = C[j + 1][1]
      BY <2>5, <2>6, Zenon
    <3>3. C[j + 1][1] = Size(Len(c)) /\ C[j + 1][Len(c) + 2] = CRLF
      BY <2>3
    <3>4. At(m, j) + (Len(c) + 2) = At(m, j + 1)
      BY <2>6, Zenon
    <3> QED BY <3>1, <3>2, <3>3, <3>4, Zenon
  <2>8. ASSUME NEW u \in 1..Len(c)
        PROVE  Encode(m)[At(m, j) + 1 + u] = c[u]
    <3>1. Encode(m)[At(m, j) + (1 + u)] = C[j + 1][1 + u]
      BY <2>5, <2>6
    <3> QED BY <2>3, <2>6, <3>1
  <2> QED BY <2>4, <2>7, <2>8 DEF c
<1> QED BY <1>8, <1>9, <1>10, <1>11, <1>12

\* Any other response is its header and its body.
LEMMA BodyTokens ==
  ASSUME NEW m, Plain(m), ~Chunked(m)
  PROVE  /\ Len(Encode(m)) = 2 + Len(Body(m)) /\ Len(Body(m)) \in Nat
         /\ \A k \in 1..Len(Body(m)) : Encode(m)[2 + k] = Body(m)[k]
<1> DEFINE h == HeadOf(m) \o <<CRLF>>
<1>1. Encode(m) = h \o Body(m)
  <2>1. Encode(m) = h \o (IF Chunked(m) THEN FlattenSeq(ChunkTokens(m)) \o <<Size(0), CRLF>>
                          ELSE Body(m))
    BY HeaderTokens, Zenon DEF Plain
  <2> QED BY <2>1
<1>2. h \in Seq(Tokens) /\ Len(h) = 2
  BY HeaderTokens DEF Plain
<1>3. Body(m) \in Seq(Tokens) /\ Len(Body(m)) \in Nat
  BY ChunksOf, TokenFacts, SeqMonotonic
<1>4. <<>> \in Seq(Tokens) /\ Len(<<>>) = 0
  BY EmptySeq
<1> HIDE DEF h
<1>5. /\ Len(h \o Body(m)) = Len(h) + Len(Body(m))
      /\ \A k \in 1..Len(h) + Len(Body(m)) :
           (h \o Body(m))[k] = IF k <= Len(h) THEN h[k] ELSE Body(m)[k - Len(h)]
  BY <1>2, <1>3, ConcatProperties
<1>6. ASSUME NEW k \in 1..Len(Body(m))
      PROVE  Encode(m)[2 + k] = Body(m)[k]
  <2>1. 2 + k \in 1..2 + Len(Body(m)) /\ ~(2 + k <= 2) /\ 2 + k - 2 = k
    BY <1>3
  <2> QED BY <1>1, <1>2, <1>5, <2>1
<1> QED BY <1>1, <1>2, <1>3, <1>5, <1>6

-----------------------------------------------------------------------------
(* What the relay makes of a response that it collected.                   *)

\* The head of a response says what its fields are.
LEMMA HeadParsed ==
  ASSUME NEW m, Whole(m)
  PROVE  Parsed(HeadOf(m)) = SentFields(m)
<1> DEFINE f == Fields(SentFields(m))
           known == {i \in DOMAIN HeadOf(m) : HeadOf(m)[i][1] = "fields"}
<1>1. HeadOf(m) = <<f>> /\ f[1] = "fields" /\ f[2] = SentFields(m)
  BY DEF HeadOf, Fields
<1> HIDE DEF f
<1>2. known = {1}
  BY <1>1
<1>3. Min(known) \in known
  BY <1>2, MinInSet
<1>4. HeadOf(m)[Min(known)][2] = SentFields(m)
  BY <1>1, <1>2, <1>3
<1>5. known # {}
  BY <1>2
<1> QED BY <1>4, <1>5, Zenon DEF Parsed

\* The parts of a rewritten response.
LEMMA RewrittenParts ==
  ASSUME NEW m, Whole(m)
  PROVE  /\ Whole(Rewritten(m))
         /\ Rewritten(m).chunks = <<Rewrite(Body(m))>>
         /\ Rewrite(Body(m)) \in Seq(Units)
         /\ Body(Rewritten(m)) = Rewrite(Body(m))
         /\ FlattenSeq(ChunkTokens(Rewritten(m))) = Chunk(Rewrite(Body(m)))
         /\ SentFields(Rewritten(m)) =
              [SentFields(m) EXCEPT !.len =
                 IF Len(Rewrite(Body(m))) # Len(Body(m)) /\ HasLength(m)
                 THEN Len(Rewrite(Body(m))) ELSE @]
         /\ (Chunked(Rewritten(m)) <=> Chunked(m))
<1> DEFINE body == Rewrite(Body(m))
           r == Rewritten(m)
           length == IF Len(body) = Len(Body(m)) THEN m.len ELSE Len(body)
<1>1. m \in Responses /\ m.chunks \in Seq(Seq(Units)) /\ m.len \in Nat
  BY DEF Whole, Responses
<1>2. body \in Seq(Units)
  BY <1>1, FlattenSeqType, RewriteType DEF Body
<1>3. Len(body) \in Nat /\ <<body>> \in Seq(Seq(Units))
  BY <1>2, LenProperties, SingletonSeq
<1>4. length \in Nat
  BY <1>1, <1>3
<1>5. r = [m EXCEPT !.chunks = <<body>>, !.trailer = FALSE, !.len = length]
  BY DEF Rewritten
<1> HIDE DEF body, length, r
<1>6. /\ r \in Responses /\ r.chunks = <<body>> /\ r.len = length /\ ~r.trailer
      /\ r.bodiless = m.bodiless /\ r.huge = m.huge /\ r.framing = m.framing /\ r.text = m.text
  BY <1>1, <1>3, <1>4, <1>5 DEF Responses
<1>7. Whole(r)
  BY <1>6 DEF Whole
<1>8. Body(r) = body
  BY <1>2, <1>6, FlattenOne DEF Body
<1>9. FlattenSeq(ChunkTokens(r)) = Chunk(body)
  <2>1. DOMAIN <<body>> = {1} /\ <<body>>[1] = body
    OBVIOUS
  <2>2. ChunkTokens(r) = [c \in {1} |-> Chunk(r.chunks[c])]
    BY <1>6, <2>1, Zenon DEF ChunkTokens
  <2>3. ChunkTokens(r) = <<Chunk(body)>>
    <3>1. [c \in {1} |-> Chunk(r.chunks[c])] = [c \in {1} |-> Chunk(body)]
      BY <1>6, <2>1
    <3> DEFINE x == Chunk(body)
    <3> HIDE DEF x
    <3>2. [c \in {1} |-> x] = <<x>>
      OBVIOUS
    <3> QED BY <2>2, <3>1, <3>2 DEF x
  <2>4. Chunk(body) \in Seq(Tokens)
    BY <1>2, InChunk
  <2> QED BY <2>3, <2>4, FlattenOne
<1>10. SentFields(r) =
         [SentFields(m) EXCEPT !.len = IF Len(body) # Len(Body(m)) /\ HasLength(m)
                                       THEN Len(body) ELSE @]
  <2>1. HasLength(r) <=> HasLength(m)
    BY <1>6 DEF HasLength
  <2>2. SentFields(r) = [text |-> m.text, framing |-> m.framing,
                         len |-> IF HasLength(m) THEN length ELSE 0]
    BY <1>6, <2>1 DEF SentFields
  <2>3. CASE HasLength(m)
    BY <2>2, <2>3 DEF SentFields, length
  <2>4. CASE ~HasLength(m)
    BY <2>2, <2>4 DEF SentFields
  <2> QED BY <2>3, <2>4
<1>11. Chunked(r) <=> Chunked(m)
  BY <1>6 DEF Chunked
<1> QED BY <1>2, <1>6, <1>7, <1>8, <1>9, <1>10, <1>11 DEF body, r

\* What Emit writes when it has collected the body of a response is the
\* rewritten response (lines 361-384).
LEMMA EmittedIsRewritten ==
  ASSUME NEW m, Whole(m)
  PROVE  LET body == Rewrite(Body(m))
             lines == IF Len(body) = Len(Body(m)) THEN HeadOf(m)
                      ELSE UpdateContentLength(HeadOf(m), Len(body))
         IN lines \o <<CRLF>> \o (IF Chunked(Parsed(HeadOf(m))) THEN WriteChunkedBody(body)
                                  ELSE body) = Encode(Rewritten(m))
<1> DEFINE body == Rewrite(Body(m))
           r == Rewritten(m)
           lines == IF Len(body) = Len(Body(m)) THEN HeadOf(m)
                    ELSE UpdateContentLength(HeadOf(m), Len(body))
<1>1. /\ Whole(r) /\ Body(r) = body
      /\ FlattenSeq(ChunkTokens(r)) = Chunk(body)
      /\ SentFields(r) = [SentFields(m) EXCEPT !.len =
                            IF Len(body) # Len(Body(m)) /\ HasLength(m) THEN Len(body) ELSE @]
      /\ (Chunked(r) <=> Chunked(m))
  BY RewrittenParts
<1> HIDE DEF body, r
<1>2. Encode(r) = HeadOf(r) \o <<CRLF>> \o
                    (IF Chunked(r) THEN FlattenSeq(ChunkTokens(r)) \o <<Size(0), CRLF>>
                     ELSE Body(r))
  BY <1>1, HeaderTokens
<1>3. Parsed(HeadOf(m)) = SentFields(m) /\ (Chunked(Parsed(HeadOf(m))) <=> Chunked(m))
      /\ (HasLength(SentFields(m)) <=> HasLength(m))
  BY HeadParsed DEF SentFields, Chunked, HasLength
<1>4. UpdateContentLength(HeadOf(m), Len(body)) =
        <<IF HasLength(m) THEN Fields([SentFields(m) EXCEPT !.len = Len(body)])
          ELSE Fields(SentFields(m))>>
  <2> DEFINE f == Fields(SentFields(m))
             g == Fields([f[2] EXCEPT !.len = Len(body)])
  <2>1. HeadOf(m) = <<f>> /\ DOMAIN HeadOf(m) = {1} /\ HeadOf(m)[1] = f
    BY DEF HeadOf
  <2>2. f[1] = "fields" /\ f[2] = SentFields(m)
    BY DEF Fields
  <2> HIDE DEF f, g
  <2>3. UpdateContentLength(HeadOf(m), Len(body)) =
          [i \in {1} |-> IF f[1] = "fields" /\ HasLength(f[2]) THEN g ELSE f]
    BY <2>1 DEF UpdateContentLength, g
  <2>4. CASE HasLength(m)
    <3>1. [i \in {1} |-> g] = <<g>>
      OBVIOUS
    <3>2. g = Fields([SentFields(m) EXCEPT !.len = Len(body)])
      BY <2>2 DEF g
    <3> QED BY <1>3, <2>2, <2>3, <2>4, <3>1, <3>2
  <2>5. CASE ~HasLength(m)
    <3>1. [i \in {1} |-> f] = <<f>>
      OBVIOUS
    <3> QED BY <1>3, <2>2, <2>3, <2>5, <3>1 DEF f
  <2> QED BY <2>4, <2>5
<1>5. lines = HeadOf(r)
  <2>1. CASE Len(body) # Len(Body(m)) /\ HasLength(m)
    <3>1. SentFields(r) = [SentFields(m) EXCEPT !.len = Len(body)]
      BY <1>1, <2>1
    <3> QED BY <1>4, <2>1, <3>1 DEF HeadOf
  <2>2. CASE ~(Len(body) # Len(Body(m)) /\ HasLength(m))
    <3>1. SentFields(r) = SentFields(m)
      BY <1>1, <2>2 DEF SentFields
    <3> QED BY <1>4, <2>2, <3>1 DEF HeadOf
  <2> QED BY <2>1, <2>2
<1> HIDE DEF lines
<1>6. (IF Chunked(Parsed(HeadOf(m))) THEN WriteChunkedBody(body) ELSE body) =
      (IF Chunked(r) THEN FlattenSeq(ChunkTokens(r)) \o <<Size(0), CRLF>> ELSE Body(r))
  BY <1>1, <1>3, Zenon DEF WriteChunkedBody
<1>7. lines \o <<CRLF>> \o (IF Chunked(Parsed(HeadOf(m))) THEN WriteChunkedBody(body) ELSE body)
        = Encode(r)
  BY <1>2, <1>5, <1>6, Zenon
<1> QED BY <1>7, Zenon DEF body, lines, r

\* A response of which only the first j chunks came.
Cut(m, j) == [m EXCEPT !.chunks = SubSeq(@, 1, j), !.trailer = FALSE]

\* It is a response with the same head, as long as its chunks are.
LEMMA CutParts ==
  ASSUME NEW m, Plain(m), Chunked(m), Rewritable(m), NEW j \in 0..Len(m.chunks)
  PROVE  /\ Whole(Cut(m, j)) /\ Rewritable(Cut(m, j))
         /\ Body(Cut(m, j)) = Joined(m.chunks, j)
         /\ HeadOf(Cut(m, j)) = HeadOf(m)
         /\ Len(Encode(Cut(m, j))) = At(m, j) + 2
<1> DEFINE p == Cut(m, j)
           n == Len(m.chunks)
           C == ChunkTokens(m)
<1>1. /\ m \in Responses /\ m.chunks \in Seq(Seq(Units)) /\ n \in Nat
      /\ C \in Seq(Seq(Tokens)) /\ Len(C) = n
  BY ChunksOf DEF Plain, Whole
<1>2. SubSeq(m.chunks, 1, j) \in Seq(Seq(Units)) /\ Len(SubSeq(m.chunks, 1, j)) = j
  BY <1>1, ReadOn
<1>3. /\ p \in Responses /\ p.chunks = SubSeq(m.chunks, 1, j) /\ ~p.trailer /\ p.len = m.len
      /\ p.bodiless = m.bodiless /\ p.huge = m.huge /\ p.framing = m.framing /\ p.text = m.text
  BY <1>1, <1>2 DEF Cut, Responses
<1> HIDE DEF p
<1>4. Whole(p)
  BY <1>3 DEF Whole, Plain
<1>5. Body(p) = Joined(m.chunks, j)
  BY <1>3 DEF Body, Joined
<1>6. HeadOf(p) = HeadOf(m) /\ (Chunked(p) <=> Chunked(m)) /\ (TooLarge(p) <=> TooLarge(m))
  BY <1>3 DEF HeadOf, SentFields, HasLength, Chunked, TooLarge
<1>7. Rewritable(p)
  <2>1. Len(Joined(m.chunks, j)) <= Len(Body(m)) /\ Len(Body(m)) <= MaxBody
    BY <1>1, JoinedIsPrefix DEF IsPrefix, Body, Rewritable
  <2>2. Len(Joined(m.chunks, j)) \in Nat /\ Len(Body(m)) \in Nat
    BY <1>1, JoinedParts, ChunksOf
  <2>3. Len(Body(p)) <= MaxBody
    BY <1>5, <2>1, <2>2, MaxBodyAssumption
  <2> QED BY <1>3, <1>6, <2>3 DEF Rewritable
<1>8. ChunkTokens(p) = SubSeq(C, 1, j)
  <2>1. SubSeq(C, 1, j) \in Seq(Seq(Tokens)) /\ Len(SubSeq(C, 1, j)) = j
    BY <1>1, ReadOn
  <2>2. DOMAIN p.chunks = 1..j /\ DOMAIN SubSeq(C, 1, j) = 1..j /\ DOMAIN C = 1..n
        /\ DOMAIN m.chunks = 1..n
    BY <1>1, <1>2, <1>3, <2>1, LenProperties
  <2>3. ASSUME NEW i \in 1..j
        PROVE  p.chunks[i] = m.chunks[i] /\ SubSeq(C, 1, j)[i] = C[i] /\ i \in 1..n
    <3>1. i \in 1..n /\ 1 \in Int /\ j \in Int /\ i \in 1..(j - 1 + 1) /\ 1 + i - 1 = i
      BY <1>1
    <3>2. (\A l \in 1..j : m.chunks[l] \in Seq(Units)) /\ (\A l \in 1..j : C[l] \in Seq(Tokens))
      BY <1>1, ElementOfSeq
    <3>3. SubSeq(m.chunks, 1, j)[i] = m.chunks[1 + i - 1]
      BY <3>1, <3>2, SubSeqProperties
    <3>4. SubSeq(C, 1, j)[i] = C[1 + i - 1]
      BY <3>1, <3>2, SubSeqProperties
    <3> QED BY <1>3, <3>1, <3>3, <3>4
  <2>4. ChunkTokens(p) = [i \in 1..j |-> Chunk(p.chunks[i])]
    BY <2>2, Zenon DEF ChunkTokens
  <2>5. \A i \in 1..j : SubSeq(C, 1, j)[i] = Chunk(p.chunks[i])
    BY <2>2, <2>3 DEF ChunkTokens
  <2>6. SubSeq(C, 1, j) = [i \in 1..j |-> SubSeq(C, 1, j)[i]]
    BY <2>1, <2>2
  <2> QED BY <2>4, <2>5, <2>6
<1>9. Len(Encode(p)) = At(m, j) + 2
  <2> DEFINE all == Joined(C, j)
             h == HeadOf(m) \o <<CRLF>>
             z == <<Size(0), CRLF>>
  <2>1. FlattenSeq(ChunkTokens(p)) = all
    BY <1>8, Zenon DEF Joined
  <2>2. all \in Seq(Tokens) /\ Len(all) \in Nat
    BY <1>1, JoinedParts
  <2>3. Encode(p) = h \o (all \o z)
    <3>1. Encode(p) = h \o (IF Chunked(p) THEN FlattenSeq(ChunkTokens(p)) \o z ELSE Body(p))
      BY <1>4, <1>6, HeaderTokens
    <3> QED BY <1>6, <2>1, <3>1, Zenon
  <2>4. h \in Seq(Tokens) /\ Len(h) = 2
    BY HeaderTokens DEF Plain
  <2>5. z \in Seq(Tokens) /\ Len(z) = 2
    BY TokenFacts
  <2>6. At(m, j) = 2 + Len(all)
    BY DEF At
  <2> HIDE DEF all, h, z
  <2>7. Len(h \o (all \o z)) = Len(h) + Len(all) + Len(z)
    <3>1. h \in Seq(Tokens) /\ all \in Seq(Tokens) /\ z \in Seq(Tokens)
      BY <2>2, <2>4, <2>5
    <3> QED BY <3>1, InThree
  <2> QED BY <2>2, <2>3, <2>4, <2>5, <2>6, <2>7
<1> QED BY <1>4, <1>5, <1>6, <1>7, <1>9 DEF p

\* A connection that ends behind the first j chunks of the response after the
\* i-th: its length, and what the client should see of it.
LEMMA CutShortIs ==
  ASSUME script \in Seq(Responses), NEW i \in 0..Len(script), i < Len(script),
         NEW m, m = script[i + 1], Plain(m), Chunked(m), Rewritable(m),
         NEW j \in 0..Len(m.chunks)
  PROVE  /\ Len(Stream(CutShort(i + 1, j))) = Start(script, i) + At(m, j) + 2
         /\ Relayed(CutShort(i + 1, j)) = Done(script, i) \o Encode(Rewritten(Cut(m, j)))
<1> DEFINE p == Cut(m, j)
           first == SubSeq(script, 1, i)
           s == first \o <<p>>
<1>1. /\ Whole(p) /\ Rewritable(p) /\ Len(Encode(p)) = At(m, j) + 2
  BY CutParts
<1>2. p \in Responses
  BY <1>1 DEF Whole
<1>3. CutShort(i + 1, j) = s
  <2>1. (i + 1) - 1 = i
    BY LenProperties
  <2>2. [script[i + 1] EXCEPT !.chunks = SubSeq(@, 1, j), !.trailer = FALSE] = p
    BY DEF Cut
  <2> QED BY <2>1, <2>2 DEF CutShort
<1> HIDE DEF p
<1>4. /\ first \in Seq(Responses) /\ Len(first) = i /\ Len(script) \in Nat
      /\ \A l \in 1..i : first[l] = script[l]
  <2>1. first \in Seq(Responses) /\ Len(first) = i /\ Len(script) \in Nat
    BY ReadOn, LenProperties
  <2>2. ASSUME NEW l \in 1..i PROVE first[l] = script[l]
    <3>1. 1 \in Int /\ i \in Int /\ l \in 1..(i - 1 + 1) /\ 1 + l - 1 = l
          /\ \A k \in 1..i : script[k] \in Responses
      BY <2>1, ElementOfSeq
    <3>2. first[l] = script[1 + l - 1]
      BY <3>1, SubSeqProperties
    <3> QED BY <3>1, <3>2
  <2> QED BY <2>1, <2>2
<1> HIDE DEF first
<1>5. /\ s = Append(first, p) /\ s \in Seq(Responses) /\ Len(s) = i + 1 /\ s[i + 1] = p
      /\ \A l \in 1..i : s[l] = script[l]
  <2>1. s = Append(first, p)
    BY <1>2, <1>4, AppendIsConcat
  <2>2. /\ Append(first, p) \in Seq(Responses) /\ Len(Append(first, p)) = i + 1
        /\ Append(first, p)[i + 1] = p
        /\ \A l \in 1..i : Append(first, p)[l] = first[l]
    BY <1>2, <1>4, AppendProperties
  <2> QED BY <1>4, <2>1, <2>2
<1> HIDE DEF s
<1>6. i \in 0..Len(s) /\ i < Len(s)
  BY <1>4, <1>5
<1>7. Start(s, i) = Start(script, i) /\ Done(s, i) = Done(script, i)
  <2>1. SubSeq(Sent(s), 1, i) = SubSeq(Sent(script), 1, i)
        /\ SubSeq(Seen(s), 1, i) = SubSeq(Seen(script), 1, i)
    <3>1. /\ Sent(s) \in Seq(Seq(Tokens)) /\ Sent(script) \in Seq(Seq(Tokens))
          /\ Seen(s) \in Seq(Seq(Tokens)) /\ Seen(script) \in Seq(Seq(Tokens))
          /\ i \in 0..Len(Sent(s)) /\ i \in 0..Len(Sent(script))
          /\ i \in 0..Len(Seen(s)) /\ i \in 0..Len(Seen(script))
      BY <1>5, <1>6, ResponsesJoined
    <3>2. \A l \in 1..i : Sent(s)[l] = Sent(script)[l] /\ Seen(s)[l] = Seen(script)[l]
      <4>1. ASSUME NEW l \in 1..i
            PROVE  l \in 1..Len(s) /\ l \in 1..Len(script) /\ s[l] = script[l]
        BY <1>4, <1>5
      <4> QED BY <1>5, <4>1, ResponsesJoined
    <3> QED BY <3>1, <3>2, SamePart
  <2> QED BY <2>1 DEF Start, Done, Joined
<1>8. Start(s, i + 1) = Start(s, i) + Len(Encode(p)) /\ Start(s, i) \in Nat
  BY <1>5, <1>6, TokenOf
<1>9. Start(s, i + 1) = Len(Stream(s))
  BY <1>5, StreamEnds
<1>10. Done(s, i + 1) = Done(s, i) \o Encode(RelayedAs(p))
  BY <1>5, <1>6, DoneIsSeen
<1>11. Done(s, i + 1) = Relayed(s)
  <2>1. Seen(s) \in Seq(Seq(Tokens)) /\ Len(Seen(s)) = i + 1 /\ Relayed(s) = FlattenSeq(Seen(s))
    BY <1>5, ResponsesJoined
  <2> QED BY <2>1, JoinedParts DEF Done
<1>12. RelayedAs(p) = Rewritten(p)
  BY <1>1 DEF RelayedAs
<1>13. At(m, j) \in Nat
  BY ChunkedTokens
<1>14. Len(Stream(s)) = Start(script, i) + At(m, j) + 2
  BY <1>1, <1>7, <1>8, <1>9, <1>13
<1>15. Relayed(s) = Done(script, i) \o Encode(Rewritten(p))
  BY <1>7, <1>10, <1>11, <1>12
<1> QED BY <1>3, <1>14, <1>15 DEF p

-----------------------------------------------------------------------------
(* The inductive invariant: in which response the relay is, at which token *)
(* of it, what it has written and what it keeps.                           *)

\* Behind the k-th token of m, the response after the i-th: a response that is
\* to be rewritten is held back, of any other what was read is written.
Written(i, m, k) ==
  IF Rewritable(m) THEN head = HeadOf(m) /\ out = Done(script, i)
  ELSE head = <<>> /\ out = Done(script, i) \o SubSeq(Encode(m), 1, k)

\* The part of the body that is kept for rewriting.
Kept(m, b) == Rewritable(m) => buf = b

\* A body that ends with the connection, or has a length.
InStream(m, k) == phase = "stream" /\ m.framing = "close"
InLength(m, k) ==
  /\ phase = (IF Rewritable(m) THEN "body" ELSE "fixed")
  /\ m.framing = "length"
  /\ left = Len(Encode(m)) - k /\ left # 0
  /\ Kept(m, SubSeq(Body(m), 1, k - 2))

\* A chunked body: before a size line, inside a chunk, before the CRLF that ends
\* one, and behind the last size line.
AtSize(m, k, j) == phase = "size" /\ k = At(m, j) /\ Kept(m, Joined(m.chunks, j))
InUnits(m, k, j) ==
  /\ phase = "chunk" /\ j < Len(m.chunks)
  /\ \E u \in 0..Len(m.chunks[j + 1]) :
       /\ left = Len(m.chunks[j + 1]) - u /\ left # 0
       /\ k = At(m, j) + 1 + u
       /\ Kept(m, Joined(m.chunks, j) \o SubSeq(m.chunks[j + 1], 1, u))
AtChunkEnd(m, k, j) ==
  phase = "crlf" /\ j # 0 /\ k + 1 = At(m, j) /\ Kept(m, Joined(m.chunks, j))
AtTrailer(m, k, j) ==
  phase = "trailer" /\ j = Len(m.chunks) /\ k = At(m, j) + 1 /\ Kept(m, Body(m))
InChunks(m, k) ==
  /\ Chunked(m)
  /\ \E j \in 0..Len(m.chunks) :
       AtSize(m, k, j) \/ InUnits(m, k, j) \/ AtChunkEnd(m, k, j) \/ AtTrailer(m, k, j)

InBody(i, m) ==
  \E k \in 2..Len(Encode(m)) :
    /\ pos = Start(script, i) + k
    /\ Written(i, m, k)
    /\ InStream(m, k) \/ InLength(m, k) \/ InChunks(m, k)

\* The whole body is kept, or what came of a chunked one before the origin closed
\* where a size line should begin.
InEmit(i, m) ==
  /\ phase = "emit" /\ Rewritable(m) /\ Written(i, m, 0)
  /\ \/ buf = Body(m) /\ (pos = Start(script, i + 1) \/ Eof)
     \/ /\ Eof /\ Chunked(m)
        /\ \E j \in 0..Len(m.chunks) :
             buf = Joined(m.chunks, j) /\ pos = Start(script, i) + At(m, j)

\* Before the response after the i-th, or behind the first line of it.
InHeaders(i) ==
  /\ phase = "headers" /\ out = Done(script, i)
  /\ \/ head = <<>> /\ pos = Start(script, i)
     \/ i < Len(script) /\ head = HeadOf(script[i + 1]) /\ pos = Start(script, i) + 1

\* Nothing more is written: all that the origin sent was read, or the loop ended.
Lost == phase = "headers" /\ head = <<>> /\ Eof /\ RelayedInOrder
Over == phase \in {"done", "failed"} /\ RelayedInOrder

Ordered ==
  Tracked =>
    \/ Over \/ Lost
    \/ \E i \in 0..Len(script) :
         \/ InHeaders(i)
         \/ i < Len(script) /\ (InBody(i, script[i + 1]) \/ InEmit(i, script[i + 1]))

\* A line that begins where a token ends it is that token, unless nothing is
\* left to read.
LEMMA LineIs ==
  ASSUME TypeOK, NEW k \in pos..sent, LineTo(k), pos < Len(wire) => EndsLine(wire[pos + 1])
  PROVE  \/ k = pos /\ Line(k) = <<>> /\ Eof
         \/ k = pos + 1 /\ pos < Len(wire) /\ Line(k) = <<wire[pos + 1]>>
<1>1. /\ wire \in Seq(Tokens) /\ Len(wire) \in Nat /\ sent \in 0..Len(wire) /\ pos \in 0..sent
  BY Reading
<1>2. CASE k = pos
  <2>1. k = sent /\ origin = "closed"
    BY <1>1, <1>2 DEF LineTo
  <2>2. Line(k) = <<>>
    <3>1. pos + 1 > pos
      BY <1>1
    <3> QED BY <1>2, <3>1, SubSeqEmpty DEF Line
  <2> QED BY <1>2, <2>1, <2>2 DEF Eof
<1>3. CASE k # pos
  <2>1. pos < Len(wire) /\ pos + 1 <= k /\ pos \in 0..Len(wire)
    BY <1>1, <1>3
  <2>2. k = pos + 1
    <3>1. ASSUME k # pos + 1 PROVE FALSE
      <4>1. pos + 1 \in (pos + 1)..(k - 1)
        BY <1>1, <2>1, <3>1
      <4> QED BY <2>1, <4>1 DEF LineTo
    <3> QED BY <3>1
  <2>3. SubSeq(wire, pos + 1, pos + 1) = <<wire[pos + 1]>>
    BY <1>1, <2>1, ReadOne
  <2> QED BY <2>1, <2>2, <2>3 DEF Line
<1> QED BY <1>2, <1>3

\* The token that comes next is that of the response the relay is in.
LEMMA NextToken ==
  ASSUME TypeOK, NEW i \in 0..Len(script), i < Len(script),
         NEW m, m = script[i + 1], NEW k \in 0..Len(Encode(m)), k < Len(Encode(m)),
         pos = Start(script, i) + k
  PROVE  /\ pos < Len(wire) /\ wire[pos + 1] = Encode(m)[k + 1] /\ Next1 = Encode(m)[k + 1]
         /\ pos + 1 = Start(script, i) + (k + 1)
         /\ k + 1 \in 1..Len(Encode(m)) /\ k \in Nat
<1>1. script \in Seq(Responses) /\ wire = Stream(script) /\ Len(wire) \in Nat
  BY ScriptsAssumption, Reading DEF TypeOK
<1>2. /\ Start(script, i) \in Nat /\ Len(Encode(m)) \in Nat
      /\ \A l \in 1..Len(Encode(m)) : /\ wire[Start(script, i) + l] = Encode(m)[l]
                                      /\ Start(script, i) + l \in 1..Len(wire)
  BY <1>1, TokenOf
<1>3. k \in Nat /\ k + 1 \in 1..Len(Encode(m)) /\ pos + 1 = Start(script, i) + (k + 1)
  BY <1>2
<1>4. pos < Len(wire) /\ wire[pos + 1] = Encode(m)[k + 1]
  <2>1. /\ wire[Start(script, i) + (k + 1)] = Encode(m)[k + 1]
        /\ Start(script, i) + (k + 1) \in 1..Len(wire)
    BY <1>2, <1>3, Zenon
  <2>2. pos \in Nat /\ pos + 1 \in 1..Len(wire)
    BY <1>2, <1>3, <2>1, SMTT(20)
  <2> QED BY <1>1, <1>3, <2>1, <2>2
<1> QED BY <1>3, <1>4 DEF Next1

\* What is written of a response that is passed on, or before one that is held
\* back, is what the client should see.
LEMMA WrittenIsSeen ==
  ASSUME script \in Seq(Responses), NEW i \in 0..Len(script), i < Len(script),
         NEW m, m = script[i + 1], NEW k \in 0..Len(Encode(m)), Written(i, m, k)
  PROVE  IsPrefix(out, Relayed(script)) /\ out \in Seq(Tokens)
<1>1. /\ Done(script, i) \in Seq(Tokens) /\ IsPrefix(Done(script, i), Relayed(script))
      /\ \A t \in Seq(Tokens) : IsPrefix(t, Encode(RelayedAs(m))) =>
           IsPrefix(Done(script, i) \o t, Relayed(script))
  BY DoneIsSeen
<1>2. CASE Rewritable(m)
  BY <1>1, <1>2 DEF Written
<1>3. CASE ~Rewritable(m)
  <2>1. Encode(m) \in Seq(Tokens)
    BY TokenOf
  <2>2. RelayedAs(m) = m
    BY <1>3 DEF RelayedAs
  <2>3. SubSeq(Encode(m), 1, k) \in Seq(Tokens) /\ IsPrefix(SubSeq(Encode(m), 1, k), Encode(m))
    <3>1. SubSeq(Encode(m), 1, k) \in Seq(Tokens)
      <4>1. k \in k..Len(Encode(m))
        BY <2>1, LenProperties
      <4> QED BY <2>1, <4>1, ReadOn
    <3>2. SubSeq(Encode(m), 1, k) \o <<>> = SubSeq(Encode(m), 1, k) /\ <<>> \in Seq(Tokens)
      BY <3>1, ConcatEmptySeq, EmptySeq
    <3> QED BY <2>1, <3>1, <3>2, PartIsPrefix
  <2>4. Done(script, i) \o SubSeq(Encode(m), 1, k) \in Seq(Tokens)
    BY <1>1, <2>3, ConcatProperties
  <2> QED BY <1>1, <1>3, <2>2, <2>3, <2>4 DEF Written
<1> QED BY <1>2, <1>3

\* Header lines are held back exactly of a response that is to be rewritten.
LEMMA HoldsBack ==
  ASSUME NEW m, Whole(m), NEW i, NEW k, Written(i, m, k)
  PROVE  Rewriting <=> Rewritable(m)
<1>1. HeadOf(m) # <<>>
  <2>1. Len(HeadOf(m)) = 1 /\ Len(<<>>) = 0
    BY HeaderTokens, EmptySeq
  <2> QED BY <2>1
<1> QED BY <1>1, Zenon DEF Written, Rewriting

\* One more token of a response is written, or held back.
LEMMA Passed ==
  ASSUME script \in Seq(Responses), NEW i \in 0..Len(script), i < Len(script),
         NEW m, m = script[i + 1], Whole(m), NEW k \in 0..Len(Encode(m)), k < Len(Encode(m)),
         Written(i, m, k), NEW next, Pass(<<Encode(m)[k + 1]>>, next),
         script' = script, head' = head
  PROVE  \/ phase' = next /\ Written(i, m, k + 1)'
         \/ phase' = "failed" /\ out' = out
<1>1. Rewriting <=> Rewritable(m)
  BY HoldsBack
<1>2. CASE Rewritable(m)
  <2>1. phase' = next /\ out' = out
    BY <1>1, <1>2, Zenon DEF Pass
  <2> QED BY <1>2, <2>1, Zenon DEF Written
<1>3. CASE ~Rewritable(m)
  <2>1. head = <<>> /\ out = Done(script, i) \o SubSeq(Encode(m), 1, k)
    BY <1>3, Zenon DEF Written
  <2>2. Encode(m) \in Seq(Tokens) /\ Len(Encode(m)) \in Nat /\ Done(script, i) \in Seq(Tokens)
    BY TokenOf, DoneIsSeen
  <2>3. /\ SubSeq(Encode(m), 1, k) \in Seq(Tokens)
        /\ SubSeq(Encode(m), 1, k + 1) = SubSeq(Encode(m), 1, k) \o <<Encode(m)[k + 1]>>
        /\ <<Encode(m)[k + 1]>> \in Seq(Tokens)
    <3>1. k \in k..Len(Encode(m)) /\ k + 1 \in 1..Len(Encode(m))
      BY <2>2
    <3>2. Encode(m)[k + 1] \in Tokens
      BY <2>2, <3>1, ElementOfSeq
    <3> QED BY <2>2, <3>1, <3>2, ReadOn, PartAppend, SingletonSeq
  <2>4. out \o <<Encode(m)[k + 1]>> = Done(script, i) \o SubSeq(Encode(m), 1, k + 1)
    <3>1. (Done(script, i) \o SubSeq(Encode(m), 1, k)) \o <<Encode(m)[k + 1]>> =
            Done(script, i) \o (SubSeq(Encode(m), 1, k) \o <<Encode(m)[k + 1]>>)
      BY <2>2, <2>3, Regrouped, Zenon
    <3> QED BY <2>1, <2>3, <3>1
  <2>5. Write(<<Encode(m)[k + 1]>>, next)
    BY <1>1, <1>3, Zenon DEF Pass
  <2>6. \/ out' = out \o <<Encode(m)[k + 1]>> /\ phase' = next
        \/ out' = out /\ phase' = "failed"
    BY <2>5, Zenon DEF Write
  <2> QED BY <1>3, <2>1, <2>4, <2>6, Zenon DEF Written
<1> QED BY <1>2, <1>3

\* Nothing is lost by writing nothing.
LEMMA PassedNothing ==
  ASSUME TypeOK, NEW next, Pass(<<>>, next)
  PROVE  out' = out /\ phase' \in {next, "failed"}
<1>1. out \o <<>> = out
  BY ConcatEmptySeq DEF TypeOK
<1> QED BY <1>1, Zenon DEF Pass, Write

\* The invariant says that what the client has seen is in order.
LEMMA OrderedIsSeen ==
  ASSUME TypeOK, Ordered
  PROVE  RelayedInOrder
<1>1. CASE ~Tracked
  BY <1>1 DEF RelayedInOrder
<1>2. CASE Tracked
  <2>1. script \in Seq(Responses)
    BY ScriptsAssumption DEF TypeOK
  <2>2. CASE Over \/ Lost
    BY <2>2 DEF Over, Lost
  <2>3. CASE \E i \in 0..Len(script) : InHeaders(i)
    <3>1. IsPrefix(out, Relayed(script))
      BY <2>1, <2>3, DoneIsSeen DEF InHeaders
    <3> QED BY <3>1 DEF RelayedInOrder
  <2>4. ASSUME NEW i \in 0..Len(script), i < Len(script),
               InBody(i, script[i + 1]) \/ InEmit(i, script[i + 1])
        PROVE  RelayedInOrder
    <3>1. Len(Encode(script[i + 1])) \in Nat
      BY <2>1, <2>4, TokenOf
    <3>2. PICK k \in 0..Len(Encode(script[i + 1])) : Written(i, script[i + 1], k)
      BY <2>4, <3>1 DEF InBody, InEmit
    <3>3. IsPrefix(out, Relayed(script))
      BY <2>1, <2>4, <3>2, WrittenIsSeen
    <3> QED BY <3>3 DEF RelayedInOrder
  <2> QED BY <1>2, <2>2, <2>3, <2>4, Zenon DEF Ordered
<1> QED BY <1>1, <1>2

\* It stays in order while nothing is written and nothing sent.
LEMMA StillInOrder ==
  ASSUME RelayedInOrder, UNCHANGED <<script, sent, origin, out>>
  PROVE  RelayedInOrder'
<1>1. script' = script /\ sent' = sent /\ origin' = origin /\ out' = out
  OBVIOUS
<1> QED BY <1>1 DEF RelayedInOrder, Tracked, CutShort

\* Steps after which nothing more is written.
LEMMA Ending ==
  ASSUME TypeOK, Ordered, UNCHANGED <<script, sent, origin, out>>,
         phase' \in {"done", "failed"} \/ (phase' = "headers" /\ head' = <<>> /\ Eof')
  PROVE  Ordered'
<1>1. RelayedInOrder'
  BY OrderedIsSeen, StillInOrder
<1> QED BY <1>1, Zenon DEF Ordered, Over, Lost

\* Steps inside the body of a response.
LEMMA Reached ==
  ASSUME script' = script, NEW i \in 0..Len(script), i < Len(script), NEW m, m = script[i + 1],
         NEW k \in 2..Len(Encode(m)), pos' = Start(script, i) + k, Written(i, m, k)',
         (InStream(m, k) \/ InLength(m, k) \/ InChunks(m, k))'
  PROVE  Ordered'
<1>1. InBody(i, m)'
  BY Zenon DEF InBody
<1> QED BY <1>1, Zenon DEF Ordered

\* The step that ends a response that is passed on.
LEMMA Completed ==
  ASSUME script \in Seq(Responses), script' = script, NEW i \in 0..Len(script), i < Len(script),
         NEW m, m = script[i + 1], ~Rewritable(m), phase' = "headers",
         pos' = Start(script, i) + Len(Encode(m)), Written(i, m, Len(Encode(m)))'
  PROVE  Ordered'
<1>1. /\ Start(script, i + 1) = Start(script, i) + Len(Encode(m))
      /\ Encode(m) \in Seq(Tokens)
  BY TokenOf
<1>2. Done(script, i + 1) = Done(script, i) \o Encode(m)
  BY DoneIsSeen DEF RelayedAs
<1>3. SubSeq(Encode(m), 1, Len(Encode(m))) = Encode(m)
  BY <1>1, SubSeqFull
<1>4. head' = <<>> /\ out' = Done(script, i) \o SubSeq(Encode(m), 1, Len(Encode(m)))
  BY Zenon DEF Written
<1>5. i + 1 \in 0..Len(script)
  BY LenProperties
<1>6. InHeaders(i + 1)'
  BY <1>1, <1>2, <1>3, <1>4, Zenon DEF InHeaders
<1> QED BY <1>5, <1>6, Zenon DEF Ordered

\* Where the relay is while it reads a body.
LEMMA BodyPlace ==
  ASSUME TypeOK, Ordered, Tracked,
         phase \in {"stream", "fixed", "body", "size", "chunk", "crlf", "trailer"}
  PROVE  /\ script \in Seq(Responses) /\ wire = Stream(script)
         /\ \E i \in 0..Len(script) :
              /\ i < Len(script) /\ InBody(i, script[i + 1]) /\ Plain(script[i + 1])
              /\ script[i + 1].framing = "close" => i + 1 = Len(script)
<1>1. script \in Seq(Responses) /\ wire = Stream(script) /\ script \in Scripts
  BY ScriptsAssumption DEF TypeOK
<1>2. PICK i \in 0..Len(script) : i < Len(script) /\ InBody(i, script[i + 1])
  BY DEF Ordered, Over, Lost, InHeaders, InEmit
<1>3. i + 1 \in 1..Len(script)
  BY <1>1, <1>2, LenProperties
<1>4. Plain(script[i + 1]) /\ (script[i + 1].framing = "close" => i + 1 = Len(script))
  BY <1>1, <1>3, TrackedArePlain
<1> QED BY <1>1, <1>2, <1>4

-----------------------------------------------------------------------------
(* Chunked bodies (lines 391-484).                                         *)

\* Where the relay is while it reads a chunked body.
LEMMA ChunkPlace ==
  ASSUME TypeOK, Ordered, Tracked, phase \in {"size", "chunk", "crlf", "trailer"}
  PROVE  /\ script \in Seq(Responses)
         /\ \E i \in 0..Len(script) : \E m \in Responses :
              /\ i < Len(script) /\ m = script[i + 1] /\ Plain(m) /\ Chunked(m)
              /\ \E k \in 2..Len(Encode(m)) : \E j \in 0..Len(m.chunks) :
                   /\ pos = Start(script, i) + k /\ Written(i, m, k)
                   /\ AtSize(m, k, j) \/ InUnits(m, k, j) \/ AtChunkEnd(m, k, j)
                        \/ AtTrailer(m, k, j)
<1>1. /\ script \in Seq(Responses)
      /\ \E i \in 0..Len(script) :
           i < Len(script) /\ InBody(i, script[i + 1]) /\ Plain(script[i + 1])
  BY BodyPlace, Zenon
<1>2. PICK i \in 0..Len(script) :
        i < Len(script) /\ InBody(i, script[i + 1]) /\ Plain(script[i + 1])
  BY <1>1
<1>3. PICK k \in 2..Len(Encode(script[i + 1])) :
        /\ pos = Start(script, i) + k /\ Written(i, script[i + 1], k)
        /\ \/ InStream(script[i + 1], k) \/ InLength(script[i + 1], k)
           \/ InChunks(script[i + 1], k)
  BY <1>2, Zenon DEF InBody
<1>4. InChunks(script[i + 1], k)
  BY <1>3 DEF InStream, InLength
<1>5. script[i + 1] \in Responses
  BY <1>2 DEF Plain, Whole
<1> QED BY <1>1, <1>2, <1>3, <1>4, <1>5, Zenon DEF InChunks

\* A size line: the next chunk begins, or the last one came, or the origin closed
\* and what came passes for the whole body (lines 398-414 and 446-471).
LEMMA ReadSizeOrdered ==
  ASSUME IInv, Ordered, Tracked, ReadSize
  PROVE  Ordered'
<1>0. TypeOK
  BY DEF IInv
<1>1. phase = "size" /\ UNCHANGED <<envVars, head, buf>>
  BY DEF ReadSize
<1>2. script' = script /\ sent' = sent /\ origin' = origin /\ head' = head /\ buf' = buf
  BY <1>1 DEF envVars
<1>3. script \in Seq(Responses)
  BY <1>0, <1>1, ChunkPlace
<1>4. PICK i \in 0..Len(script), m \in Responses :
        /\ i < Len(script) /\ m = script[i + 1] /\ Plain(m) /\ Chunked(m)
        /\ \E k \in 2..Len(Encode(m)) : \E j \in 0..Len(m.chunks) :
             /\ pos = Start(script, i) + k /\ Written(i, m, k)
             /\ AtSize(m, k, j) \/ InUnits(m, k, j) \/ AtChunkEnd(m, k, j) \/ AtTrailer(m, k, j)
  BY <1>0, <1>1, ChunkPlace, Zenon
<1>5. PICK k \in 2..Len(Encode(m)), j \in 0..Len(m.chunks) :
        /\ pos = Start(script, i) + k /\ Written(i, m, k)
        /\ AtSize(m, k, j) \/ InUnits(m, k, j) \/ AtChunkEnd(m, k, j) \/ AtTrailer(m, k, j)
  BY <1>4, Zenon
<1>6. k = At(m, j) /\ Kept(m, Joined(m.chunks, j))
  BY <1>1, <1>5 DEF AtSize, InUnits, AtChunkEnd, AtTrailer
<1> DEFINE n == Len(m.chunks)
           x == IF j = n THEN 0 ELSE Len(m.chunks[j + 1])
<1>7. /\ n \in Nat /\ j \in 0..n
      /\ j # n => j < n /\ Len(m.chunks[j + 1]) \in Nat /\ Len(m.chunks[j + 1]) # 0
  <2>1. n \in Nat
    BY <1>4, ChunksOf
  <2>2. ASSUME j # n
        PROVE  j < n /\ Len(m.chunks[j + 1]) \in Nat /\ Len(m.chunks[j + 1]) # 0
    <3>1. j < n /\ j + 1 \in 1..n
      BY <2>1, <2>2
    <3>2. m.chunks[j + 1] \in Seq(Units) /\ Len(m.chunks[j + 1]) # 0
      BY <1>4, <3>1, ChunksOf
    <3> QED BY <3>1, <3>2, LenProperties
  <2> QED BY <2>1, <2>2
<1>8. At(m, j) \in Nat /\ At(m, j) + 2 <= Len(Encode(m)) /\ Len(Encode(m)) \in Nat
  BY <1>4, ChunkedTokens, HeaderTokens DEF Plain
<1>9. k \in 0..Len(Encode(m)) /\ k < Len(Encode(m)) /\ k + 1 \in 2..Len(Encode(m)) /\ k \in Nat
  BY <1>6, <1>8
<1>10. Encode(m)[k + 1] = Size(x)
  BY <1>4, <1>6, <1>7, ChunkedTokens
<1>11. pos < Len(wire) /\ wire[pos + 1] = Size(x) /\ pos + 1 = Start(script, i) + (k + 1)
  BY <1>0, <1>4, <1>5, <1>9, <1>10, NextToken
<1>12. Rewriting <=> Rewritable(m)
  BY <1>4, <1>5, HoldsBack DEF Plain
<1> HIDE DEF x, n
<1>13. PICK l \in pos..sent :
         /\ LineTo(l)
         /\ pos' = l
         /\ \/ Line(l) = <<>> /\ phase' = BodyEnd /\ UNCHANGED <<left, out>>
            \/ /\ Line(l) # <<>>
               /\ Pass(Line(l), AfterSize(Line(l)))
               /\ left' = IF AfterSize(Line(l)) = "chunk" THEN Line(l)[1][2] ELSE 0
  BY DEF ReadSize
<1>14. EndsLine(wire[pos + 1])
  BY <1>11 DEF EndsLine, Size
<1>15. \/ l = pos /\ Line(l) = <<>> /\ Eof
       \/ l = pos + 1 /\ Line(l) = <<Size(x)>> /\ Line(l) # <<>>
  <2>1. <<Size(x)>> # <<>>
    OBVIOUS
  <2> QED BY <1>0, <1>11, <1>13, <1>14, <2>1, LineIs
<1>16. CASE l = pos /\ Line(l) = <<>> /\ Eof
  <2>1. phase' = BodyEnd /\ out' = out /\ pos' = pos
    BY <1>13, <1>16
  <2>2. Eof'
    BY <1>2, <1>16, <2>1 DEF Eof
  <2>3. CASE Rewriting
    <3>1. phase' = "emit" /\ Rewritable(m) /\ buf = Joined(m.chunks, j)
      BY <1>6, <1>12, <2>1, <2>3 DEF BodyEnd, Kept
    <3>2. Written(i, m, 0)'
      BY <1>2, <1>5, <2>1, <3>1, Zenon DEF Written
    <3>3. pos' = Start(script', i) + At(m, j) /\ buf' = Joined(m.chunks, j)
      BY <1>2, <1>5, <1>6, <2>1, <3>1
    <3>4. InEmit(i, m)'
      BY <1>4, <1>5, <2>2, <3>1, <3>2, <3>3, Zenon DEF InEmit
    <3> QED BY <1>2, <1>4, <3>4, Zenon DEF Ordered
  <2>4. CASE ~Rewriting
    <3>1. phase' = "headers" /\ head' = <<>>
      BY <1>2, <2>1, <2>4 DEF BodyEnd, Rewriting
    <3> QED BY <1>0, <1>2, <2>1, <2>2, <3>1, Ending
  <2> QED BY <2>3, <2>4
<1>17. CASE l = pos + 1 /\ Line(l) = <<Size(x)>> /\ Line(l) # <<>>
  <2> DEFINE next == AfterSize(<<Size(x)>>)
  <2>1. /\ Pass(<<Size(x)>>, next)
        /\ left' = IF next = "chunk" THEN <<Size(x)>>[1][2] ELSE 0
    BY <1>13, <1>17
  <2>2. <<Size(x)>>[1][1] = "size" /\ <<Size(x)>>[1][2] = x
    BY DEF Size
  <2>3. /\ next = IF x = 0 THEN "trailer" ELSE next
        /\ next \in {"failed", "trailer", "chunk"}
        /\ x # 0 => next # "trailer"
        /\ next = "failed" => Rewriting
    <3>1. x = 0 => next = "trailer"
      BY <2>2, Zenon DEF AfterSize
    <3>2. x # 0 => next = "chunk" \/ (next = "failed" /\ Rewriting)
      BY <2>2, Zenon DEF AfterSize
    <3> QED BY <3>1, <3>2
  <2> HIDE DEF next
  <2>4. \/ phase' = next /\ Written(i, m, k + 1)'
        \/ phase' = "failed" /\ out' = out
    BY <1>2, <1>3, <1>4, <1>5, <1>9, <1>10, <2>1, Passed DEF Plain
  <2>5. CASE phase' = "failed" /\ out' = out
    BY <1>0, <1>2, <2>5, Ending
  <2>6. CASE phase' = next /\ Written(i, m, k + 1)' /\ next = "failed"
    <3>1. out' = out
      BY <2>1, <2>3, <2>6, Zenon DEF Pass
    <3> QED BY <1>0, <1>2, <2>6, <3>1, Ending
  <2>7. CASE phase' = next /\ Written(i, m, k + 1)' /\ next # "failed"
    <3>1. pos' = Start(script, i) + (k + 1)
      BY <1>11, <1>13, <1>17
    <3>2. InChunks(m, k + 1)'
      <4>1. CASE j = n
        <5>1. x = 0
          BY <4>1 DEF x
        <5>2. phase' = "trailer"
          BY <2>3, <2>7, <5>1
        <5>3. Kept(m, Body(m))'
          <6>1. Joined(m.chunks, n) = Body(m)
            BY <1>4, ChunksOf, JoinedParts DEF Body, n
          <6> QED BY <1>2, <1>6, <4>1, <6>1 DEF Kept
        <5>4. AtTrailer(m, k + 1, j)'
          BY <1>6, <4>1, <5>2, <5>3 DEF AtTrailer, n
        <5> QED BY <1>4, <1>5, <5>4, Zenon DEF InChunks
      <4>2. CASE j # n
        <5>1. x = Len(m.chunks[j + 1]) /\ x # 0 /\ x \in Nat /\ j < n
          BY <1>7, <4>2 DEF x
        <5>2. phase' = "chunk" /\ left' = x
          BY <2>1, <2>2, <2>3, <2>7, <5>1
        <5>3. Joined(m.chunks, j) \o SubSeq(m.chunks[j + 1], 1, 0) = Joined(m.chunks, j)
          <6>1. SubSeq(m.chunks[j + 1], 1, 0) = <<>>
            BY SubSeqEmpty
          <6>2. Joined(m.chunks, j) \in Seq(Units)
            BY <1>4, ChunksOf, JoinedParts
          <6> QED BY <6>1, <6>2, ConcatEmptySeq
        <5>4. Kept(m, Joined(m.chunks, j) \o SubSeq(m.chunks[j + 1], 1, 0))'
          BY <1>2, <1>6, <5>3 DEF Kept
        <5>5. 0 \in 0..Len(m.chunks[j + 1]) /\ left' = Len(m.chunks[j + 1]) - 0 /\ left' # 0
              /\ k + 1 = At(m, j) + 1 + 0 /\ j < Len(m.chunks)
          BY <1>6, <1>8, <5>1, <5>2 DEF n
        <5>6. InUnits(m, k + 1, j)'
          BY <5>2, <5>4, <5>5, Zenon DEF InUnits
        <5> QED BY <1>4, <1>5, <5>6, Zenon DEF InChunks
      <4> QED BY <4>1, <4>2
    <3> QED BY <1>2, <1>4, <1>9, <2>7, <3>1, <3>2, Reached
  <2> QED BY <2>4, <2>5, <2>6, <2>7
<1> QED BY <1>15, <1>16, <1>17

\* A unit of a chunk is written, or kept (lines 416-427 and 473-476).
LEMMA ReadChunkOrdered ==
  ASSUME IInv, Ordered, Tracked, ReadChunk
  PROVE  Ordered'
<1>0. TypeOK
  BY DEF IInv
<1>1. phase = "chunk" /\ UNCHANGED <<envVars, head>>
  BY DEF ReadChunk
<1>2. script' = script /\ sent' = sent /\ origin' = origin /\ head' = head
  BY <1>1 DEF envVars
<1>3. script \in Seq(Responses)
  BY <1>0, <1>1, ChunkPlace
<1>4. PICK i \in 0..Len(script), m \in Responses :
        /\ i < Len(script) /\ m = script[i + 1] /\ Plain(m) /\ Chunked(m)
        /\ \E k \in 2..Len(Encode(m)) : \E j \in 0..Len(m.chunks) :
             /\ pos = Start(script, i) + k /\ Written(i, m, k)
             /\ AtSize(m, k, j) \/ InUnits(m, k, j) \/ AtChunkEnd(m, k, j) \/ AtTrailer(m, k, j)
  BY <1>0, <1>1, ChunkPlace, Zenon
<1>5. PICK k \in 2..Len(Encode(m)), j \in 0..Len(m.chunks) :
        /\ pos = Start(script, i) + k /\ Written(i, m, k)
        /\ AtSize(m, k, j) \/ InUnits(m, k, j) \/ AtChunkEnd(m, k, j) \/ AtTrailer(m, k, j)
  BY <1>4, Zenon
<1> DEFINE c == m.chunks[j + 1]
           b == Joined(m.chunks, j)
<1>6. j < Len(m.chunks) /\ InUnits(m, k, j)
  BY <1>1, <1>5 DEF AtSize, InUnits, AtChunkEnd, AtTrailer
<1>7. PICK u \in 0..Len(c) :
        /\ left = Len(c) - u /\ left # 0 /\ k = At(m, j) + 1 + u
        /\ Kept(m, b \o SubSeq(c, 1, u))
  BY <1>6, Zenon DEF InUnits
<1>8. /\ m.chunks \in Seq(Seq(Units)) /\ Len(m.chunks) \in Nat
      /\ j + 1 \in 1..Len(m.chunks) /\ j \in Nat /\ j + 1 \in 0..Len(m.chunks)
      /\ c \in Seq(Units) /\ Len(c) \in Nat /\ b \in Seq(Units)
      /\ Joined(m.chunks, j + 1) = b \o c
  <2>1. m.chunks \in Seq(Seq(Units)) /\ Len(m.chunks) \in Nat
    BY <1>4, ChunksOf
  <2>2. j + 1 \in 1..Len(m.chunks) /\ j \in Nat /\ j + 1 \in 0..Len(m.chunks)
    BY <1>6, <2>1
  <2>3. c \in Seq(Units) /\ b \in Seq(Units) /\ Joined(m.chunks, j + 1) = b \o c
    BY <1>6, <2>1, JoinedParts
  <2> QED BY <2>1, <2>2, <2>3, LenProperties
<1>9. /\ At(m, j) \in Nat /\ At(m, j + 1) = At(m, j) + Len(c) + 2
      /\ At(m, j + 1) + 2 <= Len(Encode(m)) /\ Len(Encode(m)) \in Nat
      /\ \A v \in 1..Len(c) : Encode(m)[At(m, j) + 1 + v] = c[v]
  <2>1. Len(Encode(m)) \in Nat
    BY <1>4, HeaderTokens DEF Plain
  <2>2. /\ At(m, j + 1) = At(m, j) + Len(c) + 2
        /\ \A v \in 1..Len(c) : Encode(m)[At(m, j) + 1 + v] = c[v]
    <3>1. At(m, j + 1) = At(m, j) + Len(m.chunks[j + 1]) + 2
      BY <1>4, <1>6, ChunkedTokens
    <3>2. \A v \in 1..Len(m.chunks[j + 1]) :
            Encode(m)[At(m, j) + 1 + v] = m.chunks[j + 1][v]
      BY <1>4, <1>6, ChunkedTokens, ZenonT(30)
    <3> QED BY <3>1, <3>2, Zenon
  <2>3. At(m, j) \in Nat /\ At(m, j + 1) + 2 <= Len(Encode(m))
    BY <1>4, <1>8, ChunkedTokens
  <2> QED BY <2>1, <2>2, <2>3
<1>10. Rewriting <=> Rewritable(m)
  BY <1>4, <1>5, HoldsBack DEF Plain
<1> HIDE DEF c, b
<1>11. /\ u \in Nat /\ u < Len(c) /\ u + 1 \in 1..Len(c) /\ left - 1 = Len(c) - (u + 1)
       /\ k \in 0..Len(Encode(m)) /\ k < Len(Encode(m)) /\ k + 1 \in 2..Len(Encode(m))
       /\ k + 1 = At(m, j) + 1 + (u + 1)
  <2>1. u \in Nat /\ u < Len(c) /\ u + 1 \in 1..Len(c) /\ left - 1 = Len(c) - (u + 1)
    <3>1. u \in 0..Len(c) /\ left = Len(c) - u /\ left # 0 /\ Len(c) \in Nat
      BY <1>7, <1>8
    <3> QED BY <3>1
  <2>2. /\ At(m, j) \in Nat /\ At(m, j + 1) = At(m, j) + Len(c) + 2
        /\ At(m, j + 1) + 2 <= Len(Encode(m)) /\ Len(Encode(m)) \in Nat
    BY <1>9
  <2>3. k = At(m, j) + 1 + u /\ Len(c) \in Nat /\ k \in 2..Len(Encode(m))
    BY <1>7, <1>8
  <2>4. ASSUME NEW a \in Nat, NEW n \in Nat, NEW e \in Nat, NEW v \in Nat, NEW l \in 2..e,
               v + 1 <= n, a + n + 2 + 2 <= e, l = a + 1 + v
        PROVE  l \in 0..e /\ l < e /\ l + 1 \in 2..e /\ l + 1 = a + 1 + (v + 1)
    BY <2>4
  <2>5. /\ u \in Nat /\ u + 1 <= Len(c) /\ Len(c) \in Nat /\ k \in 2..Len(Encode(m))
        /\ At(m, j) \in Nat /\ Len(Encode(m)) \in Nat
        /\ At(m, j) + Len(c) + 2 + 2 <= Len(Encode(m)) /\ k = At(m, j) + 1 + u
    BY <2>1, <2>2, <2>3
  <2>6. /\ k \in 0..Len(Encode(m)) /\ k < Len(Encode(m)) /\ k + 1 \in 2..Len(Encode(m))
        /\ k + 1 = At(m, j) + 1 + (u + 1)
    BY <2>4, <2>5, SMTT(20)
  <2> QED BY <2>1, <2>6
<1>12. Encode(m)[k + 1] = c[u + 1]
  <2>1. u + 1 \in 1..Len(c) /\ k + 1 = At(m, j) + 1 + (u + 1)
    BY <1>11
  <2>2. Encode(m)[At(m, j) + 1 + (u + 1)] = c[u + 1]
    BY <1>9, <2>1, Zenon
  <2> QED BY <2>1, <2>2, Zenon
<1>13. Next1 = c[u + 1] /\ pos + 1 = Start(script, i) + (k + 1)
  BY <1>0, <1>4, <1>5, <1>11, <1>12, NextToken
<1>14. CASE /\ Available
            /\ pos' = pos + 1
            /\ left' = left - 1
            /\ Pass(<<Next1>>, Counted("crlf"))
            /\ buf' = IF Rewriting THEN Append(buf, Next1) ELSE buf
  <2> DEFINE next == Counted("crlf")
  <2>1. next = IF left = 1 THEN "crlf" ELSE "chunk"
    BY <1>1, Zenon DEF Counted
  <2>2. Pass(<<Encode(m)[k + 1]>>, next)
    BY <1>12, <1>13, <1>14
  <2> HIDE DEF next
  <2>3. \/ phase' = next /\ Written(i, m, k + 1)'
        \/ phase' = "failed" /\ out' = out
    BY <1>2, <1>3, <1>4, <1>5, <1>11, <2>2, Passed DEF Plain
  <2>4. CASE phase' = "failed" /\ out' = out
    BY <1>0, <1>2, <2>4, Ending
  <2>5. CASE phase' = next /\ Written(i, m, k + 1)'
    <3>1. pos' = Start(script, i) + (k + 1)
      BY <1>13, <1>14
    <3>2. /\ SubSeq(c, 1, u) \in Seq(Units) /\ c[u + 1] \in Units
          /\ SubSeq(c, 1, u + 1) = SubSeq(c, 1, u) \o <<c[u + 1]>>
      <4>1. u \in 0..Len(c) /\ u \in u..Len(c)
        BY <1>8, <1>11
      <4> QED BY <1>8, <1>11, <4>1, ReadOn, PartAppend, ElementOfSeq
    <3>3. Append(b \o SubSeq(c, 1, u), c[u + 1]) = b \o SubSeq(c, 1, u + 1)
      <4>1. b \o SubSeq(c, 1, u) \in Seq(Units) /\ <<c[u + 1]>> \in Seq(Units)
        BY <1>8, <3>2, ConcatProperties, SingletonSeq
      <4>2. Append(b \o SubSeq(c, 1, u), c[u + 1]) = (b \o SubSeq(c, 1, u)) \o <<c[u + 1]>>
        BY <3>2, <4>1, AppendIsConcat
      <4>3. (b \o SubSeq(c, 1, u)) \o <<c[u + 1]>> = b \o (SubSeq(c, 1, u) \o <<c[u + 1]>>)
        <5>1. \A q \in Seq(Units), r \in Seq(Units), t \in Seq(Units) :
                (q \o r) \o t = q \o (r \o t)
          BY UnitsRegroup, Zenon
        <5> QED BY <1>8, <3>2, <4>1, <5>1, Zenon
      <4> QED BY <3>2, <4>2, <4>3
    <3>4. Kept(m, b \o SubSeq(c, 1, u + 1))'
      <4>1. Rewritable(m) => buf = b \o SubSeq(c, 1, u) /\ buf' = Append(buf, c[u + 1])
        BY <1>7, <1>10, <1>13, <1>14 DEF Kept
      <4> QED BY <3>3, <4>1, Zenon DEF Kept
    <3>5. InChunks(m, k + 1)'
      <4>1. CASE left = 1
        <5>1. phase' = "crlf" /\ u + 1 = Len(c)
          BY <1>7, <1>8, <1>11, <2>1, <2>5, <4>1
        <5>2. SubSeq(c, 1, u + 1) = c
          BY <1>8, <5>1, SubSeqFull
        <5>3. Kept(m, Joined(m.chunks, j + 1))'
          BY <1>8, <3>4, <5>2, Zenon
        <5>4. j + 1 # 0 /\ (k + 1) + 1 = At(m, j + 1)
          <6>1. At(m, j) \in Nat /\ At(m, j + 1) = At(m, j) + Len(c) + 2
            BY <1>9
          <6>2. j \in Nat /\ Len(c) \in Nat /\ k + 1 = At(m, j) + 1 + Len(c)
            BY <1>8, <1>11, <5>1
          <6> QED BY <6>1, <6>2, SMTT(20)
        <5>5. AtChunkEnd(m, k + 1, j + 1)'
          BY <5>1, <5>3, <5>4, Zenon DEF AtChunkEnd
        <5> QED BY <1>4, <1>8, <5>5, Zenon DEF InChunks
      <4>2. CASE left # 1
        <5>1. phase' = "chunk" /\ left' = Len(c) - (u + 1) /\ left' # 0 /\ u + 1 \in 0..Len(c)
          BY <1>7, <1>8, <1>11, <1>14, <2>1, <2>5, <4>2
        <5>2. InUnits(m, k + 1, j)'
          BY <1>6, <1>11, <3>4, <5>1, Zenon DEF InUnits, b, c
        <5> QED BY <1>4, <1>5, <5>2, Zenon DEF InChunks
      <4> QED BY <4>1, <4>2
    <3> QED BY <1>2, <1>4, <1>11, <2>5, <3>1, <3>5, Reached
  <2> QED BY <2>3, <2>4, <2>5
<1>15. CASE UnexpectedEof /\ UNCHANGED <<pos, left, buf, out>>
  BY <1>0, <1>2, <1>15, Ending DEF UnexpectedEof
<1> QED BY <1>14, <1>15 DEF ReadChunk

\* The CRLF after a chunk (lines 429-432 and 478-480).
LEMMA ReadChunkEndOrdered ==
  ASSUME IInv, Ordered, Tracked, ReadChunkEnd
  PROVE  Ordered'
<1>0. TypeOK
  BY DEF IInv
<1>1. phase = "crlf" /\ UNCHANGED <<envVars, head, left, buf>>
  BY DEF ReadChunkEnd
<1>2. script' = script /\ sent' = sent /\ origin' = origin /\ head' = head /\ buf' = buf
  BY <1>1 DEF envVars
<1>3. script \in Seq(Responses)
  BY <1>0, <1>1, ChunkPlace
<1>4. PICK i \in 0..Len(script), m \in Responses :
        /\ i < Len(script) /\ m = script[i + 1] /\ Plain(m) /\ Chunked(m)
        /\ \E k \in 2..Len(Encode(m)) : \E j \in 0..Len(m.chunks) :
             /\ pos = Start(script, i) + k /\ Written(i, m, k)
             /\ AtSize(m, k, j) \/ InUnits(m, k, j) \/ AtChunkEnd(m, k, j) \/ AtTrailer(m, k, j)
  BY <1>0, <1>1, ChunkPlace, Zenon
<1>5. PICK k \in 2..Len(Encode(m)), j \in 0..Len(m.chunks) :
        /\ pos = Start(script, i) + k /\ Written(i, m, k)
        /\ AtSize(m, k, j) \/ InUnits(m, k, j) \/ AtChunkEnd(m, k, j) \/ AtTrailer(m, k, j)
  BY <1>4, Zenon
<1>6. k + 1 = At(m, j) /\ Kept(m, Joined(m.chunks, j))
  BY <1>1, <1>5 DEF AtSize, InUnits, AtChunkEnd, AtTrailer
<1>7. At(m, j) \in Nat /\ At(m, j) + 2 <= Len(Encode(m)) /\ Len(Encode(m)) \in Nat
  BY <1>4, ChunkedTokens, HeaderTokens DEF Plain
<1>8. k \in 0..Len(Encode(m)) /\ k < Len(Encode(m)) /\ k + 1 \in 2..Len(Encode(m))
  BY <1>6, <1>7
<1>9. Next1 = Encode(m)[k + 1] /\ pos + 1 = Start(script, i) + (k + 1)
  BY <1>0, <1>4, <1>5, <1>8, NextToken
<1>10. CASE Available /\ pos' = pos + 1 /\ Pass(<<Next1>>, "size")
  <2>1. \/ phase' = "size" /\ Written(i, m, k + 1)'
        \/ phase' = "failed" /\ out' = out
    BY <1>2, <1>3, <1>4, <1>5, <1>8, <1>9, <1>10, Passed DEF Plain
  <2>2. CASE phase' = "failed" /\ out' = out
    BY <1>0, <1>2, <2>2, Ending
  <2>3. CASE phase' = "size" /\ Written(i, m, k + 1)'
    <3>1. pos' = Start(script, i) + (k + 1)
      BY <1>9, <1>10
    <3>2. AtSize(m, k + 1, j)'
      BY <1>2, <1>6, <2>3 DEF AtSize, Kept
    <3>3. InChunks(m, k + 1)'
      BY <1>4, <1>5, <3>2, Zenon DEF InChunks
    <3> QED BY <1>2, <1>4, <1>8, <2>3, <3>1, <3>3, Reached
  <2> QED BY <2>1, <2>2, <2>3
<1>11. CASE UnexpectedEof /\ UNCHANGED <<pos, out>>
  BY <1>0, <1>2, <1>11, Ending DEF UnexpectedEof
<1> QED BY <1>10, <1>11 DEF ReadChunkEnd

\* The line after the last chunk, which ends the response where no trailers
\* follow (lines 408-414 and 455-460).
LEMMA ReadTrailerOrdered ==
  ASSUME IInv, Ordered, Tracked, ReadTrailer
  PROVE  Ordered'
<1>0. TypeOK
  BY DEF IInv
<1>1. phase = "trailer" /\ UNCHANGED <<envVars, head, left, buf>>
  BY DEF ReadTrailer
<1>2. script' = script /\ sent' = sent /\ origin' = origin /\ head' = head /\ buf' = buf
  BY <1>1 DEF envVars
<1>3. script \in Seq(Responses)
  BY <1>0, <1>1, ChunkPlace
<1>4. PICK i \in 0..Len(script), m \in Responses :
        /\ i < Len(script) /\ m = script[i + 1] /\ Plain(m) /\ Chunked(m)
        /\ \E k \in 2..Len(Encode(m)) : \E j \in 0..Len(m.chunks) :
             /\ pos = Start(script, i) + k /\ Written(i, m, k)
             /\ AtSize(m, k, j) \/ InUnits(m, k, j) \/ AtChunkEnd(m, k, j) \/ AtTrailer(m, k, j)
  BY <1>0, <1>1, ChunkPlace, Zenon
<1>5. PICK k \in 2..Len(Encode(m)), j \in 0..Len(m.chunks) :
        /\ pos = Start(script, i) + k /\ Written(i, m, k)
        /\ AtSize(m, k, j) \/ InUnits(m, k, j) \/ AtChunkEnd(m, k, j) \/ AtTrailer(m, k, j)
  BY <1>4, Zenon
<1>6. k = At(m, Len(m.chunks)) + 1 /\ Kept(m, Body(m))
  BY <1>1, <1>5 DEF AtSize, InUnits, AtChunkEnd, AtTrailer
<1>7. /\ At(m, Len(m.chunks)) \in Nat /\ Len(Encode(m)) = At(m, Len(m.chunks)) + 2
      /\ Encode(m)[At(m, Len(m.chunks)) + 2] = CRLF
  <2>1. Len(m.chunks) \in 0..Len(m.chunks)
    BY <1>4, ChunksOf
  <2> QED BY <1>4, <2>1, ChunkedTokens
<1>8. /\ k \in 0..Len(Encode(m)) /\ k < Len(Encode(m)) /\ k + 1 = Len(Encode(m))
      /\ k + 1 = At(m, Len(m.chunks)) + 2
  BY <1>6, <1>7
<1>9. /\ pos < Len(wire) /\ wire[pos + 1] = Encode(m)[k + 1] /\ Encode(m)[k + 1] = CRLF
      /\ pos + 1 = Start(script, i) + Len(Encode(m))
  BY <1>0, <1>4, <1>5, <1>7, <1>8, NextToken
<1>10. Rewriting <=> Rewritable(m)
  BY <1>4, <1>5, HoldsBack DEF Plain
<1>11. PICK l \in pos..sent : LineTo(l) /\ pos' = l /\ Pass(Line(l), BodyEnd)
  BY DEF ReadTrailer
<1>12. \/ l = pos /\ Line(l) = <<>> /\ Eof
       \/ l = pos + 1 /\ Line(l) = <<Encode(m)[k + 1]>>
  <2>1. EndsLine(wire[pos + 1])
    BY <1>9 DEF EndsLine, CRLF
  <2> QED BY <1>0, <1>9, <1>11, <2>1, LineIs
<1>13. Rewritable(m) => buf' = Body(m) /\ Written(i, m, 0)
  BY <1>2, <1>5, <1>6 DEF Kept, Written
<1>14. CASE l = pos /\ Line(l) = <<>> /\ Eof
  <2>1. out' = out /\ phase' \in {BodyEnd, "failed"}
    BY <1>0, <1>11, <1>14, PassedNothing
  <2>2. Eof'
    BY <1>2, <1>11, <1>14 DEF Eof
  <2>3. CASE phase' = "failed"
    BY <1>0, <1>2, <2>1, <2>3, Ending
  <2>4. CASE phase' = BodyEnd /\ Rewriting
    <3>1. phase' = "emit" /\ Rewritable(m)
      BY <1>10, <2>4 DEF BodyEnd
    <3>2. Written(i, m, 0)'
      BY <1>2, <1>13, <2>1, <3>1, Zenon DEF Written
    <3>3. InEmit(i, m)'
      BY <1>13, <2>2, <3>1, <3>2, Zenon DEF InEmit
    <3> QED BY <1>2, <1>4, <3>3, Zenon DEF Ordered
  <2>5. CASE phase' = BodyEnd /\ ~Rewriting
    <3>1. phase' = "headers" /\ head' = <<>>
      BY <1>2, <2>5 DEF BodyEnd, Rewriting
    <3> QED BY <1>0, <1>2, <2>1, <2>2, <3>1, Ending
  <2> QED BY <2>1, <2>3, <2>4, <2>5
<1>15. CASE l = pos + 1 /\ Line(l) = <<Encode(m)[k + 1]>>
  <2>1. \/ phase' = BodyEnd /\ Written(i, m, k + 1)'
        \/ phase' = "failed" /\ out' = out
    <3>1. Pass(<<Encode(m)[k + 1]>>, BodyEnd)
      BY <1>11, <1>15
    <3> QED BY <1>2, <1>3, <1>4, <1>5, <1>8, <3>1, Passed DEF Plain
  <2>2. CASE phase' = "failed" /\ out' = out
    BY <1>0, <1>2, <2>2, Ending
  <2>3. CASE phase' = BodyEnd /\ Written(i, m, k + 1)'
    <3>1. pos' = Start(script, i) + Len(Encode(m))
      BY <1>9, <1>11, <1>15
    <3>2. CASE Rewriting
      <4>1. phase' = "emit" /\ Rewritable(m)
        BY <1>10, <2>3, <3>2 DEF BodyEnd
      <4>2. Written(i, m, 0)'
        BY <2>3, <4>1, Zenon DEF Written
      <4>3. pos' = Start(script', i + 1)
        BY <1>2, <1>3, <1>4, <3>1, TokenOf
      <4>4. InEmit(i, m)'
        BY <1>13, <4>1, <4>2, <4>3, Zenon DEF InEmit
      <4> QED BY <1>2, <1>4, <4>4, Zenon DEF Ordered
    <3>3. CASE ~Rewriting
      <4>1. phase' = "headers" /\ ~Rewritable(m)
        BY <1>10, <2>3, <3>3 DEF BodyEnd
      <4> QED BY <1>2, <1>3, <1>4, <1>8, <2>3, <3>1, <4>1, Completed
    <3> QED BY <3>2, <3>3
  <2> QED BY <2>1, <2>2, <2>3
<1> QED BY <1>12, <1>14, <1>15

-----------------------------------------------------------------------------
(* Bodies with a length, and those that end with the connection.           *)

\* One more unit of a body of known length.
LEMMA OneMoreUnit ==
  ASSUME TypeOK, script \in Seq(Responses), NEW i \in 0..Len(script), i < Len(script),
         NEW m, m = script[i + 1], Plain(m), m.framing = "length",
         NEW k \in 2..Len(Encode(m)), pos = Start(script, i) + k,
         left = Len(Encode(m)) - k, left # 0
  PROVE  /\ k \in 0..Len(Encode(m)) /\ k < Len(Encode(m)) /\ k + 1 \in 2..Len(Encode(m))
         /\ left - 1 = Len(Encode(m)) - (k + 1) /\ (left = 1 <=> k + 1 = Len(Encode(m)))
         /\ Next1 = Encode(m)[k + 1] /\ pos + 1 = Start(script, i) + (k + 1)
         /\ Append(SubSeq(Body(m), 1, k - 2), Next1) = SubSeq(Body(m), 1, (k + 1) - 2)
<1>1. ~Chunked(m)
  BY DEF Chunked
<1>2. /\ Len(Encode(m)) = 2 + Len(Body(m)) /\ Len(Body(m)) \in Nat /\ Body(m) \in Seq(Units)
      /\ \A l \in 1..Len(Body(m)) : Encode(m)[2 + l] = Body(m)[l]
  BY <1>1, BodyTokens, ChunksOf
<1>3. /\ k \in 0..Len(Encode(m)) /\ k < Len(Encode(m)) /\ k + 1 \in 2..Len(Encode(m))
      /\ left - 1 = Len(Encode(m)) - (k + 1) /\ (left = 1 <=> k + 1 = Len(Encode(m)))
  BY <1>2
<1>4. Next1 = Encode(m)[k + 1] /\ pos + 1 = Start(script, i) + (k + 1)
  BY <1>3, NextToken
<1> DEFINE l == k - 2
<1>5. /\ l \in 0..Len(Body(m)) /\ l < Len(Body(m)) /\ l + 1 \in 1..Len(Body(m))
      /\ 2 + (l + 1) = k + 1 /\ (k + 1) - 2 = l + 1
  <2>1. Len(Encode(m)) = 2 + Len(Body(m)) /\ Len(Body(m)) \in Nat
    BY <1>2
  <2>2. k \in 2..Len(Encode(m)) /\ k < Len(Encode(m))
    BY <1>3
  <2> QED BY <2>1, <2>2
<1> HIDE DEF l
<1>6. Next1 = Body(m)[l + 1]
  BY <1>2, <1>4, <1>5
<1>7. SubSeq(Body(m), 1, l + 1) = Append(SubSeq(Body(m), 1, l), Body(m)[l + 1])
  BY <1>2, <1>5, PartAppend
<1>8. Append(SubSeq(Body(m), 1, l), Next1) = SubSeq(Body(m), 1, (k + 1) - 2)
  BY <1>5, <1>6, <1>7, Zenon
<1> QED BY <1>3, <1>4, <1>8 DEF l

\* A text body of known length is kept until all of it came (lines 349-355).
LEMMA ReadBodyOrdered ==
  ASSUME IInv, Ordered, Tracked, ReadBody
  PROVE  Ordered'
<1>0. TypeOK
  BY DEF IInv
<1>1. phase = "body" /\ UNCHANGED <<envVars, head, out>>
  BY DEF ReadBody
<1>2. script' = script /\ sent' = sent /\ origin' = origin /\ head' = head /\ out' = out
  BY <1>1 DEF envVars
<1>3. /\ script \in Seq(Responses)
      /\ \E i \in 0..Len(script) :
           i < Len(script) /\ InBody(i, script[i + 1]) /\ Plain(script[i + 1])
  BY <1>0, <1>1, BodyPlace, Zenon
<1>4. PICK i \in 0..Len(script) :
        i < Len(script) /\ InBody(i, script[i + 1]) /\ Plain(script[i + 1])
  BY <1>3
<1>5. PICK m : m = script[i + 1]
  OBVIOUS
<1>6. PICK k \in 2..Len(Encode(m)) :
        /\ pos = Start(script, i) + k /\ Written(i, m, k)
        /\ InStream(m, k) \/ InLength(m, k) \/ InChunks(m, k)
  BY <1>4, <1>5, Zenon DEF InBody
<1>7. InLength(m, k) /\ Rewritable(m)
  BY <1>1, <1>6 DEF InStream, InLength, InChunks, AtSize, InUnits, AtChunkEnd, AtTrailer
<1>8. /\ m.framing = "length" /\ left = Len(Encode(m)) - k /\ left # 0
      /\ buf = SubSeq(Body(m), 1, k - 2)
  BY <1>7 DEF InLength, Kept
<1>9. /\ k + 1 \in 2..Len(Encode(m)) /\ left - 1 = Len(Encode(m)) - (k + 1)
      /\ (left = 1 <=> k + 1 = Len(Encode(m))) /\ pos + 1 = Start(script, i) + (k + 1)
      /\ Append(buf, Next1) = SubSeq(Body(m), 1, (k + 1) - 2)
  <2>1. /\ k + 1 \in 2..Len(Encode(m)) /\ left - 1 = Len(Encode(m)) - (k + 1)
        /\ (left = 1 <=> k + 1 = Len(Encode(m))) /\ pos + 1 = Start(script, i) + (k + 1)
        /\ Append(SubSeq(Body(m), 1, k - 2), Next1) = SubSeq(Body(m), 1, (k + 1) - 2)
    BY <1>0, <1>3, <1>4, <1>5, <1>6, <1>8, OneMoreUnit, SMTT(20)
  <2> QED BY <1>8, <2>1, Zenon
<1>10. CASE /\ pos' = pos + 1 /\ left' = left - 1 /\ buf' = Append(buf, Next1)
            /\ phase' = Counted("emit")
  <2>1. Written(i, m, k + 1)' /\ Written(i, m, 0)'
    BY <1>2, <1>6, <1>7, Zenon DEF Written
  <2>2. pos' = Start(script, i) + (k + 1) /\ buf' = SubSeq(Body(m), 1, (k + 1) - 2)
    BY <1>9, <1>10
  <2>3. CASE left = 1
    <3>1. phase' = "emit" /\ k + 1 = Len(Encode(m))
      BY <1>9, <1>10, <2>3 DEF Counted
    <3>2. buf' = Body(m)
      <4>1. ~Chunked(m)
        BY <1>8 DEF Chunked
      <4>2. (k + 1) - 2 = Len(Body(m)) /\ Body(m) \in Seq(Units)
        BY <1>4, <1>5, <3>1, <4>1, BodyTokens, ChunksOf
      <4> QED BY <2>2, <4>2, SubSeqFull
    <3>3. pos' = Start(script', i + 1)
      BY <1>2, <1>3, <1>4, <1>5, <2>2, <3>1, TokenOf
    <3>4. InEmit(i, m)'
      BY <1>7, <2>1, <3>1, <3>2, <3>3, Zenon DEF InEmit
    <3> QED BY <1>2, <1>4, <1>5, <3>4, Zenon DEF Ordered
  <2>4. CASE left # 1
    <3>1. phase' = "body" /\ left' = Len(Encode(m)) - (k + 1) /\ left' # 0
      <4>1. phase' = "body"
        BY <1>1, <1>10, <2>4 DEF Counted
      <4>2. left' # 0 /\ left' = Len(Encode(m)) - (k + 1)
        BY <1>0, <1>8, <1>9, <1>10, <2>4 DEF TypeOK
      <4> QED BY <4>1, <4>2
    <3>2. InLength(m, k + 1)'
      BY <1>7, <1>8, <2>2, <3>1, Zenon DEF InLength, Kept
    <3> QED BY <1>2, <1>4, <1>5, <1>9, <2>1, <2>2, <3>2, Reached
  <2> QED BY <2>3, <2>4
<1>11. CASE UnexpectedEof
  BY <1>0, <1>2, <1>11, Ending DEF UnexpectedEof
<1> QED BY <1>10, <1>11 DEF ReadBody

\* A body of known length that is passed on (lines 328-346).
LEMMA CopyFixedOrdered ==
  ASSUME IInv, Ordered, Tracked, CopyFixed
  PROVE  Ordered'
<1>0. TypeOK
  BY DEF IInv
<1>1. phase = "fixed" /\ UNCHANGED <<envVars, head, buf>>
  BY DEF CopyFixed
<1>2. script' = script /\ sent' = sent /\ origin' = origin /\ head' = head
  BY <1>1 DEF envVars
<1>3. /\ script \in Seq(Responses)
      /\ \E i \in 0..Len(script) :
           i < Len(script) /\ InBody(i, script[i + 1]) /\ Plain(script[i + 1])
  BY <1>0, <1>1, BodyPlace, Zenon
<1>4. PICK i \in 0..Len(script) :
        i < Len(script) /\ InBody(i, script[i + 1]) /\ Plain(script[i + 1])
  BY <1>3
<1>5. PICK m : m = script[i + 1]
  OBVIOUS
<1>6. PICK k \in 2..Len(Encode(m)) :
        /\ pos = Start(script, i) + k /\ Written(i, m, k)
        /\ InStream(m, k) \/ InLength(m, k) \/ InChunks(m, k)
  BY <1>4, <1>5, Zenon DEF InBody
<1>7. InLength(m, k) /\ ~Rewritable(m)
  BY <1>1, <1>6 DEF InStream, InLength, InChunks, AtSize, InUnits, AtChunkEnd, AtTrailer
<1>8. /\ m.framing = "length" /\ left = Len(Encode(m)) - k /\ left # 0
  BY <1>7 DEF InLength
<1>9. /\ k \in 0..Len(Encode(m)) /\ k < Len(Encode(m)) /\ k + 1 \in 2..Len(Encode(m))
      /\ left - 1 = Len(Encode(m)) - (k + 1) /\ (left = 1 <=> k + 1 = Len(Encode(m)))
      /\ Next1 = Encode(m)[k + 1] /\ pos + 1 = Start(script, i) + (k + 1)
  BY <1>0, <1>3, <1>4, <1>5, <1>6, <1>8, OneMoreUnit
<1>10. ~Rewriting
  BY <1>4, <1>5, <1>6, <1>7, HoldsBack DEF Plain
<1>11. CASE pos' = pos + 1 /\ left' = left - 1 /\ Write(<<Next1>>, Counted("headers"))
  <2> DEFINE next == Counted("headers")
  <2>1. next = IF left = 1 THEN "headers" ELSE "fixed"
    BY <1>1, Zenon DEF Counted
  <2>2. Pass(<<Encode(m)[k + 1]>>, next)
    BY <1>9, <1>10, <1>11 DEF Pass
  <2> HIDE DEF next
  <2>3. \/ phase' = next /\ Written(i, m, k + 1)'
        \/ phase' = "failed" /\ out' = out
    BY <1>2, <1>3, <1>4, <1>5, <1>6, <1>9, <2>2, Passed DEF Plain
  <2>4. CASE phase' = "failed" /\ out' = out
    BY <1>0, <1>2, <2>4, Ending
  <2>5. CASE phase' = next /\ Written(i, m, k + 1)'
    <3>1. pos' = Start(script, i) + (k + 1)
      BY <1>9, <1>11
    <3>2. CASE left = 1
      <4>1. phase' = "headers" /\ k + 1 = Len(Encode(m))
        BY <1>9, <2>1, <2>5, <3>2
      <4> QED BY <1>2, <1>3, <1>4, <1>5, <1>7, <2>5, <3>1, <4>1, Completed
    <3>3. CASE left # 1
      <4>1. phase' = "fixed"
        BY <2>1, <2>5, <3>3
      <4>2. left' # 0 /\ left' = Len(Encode(m)) - (k + 1)
        BY <1>0, <1>8, <1>9, <1>11, <3>3 DEF TypeOK
      <4>3. InLength(m, k + 1)'
        BY <1>7, <1>8, <4>1, <4>2, Zenon DEF InLength, Kept
      <4> QED BY <1>2, <1>4, <1>5, <1>9, <2>5, <3>1, <4>3, Reached
    <3> QED BY <3>2, <3>3
  <2> QED BY <2>3, <2>4, <2>5
<1>12. CASE Eof /\ phase' = "headers" /\ UNCHANGED <<pos, left, out>>
  <2>1. Eof' /\ head' = <<>>
    BY <1>2, <1>6, <1>7, <1>12 DEF Eof, Written
  <2> QED BY <1>0, <1>2, <1>12, <2>1, Ending
<1> QED BY <1>11, <1>12 DEF CopyFixed

\* A body that the end of the connection delimits is the last (lines 302-312).
LEMMA CopyStreamOrdered ==
  ASSUME IInv, Ordered, Tracked, CopyStream
  PROVE  Ordered'
<1>0. TypeOK
  BY DEF IInv
<1>1. phase = "stream" /\ UNCHANGED <<envVars, head, left, buf>>
  BY DEF CopyStream
<1>2. script' = script /\ sent' = sent /\ origin' = origin /\ head' = head
  BY <1>1 DEF envVars
<1>3. /\ script \in Seq(Responses) /\ wire = Stream(script)
      /\ \E i \in 0..Len(script) :
           /\ i < Len(script) /\ InBody(i, script[i + 1]) /\ Plain(script[i + 1])
           /\ script[i + 1].framing = "close" => i + 1 = Len(script)
  BY <1>0, <1>1, BodyPlace
<1>4. PICK i \in 0..Len(script) :
        /\ i < Len(script) /\ InBody(i, script[i + 1]) /\ Plain(script[i + 1])
        /\ script[i + 1].framing = "close" => i + 1 = Len(script)
  BY <1>3
<1>5. PICK m : m = script[i + 1]
  OBVIOUS
<1>6. PICK k \in 2..Len(Encode(m)) :
        /\ pos = Start(script, i) + k /\ Written(i, m, k)
        /\ InStream(m, k) \/ InLength(m, k) \/ InChunks(m, k)
  BY <1>4, <1>5, Zenon DEF InBody
<1>7. m.framing = "close" /\ ~Rewritable(m)
  <2>1. InStream(m, k)
    BY <1>1, <1>6 DEF InLength, InChunks, AtSize, InUnits, AtChunkEnd, AtTrailer
  <2> QED BY <2>1 DEF InStream, Rewritable
<1>8. ~Rewriting
  BY <1>4, <1>5, <1>6, <1>7, HoldsBack DEF Plain
<1>9. CASE Available /\ pos' = pos + 1 /\ Write(<<Next1>>, "stream")
  <2>1. Len(Encode(m)) \in Nat /\ Start(script, i) + Len(Encode(m)) = Len(wire)
    <3>1. i + 1 = Len(script)
      BY <1>4, <1>5, <1>7
    <3>2. Start(script, i + 1) = Start(script, i) + Len(Encode(m)) /\ Len(Encode(m)) \in Nat
      BY <1>3, <1>4, <1>5, TokenOf
    <3>3. Start(script, Len(script)) = Len(wire)
      BY <1>3, StreamEnds
    <3> QED BY <3>1, <3>2, <3>3
  <2>2. pos < Len(wire) /\ Start(script, i) \in Nat
    <3>1. Start(script, i) \in Nat
      BY <1>3, <1>4, TokenOf
    <3> QED BY <1>0, <1>9, <3>1, Reading DEF Available
  <2>3. k \in 0..Len(Encode(m)) /\ k < Len(Encode(m)) /\ k + 1 \in 2..Len(Encode(m))
    BY <1>6, <2>1, <2>2
  <2>4. Next1 = Encode(m)[k + 1] /\ pos + 1 = Start(script, i) + (k + 1)
    BY <1>0, <1>4, <1>5, <1>6, <2>3, NextToken
  <2>5. Pass(<<Encode(m)[k + 1]>>, "stream")
    BY <1>8, <1>9, <2>4 DEF Pass
  <2>6. \/ phase' = "stream" /\ Written(i, m, k + 1)'
        \/ phase' = "failed" /\ out' = out
    BY <1>2, <1>3, <1>4, <1>5, <1>6, <2>3, <2>5, Passed DEF Plain
  <2>7. CASE phase' = "failed" /\ out' = out
    BY <1>0, <1>2, <2>7, Ending
  <2>8. CASE phase' = "stream" /\ Written(i, m, k + 1)'
    <3>1. pos' = Start(script, i) + (k + 1)
      BY <1>9, <2>4
    <3>2. InStream(m, k + 1)'
      BY <1>7, <2>8 DEF InStream
    <3> QED BY <1>2, <1>4, <1>5, <2>3, <2>8, <3>1, <3>2, Reached
  <2> QED BY <2>6, <2>7, <2>8
<1>10. CASE phase' = "done" /\ UNCHANGED <<pos, out>>
  BY <1>0, <1>2, <1>10, Ending
<1> QED BY <1>9, <1>10 DEF CopyStream

-----------------------------------------------------------------------------
(* A rewritten response goes out.                                          *)

\* The rewritten response follows what the client has seen; one that was cut
\* short passes for the whole (lines 361-384).
LEMMA EmitOrdered ==
  ASSUME IInv, Ordered, Tracked, Emit
  PROVE  Ordered'
<1>0. TypeOK
  BY DEF IInv
<1>1. phase = "emit" /\ head' = <<>> /\ UNCHANGED <<envVars, pos, left>>
  BY DEF Emit
<1>2. script' = script /\ sent' = sent /\ origin' = origin /\ pos' = pos
  BY <1>1 DEF envVars
<1>3. script \in Seq(Responses) /\ script \in Scripts
  BY <1>0, ScriptsAssumption DEF TypeOK
<1>4. PICK i \in 0..Len(script) : i < Len(script) /\ InEmit(i, script[i + 1])
  BY <1>1 DEF Ordered, Over, Lost, InHeaders, InBody, InStream, InLength, InChunks,
              AtSize, InUnits, AtChunkEnd, AtTrailer
<1>5. PICK m : m = script[i + 1]
  OBVIOUS
<1>6. i + 1 \in 1..Len(script) /\ i + 1 \in 0..Len(script) /\ DOMAIN script = 1..Len(script)
  BY <1>3, <1>4, LenProperties
<1>7. Plain(m)
  BY <1>3, <1>5, <1>6, TrackedArePlain
<1>8. /\ Rewritable(m) /\ head = HeadOf(m) /\ out = Done(script, i)
      /\ \/ buf = Body(m) /\ (pos = Start(script, i + 1) \/ Eof)
         \/ /\ Eof /\ Chunked(m)
            /\ \E j \in 0..Len(m.chunks) :
                 buf = Joined(m.chunks, j) /\ pos = Start(script, i) + At(m, j)
  BY <1>4, <1>5, Zenon DEF InEmit, Written
<1> DEFINE emitted == LET body == Rewrite(buf)
                          lines == IF Len(body) = Len(buf) THEN head
                                   ELSE UpdateContentLength(head, Len(body))
                      IN lines \o <<CRLF>> \o (IF Chunked(Parsed(head)) THEN WriteChunkedBody(body)
                                               ELSE body)
<1>9. \/ out' = out \o emitted /\ phase' = "headers"
      \/ out' = out /\ phase' = "failed"
  BY Zenon DEF Emit, Write
<1>10. ASSUME NEW p, Whole(p), buf = Body(p), head = HeadOf(p)
       PROVE  emitted = Encode(Rewritten(p))
  BY <1>10, EmittedIsRewritten, Zenon
<1> HIDE DEF emitted
<1>11. CASE out' = out /\ phase' = "failed"
  BY <1>0, <1>2, <1>11, Ending
<1>12. CASE /\ out' = out \o emitted /\ phase' = "headers"
            /\ buf = Body(m) /\ (pos = Start(script, i + 1) \/ Eof)
  <2>1. emitted = Encode(RelayedAs(m))
    BY <1>7, <1>8, <1>10, <1>12 DEF Plain, RelayedAs
  <2>2. Done(script, i + 1) = Done(script, i) \o Encode(RelayedAs(m))
    BY <1>3, <1>4, <1>5, DoneIsSeen
  <2>3. out' = Done(script, i + 1)
    BY <1>8, <1>12, <2>1, <2>2
  <2>4. CASE pos = Start(script, i + 1)
    <3>1. InHeaders(i + 1)'
      BY <1>1, <1>2, <1>12, <2>3, <2>4, Zenon DEF InHeaders
    <3> QED BY <1>2, <1>6, <3>1, Zenon DEF Ordered
  <2>5. CASE Eof
    <3>1. IsPrefix(out', Relayed(script'))
      BY <1>2, <1>3, <1>6, <2>3, DoneIsSeen
    <3>2. RelayedInOrder'
      BY <3>1, Zenon DEF RelayedInOrder
    <3>3. Eof'
      BY <1>2, <2>5 DEF Eof
    <3> QED BY <1>1, <1>12, <3>2, <3>3, Zenon DEF Ordered, Lost
  <2> QED BY <1>12, <2>4, <2>5
<1>13. CASE /\ out' = out \o emitted /\ phase' = "headers" /\ Eof /\ Chunked(m)
            /\ \E j \in 0..Len(m.chunks) :
                 buf = Joined(m.chunks, j) /\ pos = Start(script, i) + At(m, j)
  <2>1. PICK j \in 0..Len(m.chunks) :
          buf = Joined(m.chunks, j) /\ pos = Start(script, i) + At(m, j)
    BY <1>13
  <2>2. /\ Whole(Cut(m, j)) /\ Body(Cut(m, j)) = buf /\ HeadOf(Cut(m, j)) = head
    BY <1>7, <1>8, <1>13, <2>1, CutParts
  <2>3. emitted = Encode(Rewritten(Cut(m, j)))
    BY <1>10, <2>2
  <2>4. /\ Len(Stream(CutShort(i + 1, j))) = Start(script, i) + At(m, j) + 2
        /\ Relayed(CutShort(i + 1, j)) = Done(script, i) \o Encode(Rewritten(Cut(m, j)))
    BY <1>3, <1>4, <1>5, <1>7, <1>8, <1>13, <2>1, CutShortIs
  <2>5. out' = Relayed(CutShort(i + 1, j)) /\ out' \in Seq(Tokens)
    <3>1. out' = Relayed(CutShort(i + 1, j))
      BY <1>8, <1>13, <2>3, <2>4
    <3>2. Encode(Rewritten(Cut(m, j))) \in Seq(Tokens) /\ Done(script, i) \in Seq(Tokens)
      BY <1>3, <1>4, <2>2, RewrittenParts, HeaderTokens, DoneIsSeen
    <3> QED BY <2>4, <3>1, <3>2, ConcatProperties
  <2>6. IsPrefix(out', Relayed(CutShort(i + 1, j)))
    BY <2>5, LenProperties DEF IsPrefix
  <2>7. /\ i + 1 \in DOMAIN script /\ j \in DOMAIN script[i + 1].chunks \cup {0}
        /\ script[i + 1].text /\ Chunked(script[i + 1])
    <3>1. m.text
      BY <1>8 DEF Rewritable
    <3>2. j \in DOMAIN m.chunks \cup {0}
      <4>1. m.chunks \in Seq(Seq(Units)) /\ DOMAIN m.chunks = 1..Len(m.chunks)
            /\ Len(m.chunks) \in Nat
        BY <1>7, ChunksOf, LenProperties
      <4> QED BY <2>1, <4>1
    <3> QED BY <1>5, <1>6, <1>13, <3>1, <3>2
  <2>8. origin = "closed" /\ pos = sent
    BY <1>13 DEF Eof
  <2>9. Len(Stream(CutShort(i + 1, j))) = sent + 2
    BY <2>1, <2>4, <2>8
  <2>10. CutShort(i + 1, j)' = CutShort(i + 1, j)
    BY <1>2 DEF CutShort
  <2>11. RelayedInOrder'
    <3>1. Len(Stream(CutShort(i + 1, j)')) = sent' + 2 /\ IsPrefix(out', Relayed(CutShort(i + 1, j)'))
      BY <1>2, <2>6, <2>9, <2>10
    <3>2. /\ i + 1 \in DOMAIN script' /\ j \in DOMAIN script'[i + 1].chunks \cup {0}
          /\ script'[i + 1].text /\ Chunked(script'[i + 1]) /\ origin' = "closed"
      BY <1>2, <2>7, <2>8
    <3> QED BY <3>1, <3>2, Zenon DEF RelayedInOrder
  <2>12. Eof'
    BY <1>2, <1>13 DEF Eof
  <2> QED BY <1>1, <1>13, <2>11, <2>12, Zenon DEF Ordered, Lost
<1> QED BY <1>8, <1>9, <1>11, <1>12, <1>13

-----------------------------------------------------------------------------
(* Header lines.                                                           *)

\* Whether a body is rewritten is decided as Rewritable says, because the lengths
\* that the origin declares are right (lines 299-323).
LEMMA EndOfHeadersOrdered ==
  ASSUME IInv, Ordered, script \in Seq(Responses), NEW i \in 0..Len(script), i < Len(script),
         NEW m, m = script[i + 1], Plain(m),
         head = HeadOf(m), out = Done(script, i), buf = <<>>,
         EndOfHeaders, pos' = Start(script, i) + 2, UNCHANGED <<script, sent, origin, buf>>
  PROVE  Ordered'
<1> DEFINE f == Parsed(head)
           pass == f.framing = "close" \/ ~f.text \/ TooLarge(f)
           next == CASE f.framing = "close" -> "stream"
                     [] Chunked(f)          -> "size"
                     [] f.framing = "length" /\ f.len = 0 -> IF pass THEN "headers" ELSE "emit"
                     [] OTHER -> IF pass THEN "fixed" ELSE "body"
<1>1. /\ left' = IF f.framing = "length" THEN f.len ELSE 0
      /\ \/ pass /\ head' = <<>> /\ Write(head \o <<CRLF>>, next)
         \/ ~pass /\ phase' = next /\ UNCHANGED <<head, out>>
  BY Zenon DEF EndOfHeaders
<1>2. f = SentFields(m) /\ m \in Responses
  BY HeadParsed DEF Plain, Whole
<1>3. /\ f.framing = m.framing /\ f.text = m.text
      /\ f.len = (IF HasLength(m) THEN m.len ELSE 0)
      /\ (Chunked(f) <=> Chunked(m)) /\ (TooLarge(f) <=> TooLarge(m))
  BY <1>2 DEF SentFields, HasLength, Chunked, TooLarge
<1> HIDE DEF f
<1>4. m.framing \in {"length", "chunked", "both", "close"}
  BY <1>2 DEF Responses, Framings
<1>5. Len(Body(m)) \in Nat /\ Body(m) \in Seq(Units)
      /\ m.chunks \in Seq(Seq(Units)) /\ Len(m.chunks) \in Nat
  BY ChunksOf
<1>6. pass <=> ~Rewritable(m)
  <2>1. CASE m.framing = "length"
    <3>1. m.len = Len(Body(m)) /\ HasLength(m)
      BY <2>1 DEF Plain, HasLength
    <3>2. TooLarge(m) <=> ~(Len(Body(m)) <= MaxBody)
      BY <1>5, <3>1, MaxBodyAssumption DEF TooLarge
    <3> QED BY <1>3, <2>1, <3>2 DEF Rewritable
  <2>2. CASE Chunked(m)
    <3>1. m.framing # "close"
      BY <2>2 DEF Chunked
    <3>2. m.text => TooLarge(m) \/ Len(Body(m)) <= MaxBody
      BY <1>5, <2>2, MaxBodyAssumption DEF Plain
    <3> QED BY <1>3, <3>1, <3>2 DEF Rewritable
  <2>3. CASE m.framing = "close"
    BY <1>3, <2>3 DEF Rewritable
  <2> QED BY <1>4, <2>1, <2>2, <2>3 DEF Chunked
<1>7. /\ m.framing = "close" => next = "stream"
      /\ Chunked(m) => next = "size"
      /\ m.framing = "length" /\ Len(Body(m)) = 0 => next = IF pass THEN "headers" ELSE "emit"
      /\ m.framing = "length" /\ Len(Body(m)) # 0 => next = IF pass THEN "fixed" ELSE "body"
  <2>1. CASE m.framing = "close"
    BY <1>3, <2>1 DEF Chunked
  <2>2. CASE Chunked(m)
    <3>1. m.framing # "close" /\ m.framing # "length"
      BY <2>2 DEF Chunked
    <3> QED BY <1>3, <2>2, <3>1
  <2>3. CASE m.framing = "length"
    <3>1. f.len = Len(Body(m)) /\ ~Chunked(m)
      BY <1>3, <2>3 DEF HasLength, Plain, Chunked
    <3> QED BY <1>3, <2>3, <3>1
  <2> QED BY <1>4, <2>1, <2>2, <2>3 DEF Chunked
<1> HIDE DEF next, pass
<1>8. Len(Encode(m)) \in Nat /\ Len(Encode(m)) >= 2 /\ Encode(m) \in Seq(Tokens)
      /\ SubSeq(Encode(m), 1, 2) = HeadOf(m) \o <<CRLF>>
  BY HeaderTokens DEF Plain
<1>9. \/ phase' = next /\ Written(i, m, 2)'
      \/ phase' = "failed" /\ out' = out
  <2>1. CASE pass /\ head' = <<>> /\ Write(head \o <<CRLF>>, next)
    <3>1. \/ out' = out \o (head \o <<CRLF>>) /\ phase' = next
          \/ phase' = "failed" /\ out' = out
      BY <2>1, Zenon DEF Write
    <3>2. CASE out' = out \o (head \o <<CRLF>>) /\ phase' = next
      <4>1. out' = Done(script, i) \o SubSeq(Encode(m), 1, 2)
        BY <1>8, <3>2
      <4> QED BY <1>6, <2>1, <3>2, <4>1, Zenon DEF Written
    <3> QED BY <3>1, <3>2
  <2>2. CASE ~pass /\ phase' = next /\ UNCHANGED <<head, out>>
    BY <1>6, <2>2, Zenon DEF Written
  <2> QED BY <1>1, <2>1, <2>2
<1>10. CASE phase' = "failed" /\ out' = out
  BY <1>10, Ending DEF IInv
<1>11. CASE phase' = next /\ Written(i, m, 2)'
  <2>1. buf' = <<>> /\ 2 \in 2..Len(Encode(m)) /\ script' = script
    BY <1>8
  <2>2. CASE m.framing = "close"
    <3>1. InStream(m, 2)'
      BY <1>7, <1>11, <2>2 DEF InStream
    <3> QED BY <1>11, <2>1, <3>1, Reached
  <2>3. CASE Chunked(m)
    <3>1. At(m, 0) = 2 /\ Joined(m.chunks, 0) = <<>> /\ 0 \in 0..Len(m.chunks)
      BY <1>5, <2>3, ChunkedTokens, JoinedParts
    <3>2. AtSize(m, 2, 0)'
      BY <1>7, <1>11, <2>1, <2>3, <3>1 DEF AtSize, Kept
    <3>3. InChunks(m, 2)'
      BY <2>3, <3>1, <3>2, Zenon DEF InChunks
    <3> QED BY <1>11, <2>1, <3>3, Reached
  <2>4. CASE m.framing = "length" /\ Len(Body(m)) = 0
    <3>1. Len(Encode(m)) = 2 /\ Body(m) = <<>>
      <4>1. ~Chunked(m)
        BY <2>4 DEF Chunked
      <4>2. Len(Encode(m)) = 2 + Len(Body(m))
        BY <4>1, BodyTokens
      <4>3. Body(m) = <<>>
        BY <1>5, <2>4, EmptySeq
      <4> QED BY <2>4, <4>2, <4>3
    <3>2. CASE ~Rewritable(m)
      <4>1. phase' = "headers"
        BY <1>6, <1>7, <1>11, <2>4, <3>2
      <4> QED BY <1>11, <2>1, <3>1, <3>2, <4>1, Completed
    <3>3. CASE Rewritable(m)
      <4>1. phase' = "emit"
        BY <1>6, <1>7, <1>11, <2>4, <3>3
      <4>2. Written(i, m, 0)'
        BY <1>11, <3>3, Zenon DEF Written
      <4>3. pos' = Start(script', i + 1)
        BY <2>1, <3>1, TokenOf
      <4>4. InEmit(i, m)'
        BY <2>1, <3>1, <3>3, <4>1, <4>2, <4>3, Zenon DEF InEmit
      <4> QED BY <2>1, <4>4, Zenon DEF Ordered
    <3> QED BY <3>2, <3>3
  <2>5. CASE m.framing = "length" /\ Len(Body(m)) # 0
    <3>1. Len(Encode(m)) = 2 + Len(Body(m)) /\ m.len = Len(Body(m)) /\ HasLength(m)
      <4>1. ~Chunked(m) /\ m.len = Len(Body(m)) /\ HasLength(m)
        BY <2>5 DEF Chunked, Plain, HasLength
      <4> QED BY <4>1, BodyTokens
    <3>2. left' = Len(Encode(m)) - 2 /\ left' # 0
      BY <1>1, <1>3, <1>5, <2>5, <3>1
    <3>3. phase' = IF Rewritable(m) THEN "body" ELSE "fixed"
      BY <1>6, <1>7, <1>11, <2>5
    <3>4. SubSeq(Body(m), 1, 2 - 2) = <<>>
      BY SubSeqEmpty
    <3>5. InLength(m, 2)'
      BY <2>1, <2>5, <3>2, <3>3, <3>4 DEF InLength, Kept
    <3> QED BY <1>11, <2>1, <3>5, Reached
  <2> QED BY <1>4, <2>2, <2>3, <2>4, <2>5 DEF Chunked
<1> QED BY <1>9, <1>10, <1>11

\* A header line: the fields of the next response, the empty line behind them, or
\* the end of the stream (lines 247-283).
LEMMA ReadHeaderLineOrdered ==
  ASSUME IInv, Ordered, Tracked, ReadHeaderLine
  PROVE  Ordered'
<1>1. TypeOK /\ phase = "headers" /\ buf = <<>>
  BY DEF IInv, Collecting, ReadHeaderLine
<1>2. /\ script' = script /\ sent' = sent /\ origin' = origin /\ buf' = buf
      /\ script \in Seq(Responses) /\ script \in Scripts /\ wire = Stream(script)
      /\ Len(script) \in Nat
  BY <1>1, ScriptsAssumption, LenProperties DEF ReadHeaderLine, envVars, TypeOK
<1>3. PICK k \in pos..sent :
        /\ LineTo(k)
        /\ pos' = k
        /\ \/ Line(k) = <<>> /\ phase' = "done" /\ UNCHANGED <<head, left, out>>
           \/ Line(k) = <<CRLF>> /\ EndOfHeaders
           \/ /\ Line(k) \notin {<<>>, <<CRLF>>}
              /\ head' = head \o Line(k)
              /\ UNCHANGED <<phase, left, out>>
  BY DEF ReadHeaderLine
<1>4. pos \in Nat /\ sent \in Nat /\ Len(wire) \in Nat /\ sent <= Len(wire) /\ pos <= sent
  BY <1>1, Reading
<1>5. ASSUME k = pos
      PROVE  Ordered'
  <2>1. Line(k) = <<>>
    <3>1. pos + 1 > pos
      BY <1>4
    <3> QED BY <1>5, <3>1, SubSeqEmpty DEF Line
  <2>2. phase' = "done" /\ out' = out
    <3>1. <<>> # <<CRLF>>
      OBVIOUS
    <3> QED BY <1>3, <2>1, <3>1
  <2> QED BY <1>1, <1>2, <2>2, Ending
<1>6. \/ Lost
      \/ \E i \in 0..Len(script) : InHeaders(i)
  BY <1>1 DEF Ordered, Over, InBody, InStream, InLength, InChunks, AtSize, InUnits, AtChunkEnd,
              AtTrailer, InEmit
<1>7. CASE Lost
  <2>1. k = pos
    BY <1>3, <1>4, <1>7 DEF Lost, Eof
  <2> QED BY <1>5, <2>1
<1>8. ASSUME NEW i \in 0..Len(script), InHeaders(i)
      PROVE  Ordered'
  <2> DEFINE m == script[i + 1]
  <2>1. /\ out = Done(script, i)
        /\ \/ head = <<>> /\ pos = Start(script, i)
           \/ i < Len(script) /\ head = HeadOf(m) /\ pos = Start(script, i) + 1
    BY <1>8 DEF InHeaders
  <2>2. CASE i = Len(script)
    <3>1. pos = Len(wire)
      BY <1>2, <2>1, <2>2, StreamEnds
    <3>2. k = pos
      BY <1>3, <1>4, <3>1
    <3> QED BY <1>5, <3>2
  <2>3. CASE i < Len(script)
    <3>1. i + 1 \in 1..Len(script)
      BY <1>2, <2>3
    <3>2. Plain(m) /\ Whole(m)
      BY <1>1, <1>2, <3>1, TrackedArePlain DEF Plain
    <3>3. /\ Len(Encode(m)) \in Nat /\ Len(Encode(m)) >= 2
          /\ Encode(m)[1] = Fields(SentFields(m)) /\ Encode(m)[2] = CRLF
      BY <3>2, HeaderTokens
    <3> HIDE DEF m
    <3>4. CASE head = <<>> /\ pos = Start(script, i)
      <4>1. 0 \in 0..Len(Encode(m)) /\ 0 < Len(Encode(m)) /\ pos = Start(script, i) + 0
        BY <1>4, <3>3, <3>4
      <4>2. wire[pos + 1] = Fields(SentFields(m)) /\ pos + 1 = Start(script, i) + 1
        <5>1. wire[pos + 1] = Encode(m)[0 + 1] /\ pos + 1 = Start(script, i) + (0 + 1)
          BY <1>1, <2>3, <4>1, NextToken DEF m
        <5> QED BY <3>3, <5>1
      <4>3. EndsLine(wire[pos + 1])
        BY <4>2 DEF EndsLine, Fields
      <4>4. k = pos \/ (k = pos + 1 /\ Line(k) = <<Fields(SentFields(m))>>)
        BY <1>1, <1>3, <4>2, <4>3, LineIs
      <4>5. ASSUME k = pos + 1, Line(k) = <<Fields(SentFields(m))>>
            PROVE  Ordered'
        <5>1. Line(k) = HeadOf(m) /\ Line(k) # <<>> /\ Line(k) # <<CRLF>>
          <6>1. Fields(SentFields(m)) # CRLF
            BY DEF Fields, CRLF
          <6>2. <<Fields(SentFields(m))>> # <<>> /\ <<Fields(SentFields(m))>> # <<CRLF>>
            BY <6>1
          <6> QED BY <4>5, <6>2 DEF HeadOf
        <5>2. head' = head \o Line(k) /\ phase' = phase /\ out' = out
          BY <1>3, <5>1
        <5>3. head' = HeadOf(m)
          BY <3>2, <3>4, <5>1, <5>2, HeaderTokens, ConcatEmptySeq
        <5>4. pos' = Start(script', i) + 1 /\ out' = Done(script', i) /\ i < Len(script')
              /\ phase' = "headers" /\ head' = HeadOf(script'[i + 1])
          BY <1>1, <1>2, <1>3, <2>1, <2>3, <4>2, <4>5, <5>2, <5>3 DEF m
        <5>5. InHeaders(i)'
          BY <5>4, Zenon DEF InHeaders
        <5> QED BY <1>2, <5>5, Zenon DEF Ordered
      <4> QED BY <1>5, <4>4, <4>5
    <3>5. CASE head = HeadOf(m) /\ pos = Start(script, i) + 1
      <4>1. 1 \in 0..Len(Encode(m)) /\ 1 < Len(Encode(m))
        BY <3>3
      <4>2. wire[pos + 1] = CRLF /\ pos + 1 = Start(script, i) + 2
        <5>1. wire[pos + 1] = Encode(m)[1 + 1] /\ pos + 1 = Start(script, i) + (1 + 1)
          BY <1>1, <2>3, <3>5, <4>1, NextToken DEF m
        <5> QED BY <3>3, <5>1
      <4>3. EndsLine(wire[pos + 1])
        BY <4>2 DEF EndsLine, CRLF
      <4>4. k = pos \/ (k = pos + 1 /\ Line(k) = <<CRLF>>)
        BY <1>1, <1>3, <4>2, <4>3, LineIs
      <4>5. ASSUME k = pos + 1, Line(k) = <<CRLF>>
            PROVE  Ordered'
        <5>1. Line(k) # <<>>
          BY <4>5
        <5>2. EndOfHeaders
          BY <1>3, <4>5, <5>1
        <5>3. pos' = Start(script, i) + 2
          BY <1>3, <4>2, <4>5
        <5>4. m = script[i + 1]
          BY DEF m
        <5> HIDE DEF m
        <5> QED BY <1>1, <1>2, <2>1, <2>3, <3>2, <3>5, <5>2, <5>3, <5>4, EndOfHeadersOrdered
      <4> QED BY <1>5, <4>4, <4>5
    <3> QED BY <2>1, <3>4, <3>5 DEF m
  <2> QED BY <1>2, <2>2, <2>3
<1> QED BY <1>6, <1>7, <1>8

-----------------------------------------------------------------------------
(* The other steps, and the theorem.                                       *)

\* A read that fails is the end (line 249 and the other reads).
LEMMA ReadFailsOrdered ==
  ASSUME IInv, Ordered, ReadFails
  PROVE  Ordered'
BY Ending DEF IInv, ReadFails, envVars

\* What was promised of the responses does not depend on the peers: while the
\* origin's end is open, only a prefix of them will do, and when it is closed it
\* neither sends nor reopens.
LEMMA PeersOrdered ==
  ASSUME Ordered, UNCHANGED <<script, relayVars>>,
         origin = "closed" => UNCHANGED <<sent, origin>>
  PROVE  Ordered'
<1>1. /\ script' = script /\ phase' = phase /\ pos' = pos /\ head' = head
      /\ left' = left /\ buf' = buf /\ out' = out
  BY DEF relayVars
<1>2. Tracked' <=> Tracked
  BY <1>1 DEF Tracked
<1>3. Eof => Eof'
  BY <1>1 DEF Eof
<1>4. ASSUME Tracked, RelayedInOrder
      PROVE  RelayedInOrder'
  <2>1. CASE IsPrefix(out, Relayed(script))
    BY <1>1, <2>1 DEF RelayedInOrder
  <2>2. CASE origin = "closed"
    BY <1>1, <1>4, <2>2, StillInOrder
  <2> QED BY <1>4, <2>1, <2>2 DEF RelayedInOrder
<1>5. ASSUME NEW i, InHeaders(i)
      PROVE  InHeaders(i)'
  BY <1>1, <1>5 DEF InHeaders
<1>6. ASSUME NEW i, NEW m, NEW k
      PROVE  Written(i, m, k)' <=> Written(i, m, k)
  BY <1>1 DEF Written
<1>7. ASSUME NEW i, NEW m, InBody(i, m)
      PROVE  InBody(i, m)'
  <2>1. PICK k \in 2..Len(Encode(m)) :
          /\ pos = Start(script, i) + k
          /\ Written(i, m, k)
          /\ InStream(m, k) \/ InLength(m, k) \/ InChunks(m, k)
    BY <1>7 DEF InBody
  <2>2. pos' = Start(script', i) + k /\ Written(i, m, k)'
    BY <1>1, <1>6, <2>1
  <2>3. (InStream(m, k) \/ InLength(m, k) \/ InChunks(m, k))'
    <3>1. ASSUME NEW b PROVE Kept(m, b)' <=> Kept(m, b)
      BY <1>1 DEF Kept
    <3>2. CASE InStream(m, k)
      BY <1>1, <3>2 DEF InStream
    <3>3. CASE InLength(m, k)
      BY <1>1, <3>1, <3>3, Zenon DEF InLength
    <3>4. ASSUME Chunked(m), NEW j \in 0..Len(m.chunks),
                 AtSize(m, k, j) \/ InUnits(m, k, j) \/ AtChunkEnd(m, k, j) \/ AtTrailer(m, k, j)
          PROVE  (AtSize(m, k, j) \/ InUnits(m, k, j) \/ AtChunkEnd(m, k, j) \/ AtTrailer(m, k, j))'
      BY <1>1, <3>1, <3>4, Zenon DEF AtSize, InUnits, AtChunkEnd, AtTrailer
    <3> QED BY <2>1, <3>2, <3>3, <3>4, Zenon DEF InChunks
  <2> QED BY <2>2, <2>3, Zenon DEF InBody
<1>8. ASSUME NEW i, NEW m, InEmit(i, m)
      PROVE  InEmit(i, m)'
  BY <1>1, <1>3, <1>6, <1>8 DEF InEmit
<1>9. SUFFICES ASSUME Tracked
               PROVE  Ordered'
  BY <1>2, Zenon DEF Ordered
<1>10. CASE Over \/ Lost
  <2>1. (Over \/ Lost)'
    BY <1>1, <1>3, <1>4, <1>9, <1>10 DEF Over, Lost
  <2> QED BY <2>1, Zenon DEF Ordered
<1>11. ASSUME NEW i \in 0..Len(script),
              \/ InHeaders(i)
              \/ i < Len(script) /\ (InBody(i, script[i + 1]) \/ InEmit(i, script[i + 1]))
       PROVE  Ordered'
  <2>1. CASE InHeaders(i)
    BY <1>1, <1>5, <2>1, Zenon DEF Ordered
  <2>2. CASE i < Len(script) /\ (InBody(i, script[i + 1]) \/ InEmit(i, script[i + 1]))
    <3>1. PICK m : m = script[i + 1]
      OBVIOUS
    <3>2. InBody(i, m)' \/ InEmit(i, m)'
      BY <1>7, <1>8, <2>2, <3>1
    <3>3. i \in 0..Len(script') /\ i < Len(script') /\ m = script'[i + 1]
      BY <1>1, <2>2, <3>1
    <3> QED BY <3>2, <3>3, Zenon DEF Ordered
  <2> QED BY <1>11, <2>1, <2>2
<1> QED BY <1>9, <1>10, <1>11, Zenon DEF Ordered

\* At first the relay is before the first response.
LEMMA InitOrdered ==
  ASSUME Init
  PROVE  Ordered
<1>1. /\ script \in Seq(Responses) /\ phase = "headers" /\ head = <<>> /\ pos = 0 /\ out = <<>>
  BY ScriptsAssumption DEF Init
<1>2. InHeaders(0)
  BY <1>1, StreamEnds DEF InHeaders
<1>3. 0 \in 0..Len(script)
  BY <1>1, LenProperties
<1> QED BY <1>2, <1>3, Zenon DEF Ordered

\* Every step keeps the invariant.
LEMMA NextOrdered ==
  ASSUME IInv, Ordered, [Next]_vars
  PROVE  Ordered'
<1>1. CASE OriginSend \/ OriginEnd \/ ClientLeave \/ UNCHANGED vars
  <2>1. /\ UNCHANGED <<script, relayVars>>
        /\ origin = "closed" => UNCHANGED <<sent, origin>>
    BY <1>1 DEF OriginSend, OriginEnd, ClientLeave, vars, envVars, relayVars
  <2> QED BY <2>1, PeersOrdered
<1>2. CASE RelayStep /\ ~Tracked
  <2>1. script' = script
    BY <1>2 DEF RelayStep, ReadHeaderLine, CopyStream, CopyFixed, ReadBody, Emit, ReadSize,
                ReadChunk, ReadChunkEnd, ReadTrailer, ReadFails, envVars
  <2>2. ~Tracked'
    BY <1>2, <2>1 DEF Tracked
  <2> QED BY <2>2, Zenon DEF Ordered
<1>3. CASE RelayStep /\ Tracked
  <2>1. CASE ReadHeaderLine
    BY <1>3, <2>1, ReadHeaderLineOrdered
  <2>2. CASE CopyStream
    BY <1>3, <2>2, CopyStreamOrdered
  <2>3. CASE CopyFixed
    BY <1>3, <2>3, CopyFixedOrdered
  <2>4. CASE ReadBody
    BY <1>3, <2>4, ReadBodyOrdered
  <2>5. CASE Emit
    BY <1>3, <2>5, EmitOrdered
  <2>6. CASE ReadSize
    BY <1>3, <2>6, ReadSizeOrdered
  <2>7. CASE ReadChunk
    BY <1>3, <2>7, ReadChunkOrdered
  <2>8. CASE ReadChunkEnd
    BY <1>3, <2>8, ReadChunkEndOrdered
  <2>9. CASE ReadTrailer
    BY <1>3, <2>9, ReadTrailerOrdered
  <2>10. CASE ReadFails
    BY <2>10, ReadFailsOrdered
  <2> QED BY <1>3, <2>1, <2>2, <2>3, <2>4, <2>5, <2>6, <2>7, <2>8, <2>9, <2>10 DEF RelayStep
<1> QED BY <1>1, <1>2, <1>3 DEF Next

\* On a connection on which the relay knows where each response ends, the client
\* has at any moment seen a prefix of what it should see: the responses in order,
\* each as it was or with its URLs replaced and a length or a chunk size that
\* agrees, whatever the origin's packets, its end and the client's leaving cut
\* short; or, where the origin closed before a chunk size, the same of the cut
\* response (lines 241-389 and 391-499).
THEOREM RelayIsInOrder == Spec => []RelayedInOrder
<1>1. Init => IInv /\ Ordered
  BY InitInvariant, InitOrdered
<1>2. IInv /\ Ordered /\ [Next]_vars => (IInv /\ Ordered)'
  BY NextInvariant, NextOrdered
<1>3. IInv /\ Ordered => RelayedInOrder
  BY OrderedIsSeen DEF IInv
<1> QED BY <1>1, <1>2, <1>3, PTL DEF Spec
=============================================================================
