------------------------------ MODULE Framing ------------------------------
(***************************************************************************)
(* How a StratumClient cuts the byte stream of one socket into lines:      *)
(* StratumClient.feed of packages/server/src/stratum.ts.  TCP delivers the *)
(* stream in chunks of any size; a line may arrive split over several of   *)
(* them, or several lines in one, and so may a character of more than one  *)
(* byte, while each chunk is decoded by itself.                            *)
(***************************************************************************)
EXTENDS Integers, Sequences, FiniteSets, SequencesExt

CONSTANTS
  Letters, NL,          \* bytes that are a character each: NL ends a line
  Lead, Follow,         \* and the two bytes of one that is not ASCII
  Wide, Replacement,    \* that character, and what stands for a byte alone, U+FFFD
  MaxBuffer,            \* MAX_BUFFER_BYTES, which counts characters
  MaxChunk, MaxStream   \* bounds of the model

ASSUME FramingAssumption ==
  /\ {NL, Lead, Follow, Wide, Replacement} \cap Letters = {}
  /\ NL \notin {Lead, Follow, Wide, Replacement} /\ {Lead, Follow} \cap {Wide, Replacement} = {}
  /\ Lead # Follow
  /\ MaxBuffer \in Nat /\ MaxChunk \in Nat /\ MaxStream \in Nat

VARIABLES
  buffer,     \* #buffer
  delivered,  \* lines handed to handleMessage, oldest first
  received,   \* the bytes this socket has brought so far (history)
  decoded,    \* the characters they were taken for (history)
  cut,        \* whether two chunks had one character between them (history)
  dropped     \* whether the buffer was ever thrown away (history)

history     == <<received, decoded, cut, dropped>>
framingVars == <<buffer, delivered, history>>

Bytes == Letters \cup {NL, Lead, Follow}
Text  == Letters \cup {Wide, Replacement}
Chars == Text \cup {NL}

FramingTypeOK ==
  /\ buffer \in Seq(Text) /\ Len(buffer) <= MaxBuffer
  /\ delivered \in Seq(Seq(Text))
  /\ received \in Seq(Bytes) /\ decoded \in Seq(Chars)
  /\ cut \in BOOLEAN /\ dropped \in BOOLEAN

FramingInit ==
  /\ buffer = <<>> /\ delivered = <<>>
  /\ received = <<>> /\ decoded = <<>> /\ cut = FALSE /\ dropped = FALSE

\* The k-th smallest of P, and the elements of s at those positions, in their order.
Nth(P, k) == CHOOSE i \in P : Cardinality({j \in P : j < i}) = k - 1
At(s, P)  == [k \in 1 .. Cardinality(P) |-> s[Nth(P, k)]]

\* Buffer.from(s).toString(): a Follow that completes a Lead is no character of its own,
\* and either without the other is one that nobody sent.
Completes(s, i) == i > 1 /\ s[i] = Follow /\ s[i - 1] = Lead
Opens(s, i)     == i < Len(s) /\ s[i] = Lead /\ s[i + 1] = Follow

CharAt(s, i) == CASE s[i] \in Letters \cup {NL} -> s[i]
                  [] Opens(s, i)               -> Wide
                  [] OTHER                     -> Replacement

Decode(s) == At([i \in 1 .. Len(s) |-> CharAt(s, i)], {i \in 1 .. Len(s) : ~Completes(s, i)})

NewlinesBefore(s, i) == Cardinality({j \in 1 .. i - 1 : s[j] = NL})

\* s.split("\n"): a piece after each number of newlines there is, from none on.
Piece(s, k) == {i \in 1 .. Len(s) : s[i] # NL /\ NewlinesBefore(s, i) = k - 1}
Split(s)    == [k \in 1 .. NewlinesBefore(s, Len(s) + 1) + 1 |-> At(s, Piece(s, k))]

Messages(lines) == At(lines, {i \in DOMAIN lines : lines[i] # <<>>})

\* Broken on purpose, for the mutation runs: the partial line is kept.
ReconnectKeepsBuffer ==
  /\ received # <<>>
  /\ delivered' = <<>> /\ received' = <<>> /\ decoded' = <<>> /\ cut' = FALSE /\ dropped' = FALSE
  /\ UNCHANGED buffer

TooLong(s) == Len(s) > MaxBuffer

\* The end of one chunk and the beginning of the next.
Severs(a, b) == a # <<>> /\ b # <<>> /\ a[Len(a)] = Lead /\ b[1] = Follow

\* The last piece may be a partial message, and waits for the next chunk; a character
\* that came in part does not.
Feed(chunk) ==
  LET grown == buffer \o Decode(chunk)
      lines == Split(grown)
  IN  /\ received' = received \o chunk
      /\ decoded' = decoded \o Decode(chunk)
      /\ cut' = (cut \/ Severs(received, chunk))
      /\ IF TooLong(grown)
         THEN buffer' = <<>> /\ dropped' = TRUE /\ UNCHANGED delivered
         ELSE /\ buffer' = Last(lines)
              /\ delivered' = delivered \o Messages(Front(lines))
              /\ UNCHANGED dropped

\* connect() resolved again: a new stream, and no partial line left of the old.
Reconnect ==
  /\ received # <<>>
  /\ buffer' = <<>>
  /\ delivered' = <<>> /\ received' = <<>> /\ decoded' = <<>> /\ cut' = FALSE /\ dropped' = FALSE

Chunks == UNION {[1 .. n -> Bytes] : n \in 1 .. MaxChunk}

FramingNext ==
  \/ \E chunk \in Chunks : Len(received) + Len(chunk) <= MaxStream /\ Feed(chunk)
  \/ Reconnect

FramingSpec == FramingInit /\ [][FramingNext]_framingVars

-----------------------------------------------------------------------------
\* Wherever TCP cuts the stream, and whatever an earlier socket left unfinished,
\* the messages delivered are the complete lines of what this socket's bytes were
\* taken for.
FramingExact ==
  ~dropped => /\ delivered = Messages(Front(Split(decoded)))
              /\ buffer = Last(Split(decoded))

\* After an oversized buffer was thrown away the stream is picked up in the
\* middle of a line: a message may have lost its head, but never is one made of
\* pieces of two.
NothingIsSpliced ==
  \A i \in DOMAIN delivered :
    \E j \in DOMAIN Split(decoded) : IsSuffix(delivered[i], Split(decoded)[j])

Ascii(s) == At(s, {i \in 1 .. Len(s) : s[i] \in Letters \cup {NL}})

\* They are taken for what they are, but for a character that was cut: it is misread,
\* and takes no newline and no other character along.
OnlyTheCutIsMisread ==
  /\ ~cut => decoded = Decode(received)
  /\ Ascii(decoded) = Ascii(received)

\* All of it, for every way the stream is cut and the socket replaced.
LinesAreWhole == FramingTypeOK /\ FramingExact /\ NothingIsSpliced /\ OnlyTheCutIsMisread
=============================================================================
