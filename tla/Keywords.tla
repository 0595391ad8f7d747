------------------------------ MODULE Keywords ------------------------------
(***************************************************************************)
(* keywords.go: the words of the two bodies of an exchange that its record *)
(* is found by, and the words of a search (api_service.go 303-306, 345).   *)
(*                                                                         *)
(* A text is a short sequence of characters, of which only three kinds are *)
(* told apart: those that make words, blanks, and all others.  Keywords    *)
(* are a set of words: their order and repetition tell no search apart.    *)
(* A text is also the bytes of a body, and gzip is external.               *)
(***************************************************************************)
EXTENDS Naturals, Sequences, SequencesExt

CONSTANTS
  Safe,        \* the characters of words: 0-9 a-z A-Z .
  Unsafe,      \* the others but for Blank
  Blank,       \* stands for every character of \s
  LowerOf,     \* LowerOf[c]: the character c in lower case
  MinWord,     \* minWordLength, 3 in the code
  PeekLength,  \* peekLength, 10 MB in the code
  ReadAhead,   \* what gzip.NewReader reads before it gives up, up to 4 kB
  Gunzip(_),   \* what some bytes decompress to, up to where the stream ends or breaks
  NotGzip      \* when they do not begin with the header of gzip

ASSUME KeywordsAssumption ==
  /\ Blank \notin Safe \cup Unsafe /\ Safe \cap Unsafe = {}
  /\ LowerOf \in [Safe -> Safe]
  /\ MinWord \in Nat \ {0} /\ PeekLength \in Nat /\ ReadAhead \in Nat

\* A text in lower case, and one text within another.
Lower(s)     == [i \in DOMAIN s |-> IF s[i] \in Safe THEN LowerOf[s[i]] ELSE s[i]]
Occurs(t, s) == \E rest \in Suffixes(s) : IsPrefix(t, rest)

\* Unsafe characters become blanks, blanks separate words: the words of s are
\* its longest stretches of safe characters.
Words(s) ==
  {SubSeq(s, b[1], b[2]) : b \in
     {p \in (1..Len(s)) \X (1..Len(s)) :
        /\ p[1] <= p[2] /\ \A k \in p[1]..p[2] : s[k] \in Safe
        /\ p[1] = 1 \/ s[p[1] - 1] \notin Safe
        /\ p[2] = Len(s) \/ s[p[2] + 1] \notin Safe}}

Prefix(s, n) == SubSeq(s, 1, IF Len(s) < n THEN Len(s) ELSE n)

\* bytes.Buffer: its bytes, and how many of them have been read.
NewBuffer(s) == [bytes |-> s, off |-> 0]
Bytes(b)     == SubSeq(b.bytes, b.off + 1, Len(b.bytes))
Read(b, n)   == [b EXCEPT !.off = IF @ + n < Len(b.bytes) THEN @ + n ELSE Len(b.bytes)]

\* What is indexed of a buffer.  io.CopyN fails at the end of a shorter text: its
\* bytes are then taken as they are, compressed.
peek(in) ==
  LET dst == Gunzip(Bytes(in))
  IN  IF dst # NotGzip /\ Len(dst) >= PeekLength
      THEN Prefix(dst, PeekLength)
      ELSE Prefix(Bytes(in), ReadAhead + PeekLength)

\* What that leaves of the buffer.  (A stream that is decompressed is read as far
\* as that takes; here, to its end.)
Peeked(in) ==
  Read(in, IF Gunzip(Bytes(in)) # NotGzip THEN Len(in.bytes) ELSE ReadAhead + PeekLength)

\* The words kept of two buffers, which are read one after the other.
extractKeywords(in) ==
  {w \in UNION {Words(Lower(peek(b))) : b \in in} : Len(w) >= MinWord}
=============================================================================
