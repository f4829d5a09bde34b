------------------------------- MODULE IsWire -------------------------------
(***************************************************************************)
(* One APRS-IS session's socket, both ways.  Lines off it:                 *)
(* feedAprsIsBytes() as the post-login read and the receive loop call it;  *)
(* a session's first read has a framer of its own, the loop's framer       *)
(* starts afresh with each session, recv() returns any number of bytes.    *)
(* Lines onto it: sendToAprsIs(), the one function every sender goes       *)
(* through; send() has a timeout, so it may take a part of the line only,  *)
(* and the session stays open then.  A byte is a letter or the end of a    *)
(* line (CR, LF, or both).                                                 *)
(***************************************************************************)
EXTENDS Naturals, Sequences, FiniteSets

CONSTANTS Cap,        \* APRS_IS_LINE_MAX
          Letters,    \* the bytes of a line
          Chunk,      \* bound: bytes a recv() returns
          MaxBytes,   \* bound: bytes of a session
          MaxLen,     \* bound: the longest frame offered
          MaxSends,   \* bound: frames offered in a session
          MaxSessions \* bound: sessions

ASSUME CapAssumption     == Cap \in Nat /\ Cap > 0
ASSUME LettersAssumption == "end" \notin Letters
ASSUME BoundsAssumption  == {Chunk, MaxBytes, MaxLen, MaxSends, MaxSessions} \subseteq Nat

Bytes  == Letters \cup {"end"}
Chunks == UNION {[1 .. n -> Bytes] : n \in 1 .. Chunk}
Frames == UNION {[1 .. n -> Bytes] : n \in 1 .. MaxLen}

VARIABLES
  open,        \* s_sock >= 0
  sessions,
  line,        \* line[0 .. linePos - 1]
  discarding,
  out,         \* history: the lines of the session handed to processAprsIsLine()
  long,        \* history: the session's share of DROP_IS_RX_LINE_TOO_LONG
  first, rest, \* history: what the session's first read and the loop have read
  wire,        \* history: what the session's socket took
  sent,        \* history: the frames of the session reported sent
  offered
read    == <<line, discarding, out, long, first, rest>>
written == <<wire, sent, offered>>
wireVars    == <<open, sessions, read, written>>

Fresh == [line |-> <<>>, discarding |-> FALSE, out |-> <<>>, long |-> 0]

WireInit ==
  /\ open = FALSE /\ sessions = 0
  /\ line = <<>> /\ discarding = FALSE /\ out = <<>> /\ long = 0
  /\ first = <<>> /\ rest = <<>>
  /\ wire = <<>> /\ sent = <<>> /\ offered = 0

-----------------------------------------------------------------------------
(* The framer *)

Fits(f) == Len(f.line) < Cap

EndOfLine(f) ==
  [f EXCEPT !.line = <<>>, !.discarding = FALSE,
            !.out = IF ~f.discarding /\ f.line # <<>> THEN Append(@, f.line) ELSE @]

Overflow(f, c) ==
  IF f.discarding THEN f ELSE [f EXCEPT !.line = <<>>, !.discarding = TRUE, !.long = @ + 1]

Byte(f, c) ==
  CASE c = "end"            -> EndOfLine(f)
    [] c # "end" /\ Fits(f) -> [f EXCEPT !.line = Append(@, c)]
    [] OTHER                -> Overflow(f, c)

\* feedAprsIsBytes(): a byte at a time
Feed(f, bytes) ==
  LET fed[n \in 0 .. Len(bytes)] == IF n = 0 THEN f ELSE Byte(fed[n - 1], bytes[n])
  IN fed[Len(bytes)]

\* Faulty variant: the loop goes on with the framing of the session before.
FramingKept == UNCHANGED <<line, discarding>>
FramingReset == line' = <<>> /\ discarding' = FALSE

-----------------------------------------------------------------------------
(* The session: it is published once its first read is done, the loop      *)
(* starts its framing over, and closeSocket() ends it both ways.           *)

Connect(bytes) ==
  /\ ~open /\ open' = TRUE /\ sessions < MaxSessions /\ sessions' = sessions + 1
  /\ LET f == Feed(Fresh, bytes) IN out' = f.out /\ long' = f.long
  /\ FramingReset
  /\ first' = bytes /\ rest' = <<>>
  /\ wire' = <<>> /\ sent' = <<>> /\ offered' = 0

Close == open /\ open' = FALSE /\ UNCHANGED <<sessions, read, written>>

Recv(bytes) ==
  /\ open /\ Len(first \o rest \o bytes) <= MaxBytes
  /\ LET f == Feed([line |-> line, discarding |-> discarding, out |-> out, long |-> long], bytes)
     IN line' = f.line /\ discarding' = f.discarding /\ out' = f.out /\ long' = f.long
  /\ rest' = rest \o bytes
  /\ UNCHANGED <<open, first, sessions, written>>

-----------------------------------------------------------------------------
(* sendToAprsIs(); the send itself is under s_sockMutex *)

\* Faulty variant: the class fix is left to the callers.
CleanAlways(frame) == TRUE
Clean(frame) == \A k \in DOMAIN frame : frame[k] # "end"
FitsLine(frame) == Len(frame) <= Cap

Line(frame) == Append(frame, "end")

\* What a refused frame changes is the counter of failed transmissions.
Refused(frame) == ~Clean(frame) \/ ~FitsLine(frame) \/ ~open

SendToAprsIs(frame) ==
  /\ offered < MaxSends /\ offered' = offered + 1
  /\ \/ Refused(frame) /\ UNCHANGED <<wire, sent>>
     \/ /\ ~Refused(frame)
        /\ \E taken \in 0 .. Len(Line(frame)) :
             /\ wire' = wire \o SubSeq(Line(frame), 1, taken)
             /\ sent' = IF taken = Len(Line(frame)) THEN Append(sent, frame) ELSE sent
  /\ UNCHANGED <<open, sessions, read>>

WireNext ==
  \/ \E bytes \in Chunks \cup {<<>>} : Connect(bytes)
  \/ Close
  \/ \E bytes \in Chunks : Recv(bytes)
  \/ \E frame \in Frames : SendToAprsIs(frame)

WireSpec == WireInit /\ [][WireNext]_wireVars

-----------------------------------------------------------------------------
(* What the framer promises *)

\* The runs of letters of a stream, as pairs of ends, and those that ended.
Runs(s) ==
  {r \in (DOMAIN s) \X (DOMAIN s) :
     /\ r[1] <= r[2] /\ \A k \in r[1] .. r[2] : s[k] # "end"
     /\ r[1] > 1 => s[r[1] - 1] = "end"
     /\ r[2] < Len(s) => s[r[2] + 1] = "end"}
TooLong(r)  == r[2] - r[1] >= Cap
Ended(s, r) == r[2] < Len(s)

Whole(s)    == {r \in Runs(s) : Ended(s, r) /\ ~TooLong(r)}
LongRuns(s) == {r \in Runs(s) : TooLong(r)}

\* The k-th of these runs from the front of the stream, and their letters.
Ranked(runs, k) == {r \in runs : Cardinality({q \in runs : q[1] <= r[1]}) = k}
LinesOf(s) ==
  [k \in 1 .. Cardinality(Whole(s)) |->
     LET r == CHOOSE r \in Ranked(Whole(s), k) : TRUE IN SubSeq(s, r[1], r[2])]

\* A line under way never outgrows its buffer (s_lineBuf).
ReadTypes ==
  /\ open \in BOOLEAN /\ discarding \in BOOLEAN /\ sessions \in 0 .. MaxSessions
  /\ line \in Seq(Letters) /\ Len(line) <= Cap
  /\ out \in Seq(Seq(Letters)) /\ long \in Nat /\ first \in Seq(Bytes) /\ rest \in Seq(Bytes)

\* Whatever the chunks, the lines delivered are those of the bytes read: none
\* is cut, joined to another or to the session before, an over-long one is
\* dropped whole and the next is framed right.
Framed == out = LinesOf(first) \o LinesOf(rest)

\* Each over-long line is counted once, when it overflows.
LongCounted ==
  long = Cardinality(LongRuns(first)) + Cardinality(LongRuns(rest))

\* The lines handed to processAprsIsLine() are the lines of the bytes read,
\* in any chunking: none cut, joined to its neighbour or carried over from the
\* session before, each over-long one dropped whole and counted once.
LinesSound == ReadTypes /\ Framed /\ LongCounted

\* "nothing arriving alongside the banner is ever dropped": the border between
\* the first read and the loop makes no difference.
NothingDropped == out = LinesOf(first \o rest)

-----------------------------------------------------------------------------
(* What the server reads *)

Ends == {k \in DOMAIN wire : wire[k] = "end"}
\* The line that ends at k.
LineAt(k) ==
  LET from == CHOOSE i \in 1 .. k :
                /\ \A j \in i .. k - 1 : wire[j] # "end"
                /\ i = 1 \/ wire[i - 1] = "end"
  IN SubSeq(wire, from, k - 1)
Sent == {sent[k] : k \in DOMAIN sent}

WriteTypes ==
  /\ open \in BOOLEAN /\ wire \in Seq(Bytes) /\ sent \in Seq(Frames)
  /\ \A k \in DOMAIN sent : Len(sent[k]) <= Cap
  /\ offered \in 0 .. MaxSends /\ sessions \in 0 .. MaxSessions

\* No frame makes two lines: the lines the server reads are as many as the
\* frames reported sent, whatever the senders left in them.
OneLineAFrame == Cardinality(Ends) = Len(sent)

\* Each line ends with a whole frame that was reported sent, in that order.
LastFrameWhole ==
  \A k \in Ends :
    LET frame == sent[Cardinality({j \in Ends : j <= k})]
    IN \E from \in 1 .. k : frame = SubSeq(wire, from, k - 1)

\* The server reads as many lines as sendToAprsIs() reported frames sent, each
\* ending in that frame, whatever line ends and lengths the senders offer and
\* wherever the send timeout cuts a line.
FramesSound == WriteTypes /\ OneLineAFrame /\ LastFrameWhole

\* "the socket can never be left holding a line whose payload went out but
\* whose terminator did not": the lines the server reads are frames handed over.
NoHalfLine == \A k \in Ends : LineAt(k) \in Sent

\* Both directions of the socket: what is read is framed, and what is written
\* is a line a frame (igate.c:381-469, 1990-2000).
WireSound == LinesSound /\ FramesSound
=============================================================================
