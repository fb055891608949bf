---------------------------- MODULE ZigbeeSerial ----------------------------
(***************************************************************************)
(* The ZigBee serial adapter (zigbee_serial_adapter.cpp): lines cut out of *)
(* the bytes that arrive, and lines written to the port, each ended by a   *)
(* newline.  The port is opened once, at start; a read error closes it for *)
(* good.  The board at the other end sends and receives bytes.             *)
(*                                                                         *)
(* What a line says is abstracted to single characters; its newline, its   *)
(* carriage return and its length are not.                                 *)
(***************************************************************************)
EXTENDS Integers, Sequences, FiniteSets, SequencesExt

CONSTANTS
  Chars,       \* characters other than the two below
  CR, LF,      \* '\r' and '\n'
  MaxLine,     \* options_.max_line_size
  PollBytes,   \* kMaxBytesPerPoll
  Commands,    \* the lines SendLine is given, non-empty and without LF
  MaxRx,       \* bound: bytes the board sends
  MaxTx        \* bound: calls of SendLine on an open port

ASSUME SizeAssumption == MaxLine \in Nat \ {0} /\ PollBytes \in Nat \ {0}
ASSUME CharAssumption == CR \notin Chars /\ LF \notin Chars /\ CR # LF
\* No command ends with another: each is one JSON object with one "device_id".
ASSUME CommandAssumption ==
  /\ Commands \subseteq Seq(Chars) \ {<<>>}
  /\ \A c, d \in Commands : IsSuffix(c, d) => c = d

Bytes == Chars \cup {CR, LF}

VARIABLES
  open_,         \* fd_ >= 0
  line_buffer_,  \* the line being received
  delivered,     \* lines handed to line_handler_
  tty,           \* bytes that arrived and were not read yet
  received,      \* all bytes read so far
  wire,          \* all bytes written so far
  sent           \* SendLine calls on an open port: the line and the result

rx   == <<line_buffer_, delivered, tty, received>>
tx   == <<wire, sent>>
vars == <<open_, rx, tx>>

\* Open succeeds or fails; nothing tries again.
Init ==
  /\ open_ \in BOOLEAN
  /\ line_buffer_ = <<>> /\ delivered = <<>> /\ tty = <<>> /\ received = <<>>
  /\ wire = <<>> /\ sent = <<>>
-----------------------------------------------------------------------------
\* HandleIncomingByte, on the pair of the buffer and the lines delivered.  An
\* overlong line is cut, not skipped: the buffer starts again in its middle.
\* (A name with a suffix is the code with a slip, kept to test the properties.)
HandleIncomingByte_KeepsBuffer(r, ch) ==
  CASE ch = CR -> r
    [] ch = LF -> [r EXCEPT !.lines = IF r.buffer = <<>> THEN @ ELSE Append(@, r.buffer)]
    [] OTHER -> IF Len(r.buffer) >= MaxLine
                  THEN [r EXCEPT !.buffer = <<>>]
                  ELSE [r EXCEPT !.buffer = Append(@, ch)]

HandleIncomingByte(r, ch) ==
  CASE ch = CR -> r
    [] ch = LF -> [buffer |-> <<>>,
                   lines |-> IF r.buffer = <<>> THEN r.lines ELSE Append(r.lines, r.buffer)]
    [] OTHER -> IF Len(r.buffer) >= MaxLine
                  THEN [r EXCEPT !.buffer = <<>>]
                  ELSE [r EXCEPT !.buffer = Append(@, ch)]

\* Byte after byte.
HandleBytes(r, bytes) ==
  LET after[n \in 0..Len(bytes)] ==
        IF n = 0 THEN r ELSE HandleIncomingByte(after[n - 1], bytes[n])
  IN after[Len(bytes)]

\* Poll: reads what there is, up to the limit, and handles it.
Poll ==
  LET n == IF Len(tty) <= PollBytes THEN Len(tty) ELSE PollBytes
      r == HandleBytes([buffer |-> line_buffer_, lines |-> delivered], SubSeq(tty, 1, n))
  IN /\ open_ /\ n > 0
     /\ line_buffer_' = r.buffer /\ delivered' = r.lines
     /\ received' = received \o SubSeq(tty, 1, n)
     /\ tty' = SubSeq(tty, n + 1, Len(tty))
     /\ UNCHANGED <<open_, tx>>

\* Poll meets a read error: Close, which forgets the line under way.
PollError ==
  /\ open_ /\ open_' = FALSE /\ line_buffer_' = <<>>
  /\ UNCHANGED <<delivered, tty, received, tx>>

\* SendLine: the write loop may give up after any number of bytes short of the
\* whole line, and what was written stays written.
Line(c) == Append(c, LF)

SendLine_GivesUpLate(c) ==
  /\ open_ /\ Len(sent) < MaxTx
  /\ \E n \in 0..Len(Line(c)), ok \in BOOLEAN :
       /\ ok => n = Len(Line(c))
       /\ wire' = wire \o SubSeq(Line(c), 1, n)
       /\ sent' = Append(sent, [line |-> c, ok |-> ok])
  /\ UNCHANGED <<open_, rx>>

SendLine(c) ==
  /\ open_ /\ Len(sent) < MaxTx
  /\ \E n \in 0..Len(Line(c)) :
       /\ wire' = wire \o SubSeq(Line(c), 1, n)
       /\ sent' = Append(sent, [line |-> c, ok |-> n = Len(Line(c))])
  /\ UNCHANGED <<open_, rx>>

\* The board sends a byte.
BoardSends(b) ==
  /\ Len(received) + Len(tty) < MaxRx
  /\ tty' = Append(tty, b)
  /\ UNCHANGED <<open_, line_buffer_, delivered, received, tx>>

Next ==
  \/ Poll \/ PollError
  \/ \E c \in Commands : SendLine(c)
  \/ \E b \in Bytes : BoardSends(b)

Spec == Init /\ [][Next]_vars
-----------------------------------------------------------------------------
\* Reference: the characters of the line that position p of a byte sequence is
\* in or ends, up to there: everything since the last newline but carriage
\* returns.
InLine(s, p) == {x \in 1..(p - 1) : s[x] # CR /\ \A y \in x..(p - 1) : s[y] # LF}

\* l is the end of that line.
EndsWith(s, p, l) ==
  \A x \in InLine(s, p) :
    LET later == Cardinality({y \in InLine(s, p) : y > x})
    IN later < Len(l) => l[Len(l) - later] = s[x]

\* How much is left of n characters when every MaxLine + 1 are thrown away.
Left(n) == n % (MaxLine + 1)

\* Where the lines end of which anything is left.
LineEnds(s) == {p \in DOMAIN s : s[p] = LF /\ Left(Cardinality(InLine(s, p))) # 0}

\* However the bytes are cut into polls, the lines delivered are those of the
\* byte stream, in order, each reduced by what an overlong line loses; a newline
\* always brings the framing back in step.  A board that never sends one cannot
\* make the buffer grow.
IsWhatIsLeft(s, p, l) == Len(l) = Left(Cardinality(InLine(s, p))) /\ EndsWith(s, p, l)

FramingIsExact ==
  /\ Len(line_buffer_) <= MaxLine
  /\ \E end \in [DOMAIN delivered -> LineEnds(received)] :
       /\ \A j, k \in DOMAIN delivered : j < k => end[j] < end[k]
       /\ \A p \in LineEnds(received) : \E k \in DOMAIN delivered : end[k] = p
       /\ \A k \in DOMAIN delivered : IsWhatIsLeft(received, end[k], delivered[k])

\* A line for which SendLine returned false (503, ok = 0 in actuator_commands)
\* is never received by the board as a line of its own, so never executed; this
\* is for distinct commands, each sent at most once here.
IsWhole(s, p, l) == Len(l) = Cardinality(InLine(s, p)) /\ EndsWith(s, p, l)

Arrived(l) == \E p \in DOMAIN wire : wire[p] = LF /\ IsWhole(wire, p, l)

FailedNeverExecuted ==
  \A i \in DOMAIN sent :
    (~sent[i].ok /\ \A j \in DOMAIN sent \ {i} : sent[j].line # sent[i].line)
      => ~Arrived(sent[i].line)

\* A line for which SendLine returned true reaches the board as a line of its
\* own, as zigbee-dl20-protocol.md demands of commands.  After a write that gave
\* up half-way it is glued to the remains of the line before.
SentIsOneLine == \A i \in DOMAIN sent : sent[i].ok => Arrived(sent[i].line)
=============================================================================
