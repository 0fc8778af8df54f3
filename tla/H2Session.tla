----------------------------- MODULE H2Session -----------------------------
(***************************************************************************)
(* The session transport of src/src/transport/h2.ts: dialH2Session, its    *)
(* event reader and the SSE encoder and decoder.                           *)
(*                                                                         *)
(* The server's stream is a sequence of tokens: the two halves of a data   *)
(* line, the start of a line the decoder ignores, CR and LF. It reaches    *)
(* the client in chunks cut anywhere, and may end or break anywhere. A     *)
(* receive runs from await to await of the stream's next(), which answers  *)
(* the pending calls in their order. Messages are numbered from 1.         *)
(***************************************************************************)
EXTENDS Integers, Sequences, SequencesExt, FiniteSets

CONSTANTS
  LinesPerMessage,  \* 1 for JSON without line breaks
  MaxH2Messages,    \* bound: messages the server pushes
  MaxKeepalives,    \* bound: lines the server sends to keep the stream alive
  MaxH2Receives,    \* bound: receive calls
  MaxH2Pending,     \* bound: receive calls that wait at once
  H2Posts           \* send calls

ASSUME H2Assumption ==
  /\ LinesPerMessage \in Nat \ {0}
  /\ MaxH2Messages \in Nat /\ MaxKeepalives \in Nat
  /\ MaxH2Receives \in Nat /\ MaxH2Pending \in Nat

VARIABLES
  sessionDial,   \* "idle", "resolved" or "rejected"
  stream,        \* tokens that the server wrote and the client has not pulled
  streamEnd,     \* "open", "eof" or "error"
  written, keepalives,
  decBuffer,     \* SSEDecoder.buffer
  dataLines,     \* SSEDecoder.dataLines
  h2Done,        \* done of the event reader
  h2Closed,      \* closed of the transport
  h2Waiting,     \* receive calls that await next(), in order
  h2Results,     \* per receive call: 0 pending, -1 null, -2 rejected, -3 anything
                 \* that is not a message, or the message
  posts,         \* per send call: "idle", "flying", "resolved" or "rejected"
  returned,      \* history: the messages returned, in the order of the returns
  pulled,        \* history: messages whose last data line has been pulled
  closedByUs     \* history: close was called

serverVars == <<stream, streamEnd, written, keepalives>>
readerVars == <<decBuffer, dataLines, h2Done, h2Closed, h2Waiting, h2Results, returned, pulled>>
h2Vars == <<sessionDial, serverVars, readerVars, posts, closedByUs>>

H2Init ==
  /\ sessionDial = "idle"
  /\ stream = <<>> /\ streamEnd = "open" /\ written = 0 /\ keepalives = 0
  /\ decBuffer = <<>> /\ dataLines = <<>> /\ h2Done = FALSE /\ h2Closed = FALSE
  /\ h2Waiting = <<>> /\ h2Results = <<>> /\ returned = <<>> /\ pulled = 0
  /\ posts = [p \in H2Posts |-> "idle"]
  /\ closedByUs = FALSE

-----------------------------------------------------------------------------
(* SSE *)

Token(kind, m, line) == [kind |-> kind, m |-> m, line |-> line]
LF == Token("LF", 0, 0)
CR == Token("CR", 0, 0)
Ignored == Token("ignored", 0, 0)

DataLine(m, i) == <<Token("data", m, i), Token("rest", m, i), Token("LF", m, i)>>

\* encodeSSE: one data line per line of the message, and a blank line.
EncodeSSE(m) == FlattenSeq([i \in 1..LinesPerMessage |-> DataLine(m, i)]) \o <<LF>>

FirstLF(buffer) == SelectInSeq(buffer, LAMBDA token : token.kind = "LF")

WithoutCR(line) == IF line # <<>> /\ Last(line).kind = "CR" THEN Front(line) ELSE line

\* A turn of the loop of SSEDecoder.next, on what it returns (<<>> for null)
\* and keeps: a blank line ends an event that has data, comments are skipped.
OneLine(read) ==
  LET lf == FirstLF(read.buffer)
      line == WithoutCR(SubSeq(read.buffer, 1, lf - 1))
  IN  IF read.event # <<>> \/ lf = 0 THEN read
      ELSE [event  |-> IF line = <<>> THEN read.lines ELSE <<>>,
            buffer |-> SubSeq(read.buffer, lf + 1, Len(read.buffer)),
            lines  |-> IF line = <<>> THEN <<>>
                       ELSE IF Head(line).kind = "ignored" THEN read.lines
                       ELSE Append(read.lines, line)]

\* What the loop has after as many turns as the buffer has tokens, each a set of
\* one: a turn takes a token at least, and after the last complete line none.
DecoderNext(buffer, lines) ==
  LET after[i \in 0..Len(buffer)] ==
        IF i = 0 THEN {[event |-> <<>>, buffer |-> buffer, lines |-> lines]}
        ELSE {OneLine(read) : read \in after[i - 1]}
  IN  CHOOSE read \in after[Len(buffer)] : TRUE

\* The message that these data lines are, or -3.
MessageOf(lines) ==
  LET m == Head(lines)[1].m IN
  IF lines = [i \in 1..LinesPerMessage |-> Front(DataLine(m, i))] THEN m ELSE -3

-----------------------------------------------------------------------------
(* The server *)

ServerPushes ==
  /\ sessionDial = "resolved" /\ streamEnd = "open" /\ written < MaxH2Messages
  /\ written' = written + 1
  /\ stream' = stream \o EncodeSSE(written + 1)
  /\ UNCHANGED <<sessionDial, streamEnd, keepalives, readerVars, posts, closedByUs>>

ServerKeepalive(line) ==
  /\ sessionDial = "resolved" /\ streamEnd = "open" /\ keepalives < MaxKeepalives
  /\ keepalives' = keepalives + 1
  /\ stream' = stream \o <<line, LF>>
  /\ UNCHANGED <<sessionDial, streamEnd, written, readerVars, posts, closedByUs>>

\* The stream ends or breaks, and what did not get through is lost.
ServerEnds(k, how) ==
  /\ sessionDial = "resolved" /\ streamEnd = "open"
  /\ stream' = SubSeq(stream, 1, k)
  /\ streamEnd' = how
  /\ UNCHANGED <<sessionDial, written, keepalives, readerVars, posts, closedByUs>>

-----------------------------------------------------------------------------
(* dialH2Session *)

\* The POST fails, is refused, or has no body; or the stream is there.
DialH2Session ==
  /\ sessionDial = "idle"
  /\ sessionDial' \in {"resolved", "rejected"}
  /\ UNCHANGED <<serverVars, readerVars, posts, closedByUs>>

-----------------------------------------------------------------------------
(* receive *)

\* From one await of the reader's loop to the next, for call i: the next
\* event; at the end what flush returns, and null closes the transport;
\* otherwise the call awaits next() again, behind the others.
ReadOn(i, buffer, done, results, waiting) ==
  LET read == DecoderNext(buffer, dataLines)
      Answer(r) == [results EXCEPT ![i] = r]
      Message(lines) ==
        /\ h2Results' = Answer(MessageOf(lines))
        /\ returned' = Append(returned, MessageOf(lines))
        /\ h2Waiting' = waiting /\ UNCHANGED h2Closed
  IN
  /\ decBuffer' = read.buffer
  /\ h2Done' = done
  /\ \/ /\ read.event # <<>>
        /\ dataLines' = read.lines
        /\ Message(read.event)
     \/ /\ read.event = <<>> /\ done
        /\ dataLines' = <<>>
        /\ \/ read.lines # <<>> /\ Message(read.lines)
           \/ /\ read.lines = <<>>
              /\ h2Results' = Answer(-1)
              /\ h2Closed' = TRUE
              /\ h2Waiting' = waiting /\ UNCHANGED returned
     \/ /\ read.event = <<>> /\ ~done
        /\ dataLines' = read.lines
        /\ h2Results' = results
        /\ h2Waiting' = Append(waiting, i)
        /\ UNCHANGED <<h2Closed, returned>>

H2Receive ==
  /\ sessionDial = "resolved"
  /\ Len(h2Results) < MaxH2Receives /\ Len(h2Waiting) < MaxH2Pending
  /\ \/ /\ h2Closed
        /\ h2Results' = Append(h2Results, -1)
        /\ UNCHANGED <<decBuffer, dataLines, h2Done, h2Closed, h2Waiting, returned>>
     \/ /\ ~h2Closed
        /\ ReadOn(Len(h2Results) + 1, decBuffer, h2Done, Append(h2Results, 0), h2Waiting)
  /\ UNCHANGED <<sessionDial, serverVars, pulled, posts, closedByUs>>

\* The messages whose last data line ends within the next k tokens.
Complete(k) ==
  Cardinality({j \in 1..k : stream[j].kind = "LF" /\ stream[j].line = LinesPerMessage})

\* Mutant: every chunk is decoded as if it were a text of its own.
PullChunkAlone(k) ==
  /\ h2Waiting # <<>> /\ k \in DOMAIN stream
  /\ stream' = SubSeq(stream, k + 1, Len(stream))
  /\ pulled' = pulled + Complete(k)
  /\ ReadOn(Head(h2Waiting), SubSeq(stream, 1, k), h2Done, h2Results, Tail(h2Waiting))
  /\ UNCHANGED <<sessionDial, streamEnd, written, keepalives, posts, closedByUs>>

\* next() answers the call that has waited longest with a chunk.
PullChunk(k) ==
  /\ h2Waiting # <<>> /\ k \in DOMAIN stream
  /\ stream' = SubSeq(stream, k + 1, Len(stream))
  /\ pulled' = pulled + Complete(k)
  /\ ReadOn(Head(h2Waiting), decBuffer \o SubSeq(stream, 1, k), h2Done, h2Results, Tail(h2Waiting))
  /\ UNCHANGED <<sessionDial, streamEnd, written, keepalives, posts, closedByUs>>

\* Mutant: the end of the stream does not end the reader's loop.
PullEndAgain ==
  /\ h2Waiting # <<>> /\ stream = <<>> /\ streamEnd = "eof"
  /\ ReadOn(Head(h2Waiting), decBuffer, h2Done, h2Results, Tail(h2Waiting))
  /\ UNCHANGED <<sessionDial, serverVars, pulled, posts, closedByUs>>

\* next() says that the stream is over ...
PullEnd ==
  /\ h2Waiting # <<>> /\ stream = <<>> /\ streamEnd = "eof"
  /\ ReadOn(Head(h2Waiting), decBuffer, TRUE, h2Results, Tail(h2Waiting))
  /\ UNCHANGED <<sessionDial, serverVars, pulled, posts, closedByUs>>

\* ... or rejects: a generator is over then, a stream's reader rejects again.
PullFails ==
  /\ h2Waiting # <<>> /\ stream = <<>> /\ streamEnd = "error"
  /\ streamEnd' \in {"eof", "error"}
  /\ h2Results' = [h2Results EXCEPT ![Head(h2Waiting)] = -2]
  /\ h2Waiting' = Tail(h2Waiting)
  /\ UNCHANGED <<sessionDial, stream, written, keepalives, decBuffer, dataLines, h2Done, h2Closed,
                 returned, pulled, posts, closedByUs>>

-----------------------------------------------------------------------------
(* send and close *)

H2Send(p) ==
  /\ sessionDial = "resolved" /\ posts[p] = "idle"
  /\ posts' = [posts EXCEPT ![p] = IF h2Closed THEN "rejected" ELSE "flying"]
  /\ UNCHANGED <<sessionDial, serverVars, readerVars, closedByUs>>

\* The response: a 2xx whose body is discarded, or a refusal.
PostAnswered(p) ==
  /\ posts[p] = "flying"
  /\ \E outcome \in {"resolved", "rejected"} : posts' = [posts EXCEPT ![p] = outcome]
  /\ UNCHANGED <<sessionDial, serverVars, readerVars, closedByUs>>

\* close aborts the sends in flight. The reader is told that it is done; a
\* receive that awaits next() is not woken.
H2Close ==
  /\ sessionDial = "resolved" /\ ~h2Closed
  /\ h2Closed' = TRUE /\ h2Done' = TRUE /\ closedByUs' = TRUE
  /\ posts' = [p \in H2Posts |-> IF posts[p] = "flying" THEN "rejected" ELSE posts[p]]
  /\ UNCHANGED <<sessionDial, serverVars, decBuffer, dataLines, h2Waiting, h2Results, returned, pulled>>

-----------------------------------------------------------------------------

Pull == (\E k \in DOMAIN stream : PullChunk(k)) \/ PullEnd \/ PullFails

H2Next ==
  \/ DialH2Session \/ ServerPushes
  \/ \E line \in {CR, Ignored} : ServerKeepalive(line)
  \/ \E k \in 0..Len(stream), how \in {"eof", "error"} : ServerEnds(k, how)
  \/ H2Receive \/ Pull \/ H2Close
  \/ \E p \in H2Posts : H2Send(p) \/ PostAnswered(p)

-----------------------------------------------------------------------------
(* Properties *)

\* h2.ts SSEDecoder and the event reader: however the stream is cut into
\* chunks, wherever it breaks, with two calls reading at once and with a close
\* in between, the messages come back whole, in order, none twice and none
\* left out; and null is not returned before all that arrived.
H2InOrder ==
  /\ returned = [i \in 1..Len(returned) |-> i]
  /\ Len(returned) <= pulled
  /\ (\E i \in DOMAIN h2Results : h2Results[i] = -1) /\ ~closedByUs => Len(returned) = pulled
=============================================================================
