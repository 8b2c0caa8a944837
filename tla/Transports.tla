----------------------------- MODULE Transports -----------------------------
(***************************************************************************)
(* One transport, src/io/tcpTransport.ts or src/io/udpTransport.ts, with   *)
(* the peer at the other end.  The peer sends a sequence of units, each a  *)
(* frame or stray bytes; TCP delivers their bytes in chunks that respect   *)
(* no border, UDP each unit as a datagram that may be lost.                *)
(*                                                                         *)
(* send() changes no state of a transport: it rejects when the transport is*)
(* closed or has no socket, and otherwise hands the bytes of the frame to  *)
(* the socket.                                                             *)
(***************************************************************************)
EXTENDS Frames

Seqs == INSTANCE SequencesExt

CONSTANTS Streams,     \* what the peer may send: [kind, units]; a unit is [bytes, body]
          ChunkSizes   \* the sizes of a TCP chunk

\* Bytes that are one frame by their header, whatever is in it, ...
Framed(b) == Len(b) >= HeaderLength /\ ~HeaderFails(b) /\ TotalLength(b) = Len(b)

\* ... and bytes in which no header starts but one whose length is none.
Noise(b) ==
  \A i \in 1..Len(b) - 1 :
    b[i] = HeaderLength /\ b[i + 1] = 16 =>
      i + 5 <= Len(b) /\ TotalLength(Rest(b, i - 1)) < HeaderLength

\* Each unit is one frame or noise, and is read as its body, if it has one; no
\* unit begins so that the end of a stray one makes a header with it.
ReadsAsSent(u) ==
  IF u.body = Absent THEN FrameIn(u.bytes).event # "message"
  ELSE FrameIn(u.bytes) = Emitted("message", u.body)

IsUnit(u) ==
  /\ u.bytes \in Seq(0..255) /\ u.bytes # <<>> /\ u.bytes[1] # 16
  /\ Framed(u.bytes) \/ (Noise(u.bytes) /\ u.body = Absent)
  /\ ReadsAsSent(u)

ASSUME StreamsAssumption ==
  \A s \in Streams :
    /\ s.kind \in {"tcp", "udp"}
    /\ s.units \in Seq({s.units[k] : k \in DOMAIN s.units})
    /\ \A k \in DOMAIN s.units : IsUnit(s.units[k])

ASSUME ChunksAssumption == ChunkSizes \subseteq Nat

VARIABLE link

StreamBytes(units) == Seqs!FlattenSeq([i \in 1..Len(units) |-> units[i].bytes])

LinkOf(s) ==
  [kind |-> s.kind, units |-> s.units,
   sock |-> "none",      \* none, connecting, open, destroyed (its 'close' is due), gone
   ended |-> FALSE,      \* end() was called on the socket
   closed |-> FALSE,     \* _closed
   bind |-> "none", close |-> "none",     \* the two promises
   stream |-> IF s.kind = "tcp" THEN StreamBytes(s.units) ELSE <<>>,
   rx |-> <<>>,          \* _rxBuf
   out |-> <<>>,         \* the frames and errors emitted
   arrived |-> <<>>]     \* the units whose last byte has arrived

LinkInit == \E s \in Streams : link = LinkOf(s)

Tcp == link.kind = "tcp"

-----------------------------------------------------------------------------
\* The life of the socket.

\* With a socket, or after close(), bind() rejects.
BindLink ==
  /\ link.sock = "none" /\ ~link.closed /\ link.bind = "none"
  /\ link' = [link EXCEPT !.sock = "connecting", !.bind = "pending"]

\* 'connect' or 'listening'
LinkOpens ==
  /\ link.sock = "connecting"
  /\ link' = [link EXCEPT !.sock = "open", !.bind = "resolved"]

\* 'error' before that; a datagram socket stays as it is.
BindLinkFails ==
  /\ link.sock = "connecting" /\ link.bind = "pending"
  /\ link' = [link EXCEPT !.bind = "rejected", !.sock = IF Tcp THEN "destroyed" ELSE @,
                          !.out = Append(@, Emitted("error", Absent))]

ConnectTimeout ==
  /\ Tcp /\ link.sock = "connecting"
  /\ link' = [link EXCEPT !.bind = "rejected", !.sock = "destroyed"]

\* The peer ends the stream or resets it.
PeerEnds ==
  /\ Tcp /\ link.sock = "open"
  /\ \E reset \in BOOLEAN :
       link' = [link EXCEPT !.sock = "destroyed",
                  !.out = IF reset THEN Append(@, Emitted("error", Absent)) ELSE @]

\* A datagram socket closes without anything to flush, also while it is being
\* bound: bind() is not answered then.
CloseLink ==
  /\ ~link.closed
  /\ link' = [link EXCEPT !.closed = TRUE, !.ended = link.sock # "none",
                !.close = IF link.sock = "none" THEN "resolved" ELSE "pending",
                !.sock = IF Tcp \/ @ = "none" THEN @ ELSE "destroyed"]

\* The callback of end(): what was written is out, the socket is destroyed.
LinkFlushed ==
  /\ Tcp /\ link.sock = "open" /\ link.ended
  /\ link' = [link EXCEPT !.sock = "destroyed"]

\* 'close'.  Only the TCP transport then counts as closed by itself.
LinkCloses ==
  /\ link.sock = "destroyed"
  /\ link' = [link EXCEPT !.sock = "gone", !.closed = Tcp \/ @,
                          !.close = IF @ = "pending" THEN "resolved" ELSE @]

-----------------------------------------------------------------------------
\* Data.

\* A round of the loop.  A header that is none, or a length that is no length,
\* costs one byte; a frame that is not complete ends the loop.
DrainStep(s) ==
  IF Len(s.rx) < HeaderLength THEN s
  ELSE IF HeaderFails(s.rx) \/ TotalLength(s.rx) < HeaderLength
    THEN [rx |-> Tail(s.rx), out |-> s.out]
  ELSE IF TotalLength(s.rx) > Len(s.rx) THEN s
  ELSE LET frame == FrameIn(SubSeq(s.rx, 1, TotalLength(s.rx)))
       IN  [rx |-> Rest(s.rx, TotalLength(s.rx)),
            out |-> IF frame.event = "raw" THEN s.out ELSE Append(s.out, frame)]

\* Mutated form: a chunk is looked at once and not in a loop.
DrainOne(rx, out) == DrainStep([rx |-> rx, out |-> out])

\* The loop of _onData: what is emitted, and what stays for the next chunk.  A
\* round that changes nothing is its end, and every other one takes a byte.
Drain(rx, out) ==
  LET after[round \in 0..Len(rx)] ==
        IF round = 0 THEN [rx |-> rx, out |-> out] ELSE DrainStep(after[round - 1])
  IN  after[Len(rx)]

\* How many units end within the first n bytes.
Complete(units, n) ==
  LET ends(k) == Len(StreamBytes(SubSeq(units, 1, k)))
  IN  CHOOSE k \in 0..Len(units) :
        ends(k) <= n /\ (k = Len(units) \/ ends(k + 1) > n)

OnData ==
  /\ Tcp /\ link.sock = "open" /\ link.stream # <<>>
  /\ \E size \in ChunkSizes :
       LET n == IF size < Len(link.stream) THEN size ELSE Len(link.stream)
           drained == Drain(link.rx \o SubSeq(link.stream, 1, n), link.out)
           left == Len(link.stream) - n
           done == Complete(link.units, Len(StreamBytes(link.units)) - left)
       IN  link' = [link EXCEPT !.stream = Rest(@, n), !.rx = drained.rx,
                                !.out = drained.out, !.arrived = [i \in 1..done |-> i]]

\* One frame of a datagram is read; what follows it is not looked at.
OnDatagram ==
  /\ ~Tcp /\ link.sock = "open"
  /\ \E i \in 1..Len(link.units) :
       /\ \A k \in 1..Len(link.arrived) : link.arrived[k] < i
       /\ LET frame == FrameIn(link.units[i].bytes)
          IN  link' = [link EXCEPT !.arrived = Append(@, i),
                         !.out = IF frame.event = "raw" THEN @ ELSE Append(@, frame)]

LinkNext ==
  \/ BindLink \/ LinkOpens \/ BindLinkFails \/ ConnectTimeout \/ PeerEnds
  \/ CloseLink \/ LinkFlushed \/ LinkCloses \/ OnData \/ OnDatagram

LinkSpec == LinkInit /\ [][LinkNext]_link

-----------------------------------------------------------------------------
\* But for what is Absent, got and sent hold the same in the same order: each
\* element of got comes from one of sent.
Present(s) == {i \in 1..Len(s) : s[i] # Absent}

Agree(got, sent) ==
  \E from \in [Present(got) -> Present(sent)] :
    /\ \A k \in Present(sent) : \E i \in Present(got) : from[i] = k
    /\ \A i, j \in Present(got) : i < j => from[i] < from[j]
    /\ \A i \in Present(got) : got[i] = sent[from[i]]

\* The bodies of the messages that were emitted, and of the units that arrived.
Received(out) ==
  [i \in 1..Len(out) |-> IF out[i].event = "message" THEN out[i].body ELSE Absent]
Delivered(units, arrived) == [k \in 1..Len(arrived) |-> units[arrived[k]].body]

\* However the stream is cut into chunks, whatever stray bytes lie between the
\* frames, and however the socket ends: each frame that has arrived completely
\* was emitted as a message, once, in its order, with the content it was sent
\* with, and nothing else was.
FramesArriveWhole == Agree(Received(link.out), Delivered(link.units, link.arrived))
=============================================================================
