---------------------------- MODULE PacketReader ----------------------------
(***************************************************************************)
(* The two-phase frame reader at the top of receive_packet               *)
(* (src/library/tunnel_protocol.c): the 2-byte big-endian length is read  *)
(* first, checked against bufferSize, then the body; receive_data may     *)
(* deliver any number of the requested bytes per call, so one frame may   *)
(* take several calls.  A complete frame is then classified by its byte 2 *)
(* (forwarding messages), its length (shorter than a header) and its      *)
(* magic, as the dispatcher does before it looks at the command.          *)
(*                                                                         *)
(* The byte stream is the concatenation of the frames the remote sent,    *)
(* each as <<size div 256, size mod 256, b2, filler...>>.                 *)
(***************************************************************************)
EXTENDS Naturals, Sequences

CONSTANTS
    BufferSize,   \* conn->bufferSize
    FrameSizes,   \* declared sizes the remote may send
    Bytes2,       \* values the remote may put in byte 2 of a frame
    MaxFrames,    \* bound on the frames in the stream
    HoldTag,      \* MSG_FORWARD_HOLD
    ReplyTag,     \* MSG_FORWARD_REPLY
    ErrorTag,     \* MSG_FORWARD_ERROR
    MagicHi,      \* the first byte of PACKET_MAGIC on the wire
    UIntMax       \* the largest unsigned int (2^32 - 1 in the build)

HeaderSize == 8           \* sizeof(struct packet_header): length, magic, command
LengthSize == 2           \* sizeof(unsigned short)

ASSUME ReaderAssumption ==
    /\ BufferSize \in Nat /\ BufferSize >= HeaderSize
    /\ FrameSizes \subseteq 0 .. 65535
    /\ Bytes2 \subseteq 0 .. 255
    /\ MaxFrames \in Nat \ {0}
    /\ {HoldTag, ReplyTag, ErrorTag, MagicHi} \subseteq 0 .. 255
    /\ UIntMax \in Nat /\ UIntMax > 65535

VARIABLES
    stream,         \* the frames of the TCP stream, fixed by the remote
    pos,            \* bytes of the stream the client has read
    buf,            \* conn->receiveBuffer
    bytesReceived,  \* conn->bytesReceived
    bytesLeft,      \* conn->bytesLeft
    failed,         \* receive_packet returned -1
    errorKind,      \* conn->errorKind
    dispatched      \* history: every complete frame and how it was handled

vars == <<stream, pos, buf, bytesReceived, bytesLeft, failed, errorKind,
          dispatched>>

Frame == [size : FrameSizes, b2 : Bytes2]
ErrorKinds == {"no_error", "buffer_exceeded", "protocol_error", "socket_error",
               "server_error", "peer_timeout"}
BufIndex == 0 .. BufferSize - 1
Verdicts == {"hold", "reply", "error", "packet", "protocol_error"}

\* Offset of frame i in the stream; Start[Len(stream) + 1] is its length.
Start[i \in 1 .. Len(stream) + 1] ==
    IF i = 1 THEN 0 ELSE Start[i - 1] + LengthSize + stream[i - 1].size

StreamLen == Start[Len(stream) + 1]

\* Byte o of frame f on the wire: length high byte, low byte, byte 2, filler.
FrameByte(f, o) ==
    CASE o = 0 -> f.size \div 256
      [] o = 1 -> f.size % 256
      [] o = 2 -> f.b2
      [] OTHER -> 0

\* Byte g (from 0) of the stream.
StreamByte(g) ==
    LET i == CHOOSE j \in 1 .. Len(stream) : Start[j] <= g /\ g < Start[j + 1]
    IN  FrameByte(stream[i], g - Start[i])

TypeOK ==
    /\ stream \in Seq(Frame) /\ Len(stream) \in 1 .. MaxFrames
    /\ pos \in 0 .. StreamLen
    /\ buf \in [BufIndex -> 0 .. 255]
    /\ bytesReceived \in 0 .. BufferSize
    /\ bytesLeft \in 0 .. 65535
    /\ failed \in BOOLEAN
    /\ errorKind \in ErrorKinds
    /\ dispatched \in Seq([size : 0 .. 65535, b2 : 0 .. 255,
                           extent : 0 .. UIntMax + 3, verdict : Verdicts])

Init ==
    /\ \E n \in 1 .. MaxFrames : stream \in [1 .. n -> Frame]
    /\ pos = 0
    /\ buf = [j \in BufIndex |-> 0]
    /\ bytesReceived = 0
    /\ bytesLeft = 0
    /\ failed = FALSE
    /\ errorKind = "no_error"
    /\ dispatched = <<>>

-----------------------------------------------------------------------------
(* receive_data, from its declaration in socket.h and spec section 4.1:    *)
(* k of the bytesLeft requested bytes are copied to receiveBuffer at       *)
(* bytesReceived; the call returns bytesReceived once bytesLeft is 0, and  *)
(* 0 while bytes are still missing.                                        *)

Available == StreamLen - pos

\* The buffer after k bytes of the stream, from p on, landed at offset r.
Landed(b, r, p, k) ==
    [j \in BufIndex |-> IF r <= j /\ j < r + k THEN StreamByte(p + j - r) ELSE b[j]]

ReturnOf(received, left) == IF left = 0 THEN received ELSE 0

\* receive_data asked for no byte at all (a frame whose length prefix is 0):
\* its body is not in the repository and spec section 4.1 does not say, so
\* it may report the read complete or return 0 having read nothing.
ZeroReadReturns(received) == {received, 0}

\* The frame size in the length prefix: (buf[0] << 8) | buf[1].
SizeOf(b) == b[0] * 256 + b[1]

\* How the dispatcher handles a complete frame of ret bytes in buffer b,
\* and the last buffer index it reads.
VerdictOf(b, ret) ==
    CASE b[2] = HoldTag -> "hold"
      [] b[2] = ReplyTag -> "reply"
      [] b[2] = ErrorTag -> "error"
      [] ret < HeaderSize -> "protocol_error"
      [] b[2] # MagicHi -> "protocol_error"
      [] OTHER -> "packet"

\* x - 1 in unsigned int arithmetic.
UIntDec(x) == IF x >= 1 THEN x - 1 ELSE UIntMax

\* A forwarding message is unpacked from &data[1] over SWAP_16(size) - 1
\* bytes; the result is one past the last buffer index read.
ExtentOf(b, ret) ==
    IF b[2] \in {ReplyTag, ErrorTag}
    THEN 3 + UIntDec(SizeOf(b))
    ELSE 3

\* What the dispatcher's branch does with the connection.  MSG_FORWARD_REPLY
\* fails when its protobuf does not decode (protocol_error), on a wrong
\* signature (errorKind unchanged) or when sendTELL fails, and goes on
\* otherwise; MSG_FORWARD_ERROR always fails, with protocol_error when it does
\* not decode or with the kind of its code.  What the handshake handlers do
\* with a packet is the subject of module TunnelProtocol.
Outcome(v) ==
    CASE v = "protocol_error" ->
             failed' = TRUE /\ errorKind' = "protocol_error"
      [] v = "reply" ->
             \/ UNCHANGED <<failed, errorKind>>
             \/ failed' = TRUE /\ errorKind' \in {"protocol_error", "socket_error"}
             \/ failed' = TRUE /\ UNCHANGED errorKind
      [] v = "error" ->
             failed' = TRUE
             /\ errorKind' \in {"protocol_error", "server_error", "peer_timeout"}
      [] OTHER -> UNCHANGED <<failed, errorKind>>

\* The frame handed to the dispatcher.
Dispatch(b, ret) ==
    /\ dispatched' = Append(dispatched,
                            [size |-> ret - LengthSize, b2 |-> b[2],
                             extent |-> ExtentOf(b, ret),
                             verdict |-> VerdictOf(b, ret)])
    /\ Outcome(VerdictOf(b, ret))

\* Where a call resumes: a finished frame starts a new one with the 2-byte
\* length, an unfinished one continues.
ResumeNoReset == IF bytesLeft = 0
                 THEN [left |-> LengthSize, received |-> bytesReceived]
                 ELSE [left |-> bytesLeft, received |-> bytesReceived]
Resume == IF bytesLeft = 0
          THEN [left |-> LengthSize, received |-> 0]
          ELSE [left |-> bytesLeft, received |-> bytesReceived]

\* The declared size does not fit the buffer together with the length.
ExceedsOffByTwo(size) == size > BufferSize
ExceedsAtLimit(size) == size + LengthSize >= BufferSize
Exceeds(size) == size + LengthSize > BufferSize

\* One call of receive_packet on a readable socket.
ReceivePacket ==
    /\ ~failed
    /\ Available > 0
    /\ LET left0 == Resume.left
           recv0 == Resume.received
       IN  \E k1 \in 1 .. IF left0 < Available THEN left0 ELSE Available :
           LET b1 == Landed(buf, recv0, pos, k1)
               ret1 == ReturnOf(recv0 + k1, left0 - k1)
               size == SizeOf(b1)
           IN  IF ret1 # LengthSize
               THEN \* the length or the body is still incomplete, or the
                    \* body has just been completed
                    /\ buf' = b1
                    /\ bytesReceived' = recv0 + k1
                    /\ bytesLeft' = left0 - k1
                    /\ pos' = pos + k1
                    /\ IF ret1 > 0 THEN Dispatch(b1, ret1)
                                   ELSE UNCHANGED <<failed, errorKind, dispatched>>
               ELSE IF Exceeds(size)
               THEN /\ buf' = b1
                    /\ bytesReceived' = recv0 + k1
                    /\ bytesLeft' = 0
                    /\ pos' = pos + k1
                    /\ failed' = TRUE
                    /\ errorKind' = "buffer_exceeded"
                    /\ UNCHANGED dispatched
               ELSE \E k2 \in 0 .. IF size < Available - k1 THEN size
                                   ELSE Available - k1 :
                    \E ret2 \in IF size = 0 THEN ZeroReadReturns(LengthSize)
                                 ELSE {ReturnOf(LengthSize + k2, size - k2)} :
                    LET b2 == Landed(b1, LengthSize, pos + k1, k2)
                    IN  /\ buf' = b2
                        /\ bytesReceived' = LengthSize + k2
                        /\ bytesLeft' = size - k2
                        /\ pos' = pos + k1 + k2
                        /\ IF ret2 > 0 THEN Dispatch(b2, ret2)
                                       ELSE UNCHANGED <<failed, errorKind, dispatched>>
    /\ UNCHANGED stream

Next == ReceivePacket

Spec == Init /\ [][Next]_vars

-----------------------------------------------------------------------------
(* Properties.                                                              *)

\* Spec section 3: the reader never asks for more bytes than the buffer has
\* room for.
BufferBound == bytesReceived + bytesLeft <= BufferSize

\* Spec section 4.1: however receive_data splits the stream, the k-th frame
\* handed to the dispatcher is the k-th frame the remote sent.
FrameIntegrity ==
    \A k \in 1 .. Len(dispatched) :
        /\ k <= Len(stream)
        /\ dispatched[k].size = stream[k].size
        /\ dispatched[k].b2 = stream[k].b2

\* Spec section 8, scenario 5: a connection fails with buffer_exceeded
\* exactly on a frame whose declared size does not fit the buffer, and
\* before any byte of its body is read.
OversizeRejectedUnread ==
    errorKind = "buffer_exceeded" =>
        LET i == Len(dispatched) + 1 IN
        /\ i <= Len(stream)
        /\ stream[i].size + LengthSize > BufferSize
        /\ bytesReceived = LengthSize
        /\ pos = Start[i] + LengthSize

\* The dispatcher reads only bytes of the frame it was given: byte 2 and,
\* for a forwarding message, the protobuf body after it.
ReadsWithinFrame ==
    \A k \in 1 .. Len(dispatched) :
        dispatched[k].extent <= dispatched[k].size + LengthSize

=============================================================================
