--------------------------- MODULE TunnelProtocol ---------------------------
(***************************************************************************)
(* The client side of one OSDG tunnel connection (src/library/            *)
(* tunnel_protocol.c): start_connection, the frame dispatcher              *)
(* receive_packet with its WELC/COOK/REDY/MESG and forwarding branches,    *)
(* and sendMESG for application data.  The connection talks over one TCP  *)
(* stream to a remote: the grid server, or, in peer mode, the grid's      *)
(* forwarder followed by the peer device.  Crypto is abstracted to key    *)
(* identities: a box opens exactly when it was sealed under the key the   *)
(* opener holds.                                                          *)
(*                                                                         *)
(* Frames are taken whole; how the bytes of a frame are read is the       *)
(* subject of module PacketReader.                                        *)
(***************************************************************************)
EXTENDS Naturals, Sequences

CONSTANTS
    Modes,        \* connection modes the application may choose: "grid", "peer"
    SrvKey,       \* long-term public key of the remote the connection reaches
    ForeignKey,   \* some other well-formed long-term key
    WeakKey,      \* a low-order point: every crypto_box with it fails
    NoKey,        \* serverPubkey before any WELC
    Signatures,   \* signatures a grid may put into FORWARD_REPLY
    SigOk,        \* FORWARD_REMOTE_SIGNATURE
    MaxEph,       \* bound on ephemeral keypairs (one per WELC)
    MaxShort,     \* bound on server short-term keys (one per COOK)
    MaxNonce,     \* bound on the client nonce counter
    MaxIn,        \* bound on unsolicited frames in flight towards the client
    MaxOut,       \* bound on frames in flight towards the remote
    Rogue,        \* the remote may send any frame it can build, in any order
    InitKeyKnown, \* beforenmData as created (zeroed) is a key the remote can use
    SendFails     \* send_data may fail

ASSUME ConstAssumption ==
    /\ Modes \subseteq {"grid", "peer"} /\ Modes # {}
    /\ SigOk \in Signatures
    /\ MaxEph \in Nat /\ MaxShort \in Nat /\ MaxIn \in Nat /\ MaxOut \in Nat
    /\ MaxNonce \in Nat \ {0}
    /\ Rogue \in BOOLEAN /\ InitKeyKnown \in BOOLEAN /\ SendFails \in BOOLEAN

VARIABLES
    status,        \* conn->status (set through connection_set_status)
    mode,          \* conn->mode
    tunnelId,      \* conn->tunnelId # NULL
    serverPubkey,  \* conn->serverPubkey
    eph,           \* generation of clientTempPubkey/clientTempSecret (0: as created)
    beforenm,      \* conn->beforenmData, as the session it was computed for
    cookie,        \* conn->serverCookie, as the short-term key it was issued with
    nonce,         \* conn->nonce
    errorKind,     \* conn->errorKind
    out,           \* frames the client has sent and the remote not yet read
    in,            \* frames the remote has sent and the client not yet read
    sealed,        \* history: <<key, nonce>> of every box the client sealed
    srv            \* the remote's own state

vars == <<status, mode, tunnelId, serverPubkey, eph, beforenm, cookie, nonce,
          errorKind, out, in, sealed, srv>>

ServerKeys == {SrvKey, ForeignKey, WeakKey}
WeakShort == 0                     \* a low-order short-term key in a COOK
InitSession == <<0, 0>>            \* beforenmData before any COOK
Sessions == (1 .. MaxShort) \X (1 .. MaxEph)
ErrorKinds == {"no_error", "socket_error", "crypto_core_error",
               "decryption_error", "protocol_error", "buffer_exceeded",
               "server_error", "peer_timeout"}
Statuses == {"connecting", "forwarding", "handshaking", "connected", "failed"}
Bodies == {"PV_MATCH", "PV_MISMATCH", "DATA"}
ForwardCodes == {"SERVER_ERROR", "PEER_TIMEOUT", "OTHER"}

\* Box keys: the long-term/short-term pair of HELO, or a session key.
LongKey(k, e) == [kind |-> "long", srv |-> k, eph |-> e]
SessKey(x) == [kind |-> "sess", sess |-> x]

BoxKeys == {LongKey(k, e) : k \in ServerKeys, e \in 1 .. MaxEph}
           \cup {SessKey(x) : x \in Sessions \cup {InitSession}}

RemoteStates == [sess : Sessions \cup {InitSession}, shorts : 0 .. MaxShort,
                 ephSeen : SUBSET (0 .. MaxEph), vouched : BOOLEAN,
                 pv : {"none", "match", "mismatch"}]

\* Frames from the remote to the client.
InFrames ==
    [cmd : {"HOLD", "JUNK", "UNKNOWN"}]
    \cup [cmd : {"FWDREPLY"}, sig : Signatures]
    \cup [cmd : {"FWDERROR"}, code : ForwardCodes]
    \cup [cmd : {"WELC"}, key : ServerKeys]
    \cup [cmd : {"COOK"}, key : ServerKeys, eph : 0 .. MaxEph,
          short : 0 .. MaxShort]
    \cup [cmd : {"REDY"}, sess : Sessions \cup {InitSession}]
    \cup [cmd : {"MESG"}, sess : Sessions \cup {InitSession}, body : Bodies]

\* Frames from the client to the remote.
OutFrames ==
    [cmd : {"FWDREMOTE", "TELL"}]
    \cup [cmd : {"HELO"}, key : ServerKeys, eph : 1 .. MaxEph]
    \cup [cmd : {"VOCH"}, sess : Sessions,
          cookie : 0 .. MaxShort, cert : BOOLEAN]
    \cup [cmd : {"MESG"}, sess : Sessions \cup {InitSession},
          body : {"PV", "DATA"}]

TypeOK ==
    /\ status \in Statuses
    /\ mode \in Modes
    /\ tunnelId \in BOOLEAN
    /\ serverPubkey \in ServerKeys \cup {NoKey}
    /\ eph \in 0 .. MaxEph
    /\ beforenm \in Sessions \cup {InitSession}
    /\ cookie \in 0 .. MaxShort
    /\ nonce \in 1 .. MaxNonce
    /\ errorKind \in ErrorKinds
    /\ out \in Seq(OutFrames)
    /\ in \in Seq(InFrames)
    /\ sealed \in Seq([key : BoxKeys, n : 1 .. MaxNonce])
    /\ srv \in RemoteStates

Init ==
    /\ status = "connecting"
    /\ mode \in Modes
    /\ tunnelId = (mode = "peer")
    /\ serverPubkey = NoKey
    /\ eph = 0
    /\ beforenm = InitSession
    /\ cookie = 0
    /\ nonce = 1
    /\ errorKind = "no_error"
    /\ out = <<>>
    /\ in = <<>>
    /\ sealed = <<>>
    /\ srv = [sess |-> InitSession, shorts |-> 0, ephSeen |-> {},
              vouched |-> FALSE, pv |-> "none"]

-----------------------------------------------------------------------------
(* Helpers for the code's common steps.                                    *)

\* The event loop's reaction to a handler that returned -1: the connection
\* fails with whatever errorKind the handler left behind.
Fail(kind) ==
    /\ status' = "failed"
    /\ errorKind' = kind

\* send_packet/send_data followed by connection_set_result: the frame goes
\* out and the connection takes status st, or send_data fails.
Emit(f, st) ==
    \/ /\ Len(out) < MaxOut
       /\ out' = Append(out, f)
       /\ status' = st
       /\ UNCHANGED errorKind
    \/ /\ SendFails
       /\ UNCHANGED out
       /\ Fail("socket_error")

\* client_get_nonce: the box is sealed under key with the current counter,
\* which is then incremented.
UseNonceStale(key) ==
    /\ nonce < MaxNonce
    /\ sealed' = Append(sealed, [key |-> key, n |-> nonce])
    /\ UNCHANGED nonce
UseNonceTwice(key) ==
    /\ nonce < MaxNonce
    /\ sealed' = Append(sealed, [key |-> key, n |-> nonce])
    /\ nonce' = nonce + 2
UseNonce(key) ==
    /\ nonce < MaxNonce
    /\ sealed' = Append(sealed, [key |-> key, n |-> nonce])
    /\ nonce' = nonce + 1

\* A handler runs only while the connection is alive and a frame is queued.
Receiving == status \notin {"failed"} /\ in # <<>>

\* The status the spec gives to a connection that has just sent TELL.
StatusAfterTell == IF status \in {"connecting", "forwarding"}
                   THEN "handshaking" ELSE status

-----------------------------------------------------------------------------
(* The client: start_connection and one action per branch of              *)
(* receive_packet, each ending in connection_set_result.                   *)

\* start_connection: FORWARD_REMOTE through sendForward when a tunnel id is
\* set (and the id is freed), TELL otherwise.
StartConnection ==
    /\ status = "connecting"
    /\ IF tunnelId
       THEN /\ tunnelId' = FALSE
            /\ Emit([cmd |-> "FWDREMOTE"], "forwarding")
       ELSE /\ UNCHANGED tunnelId
            /\ Emit([cmd |-> "TELL"], StatusAfterTell)
    /\ UNCHANGED <<mode, serverPubkey, eph, beforenm, cookie, nonce, in,
                   sealed, srv>>

\* MSG_FORWARD_HOLD: ignored.
RecvForwardHold ==
    /\ Receiving
    /\ Head(in).cmd = "HOLD"
    /\ in' = Tail(in)
    /\ UNCHANGED <<status, mode, tunnelId, serverPubkey, eph, beforenm, cookie,
                   nonce, errorKind, out, sealed, srv>>

\* MSG_FORWARD_REPLY: a wrong signature returns -1 without setting
\* errorKind; the right one sends TELL.
RecvForwardReply ==
    /\ Receiving
    /\ Head(in).cmd = "FWDREPLY"
    /\ in' = Tail(in)
    /\ IF Head(in).sig # SigOk
       THEN status' = "failed" /\ UNCHANGED <<errorKind, out>>
       ELSE Emit([cmd |-> "TELL"], StatusAfterTell)
    /\ UNCHANGED <<mode, tunnelId, serverPubkey, eph, beforenm, cookie, nonce,
                   sealed, srv>>

\* The errorKind a MSG_FORWARD_ERROR code maps to.
ForwardErrorKind(code) ==
    CASE code = "SERVER_ERROR" -> "server_error"
      [] code = "PEER_TIMEOUT" -> "peer_timeout"
      [] OTHER -> "protocol_error"

\* MSG_FORWARD_ERROR: always fatal.
RecvForwardError ==
    /\ Receiving
    /\ Head(in).cmd = "FWDERROR"
    /\ in' = Tail(in)
    /\ Fail(ForwardErrorKind(Head(in).code))
    /\ UNCHANGED <<mode, tunnelId, serverPubkey, eph, beforenm, cookie, nonce,
                   out, sealed, srv>>

\* A frame the dispatcher rejects: an undecodable forwarding message, a
\* frame shorter than a header, or a wrong magic.
RecvJunk ==
    /\ Receiving
    /\ Head(in).cmd = "JUNK"
    /\ in' = Tail(in)
    /\ Fail("protocol_error")
    /\ UNCHANGED <<mode, tunnelId, serverPubkey, eph, beforenm, cookie, nonce,
                   out, sealed, srv>>

\* An unknown command: ignored.
RecvUnknown ==
    /\ Receiving
    /\ Head(in).cmd = "UNKNOWN"
    /\ in' = Tail(in)
    /\ UNCHANGED <<status, mode, tunnelId, serverPubkey, eph, beforenm, cookie,
                   nonce, errorKind, out, sealed, srv>>

\* WELC: take the server key, make a new ephemeral keypair, seal the zero
\* HELO box under (server key, ephemeral secret) and send HELO.
RecvWELC ==
    /\ Receiving
    /\ Head(in).cmd = "WELC"
    /\ eph < MaxEph
    /\ in' = Tail(in)
    /\ serverPubkey' = Head(in).key
    /\ eph' = eph + 1
    /\ IF Head(in).key = WeakKey
       THEN /\ nonce < MaxNonce /\ nonce' = nonce + 1
            /\ Fail("crypto_core_error")
            /\ UNCHANGED <<out, sealed>>
       ELSE /\ UseNonce(LongKey(Head(in).key, eph + 1))
            /\ Emit([cmd |-> "HELO", key |-> Head(in).key, eph |-> eph + 1],
                    status)
    /\ UNCHANGED <<mode, tunnelId, beforenm, cookie, srv>>

\* COOK: open the cookie box with (serverPubkey, ephemeral secret), keep the
\* cookie, compute beforenm with the server's short-term key, and send VOCH
\* sealed under it (with the certificate record in grid mode).
RecvCOOK ==
    /\ Receiving
    /\ Head(in).cmd = "COOK"
    /\ in' = Tail(in)
    /\ LET f == Head(in)
           opens == f.key = serverPubkey /\ f.eph = eph /\ eph # 0
           sess == <<f.short, eph>>
       IN  IF ~opens
           THEN /\ Fail("decryption_error")
                /\ UNCHANGED <<cookie, beforenm, nonce, out, sealed>>
           ELSE IF f.short = WeakShort
           THEN /\ Fail("crypto_core_error")
                /\ cookie' = f.short
                /\ UNCHANGED <<beforenm, nonce, out, sealed>>
           ELSE /\ cookie' = f.short
                /\ beforenm' = sess
                /\ UseNonce(SessKey(sess))
                /\ Emit([cmd |-> "VOCH", sess |-> sess, cookie |-> f.short,
                         cert |-> (mode = "grid")], status)
    /\ UNCHANGED <<mode, tunnelId, serverPubkey, eph, srv>>

\* After REDY a connection that is not a grid one is done.
RedyDoneAlways == TRUE
RedyDoneNever == FALSE
RedyDone == mode # "grid"

\* REDY: decrypt under beforenm; a peer connection is then connected, a
\* grid connection sends MESG(MSG_PROTOCOL_VERSION).
RecvREDY ==
    /\ Receiving
    /\ Head(in).cmd = "REDY"
    /\ in' = Tail(in)
    /\ IF Head(in).sess # beforenm
       THEN /\ Fail("decryption_error")
            /\ UNCHANGED <<nonce, out, sealed>>
       ELSE IF RedyDone
       THEN /\ status' = "connected"
            /\ UNCHANGED <<errorKind, nonce, out, sealed>>
       ELSE /\ UseNonce(SessKey(beforenm))
            /\ Emit([cmd |-> "MESG", sess |-> beforenm, body |-> "PV"], status)
    /\ UNCHANGED <<mode, tunnelId, serverPubkey, eph, beforenm, cookie, srv>>

\* connection_handle_data on a grid connection: a matching
\* MSG_PROTOCOL_VERSION completes the handshake, a mismatch is a protocol
\* error; other payloads go to the upper layer.
HandleData(body) ==
    CASE mode = "grid" /\ body = "PV_MISMATCH" ->
             Fail("protocol_error")
      [] mode = "grid" /\ body = "PV_MATCH" ->
             /\ status' = IF status = "handshaking" THEN "connected" ELSE status
             /\ UNCHANGED errorKind
      [] OTHER -> UNCHANGED <<status, errorKind>>

\* MESG: decrypt under beforenm and hand the payload to connection_handle_data.
RecvMESG ==
    /\ Receiving
    /\ Head(in).cmd = "MESG"
    /\ in' = Tail(in)
    /\ IF Head(in).sess # beforenm
       THEN Fail("decryption_error")
       ELSE HandleData(Head(in).body)
    /\ UNCHANGED <<mode, tunnelId, serverPubkey, eph, beforenm, cookie, nonce,
                   out, sealed, srv>>

\* sendMESG from connection_send: application data sealed under beforenm.
\* A payload larger than the buffer is refused by get_MESG_packet before a
\* nonce is taken.
AppSend ==
    /\ status = "connected"
    /\ \/ /\ UseNonce(SessKey(beforenm))
          /\ Emit([cmd |-> "MESG", sess |-> beforenm, body |-> "DATA"], status)
       \/ /\ Fail("buffer_exceeded")
          /\ UNCHANGED <<nonce, out, sealed>>
    /\ UNCHANGED <<mode, tunnelId, serverPubkey, eph, beforenm, cookie, in, srv>>

\* receive_data fails: a socket error or the remote closing the stream.
SocketError ==
    /\ status \notin {"failed"}
    /\ Fail("socket_error")
    /\ UNCHANGED <<mode, tunnelId, serverPubkey, eph, beforenm, cookie, nonce,
                   out, in, sealed, srv>>

Receive == RecvForwardHold \/ RecvForwardReply \/ RecvForwardError
           \/ RecvJunk \/ RecvUnknown \/ RecvWELC \/ RecvCOOK \/ RecvREDY
           \/ RecvMESG

Client == StartConnection \/ Receive \/ AppSend \/ SocketError

-----------------------------------------------------------------------------
(* The remote, from spec sections 4.3 and 6: it reads the client's frames  *)
(* in order and answers as a grid (or the forwarder and the peer device)   *)
(* does.  With Rogue it may also send any frame it is able to build.       *)

clientVars == <<status, mode, tunnelId, serverPubkey, eph, beforenm, cookie,
                nonce, errorKind, sealed>>

\* The remote consumes the client's next frame and queues the replies rs.
\* Answers may use two slots beyond MaxIn, which bounds unsolicited frames,
\* so that unsolicited data never starves an answer.
Answer(rs) ==
    /\ out' = Tail(out)
    /\ Len(in) + Len(rs) <= MaxIn + 2
    /\ in' = in \o rs

RemoteForward ==
    /\ out # <<>> /\ Head(out).cmd = "FWDREMOTE"
    /\ \/ \E s \in Signatures, hold \in BOOLEAN :
              Answer(IF hold THEN <<[cmd |-> "HOLD"], [cmd |-> "FWDREPLY", sig |-> s]>>
                             ELSE <<[cmd |-> "FWDREPLY", sig |-> s]>>)
       \/ \E c \in ForwardCodes : Answer(<<[cmd |-> "FWDERROR", code |-> c]>>)
    /\ UNCHANGED <<clientVars, srv>>

RemoteTell ==
    /\ out # <<>> /\ Head(out).cmd = "TELL"
    /\ Answer(<<[cmd |-> "WELC", key |-> SrvKey]>>)
    /\ UNCHANGED <<clientVars, srv>>

\* A HELO the remote can open gets a COOK with a fresh short-term key.
RemoteHelo ==
    /\ out # <<>> /\ Head(out).cmd = "HELO"
    /\ LET h == Head(out) IN
       IF h.key = SrvKey /\ srv.shorts < MaxShort
       THEN /\ Answer(<<[cmd |-> "COOK", key |-> SrvKey, eph |-> h.eph,
                         short |-> srv.shorts + 1]>>)
            /\ srv' = [srv EXCEPT !.sess = <<srv.shorts + 1, h.eph>>,
                                  !.shorts = srv.shorts + 1,
                                  !.ephSeen = @ \cup {h.eph}]
       ELSE /\ out' = Tail(out) /\ UNCHANGED in
            /\ srv' = [srv EXCEPT !.ephSeen = @ \cup {h.eph}]
    /\ UNCHANGED clientVars

\* A VOCH under the remote's session with its cookie is accepted and
\* answered by REDY; anything else is dropped.
RemoteVoch ==
    /\ out # <<>> /\ Head(out).cmd = "VOCH"
    /\ LET v == Head(out) IN
       IF v.sess = srv.sess /\ v.cookie = srv.sess[1] /\ srv.sess # InitSession
       THEN /\ Answer(<<[cmd |-> "REDY", sess |-> srv.sess]>>)
            /\ srv' = [srv EXCEPT !.vouched = TRUE]
       ELSE /\ out' = Tail(out) /\ UNCHANGED <<in, srv>>
    /\ UNCHANGED clientVars

\* A grid answers the client's protocol version with its own.
RemoteMesg ==
    /\ out # <<>> /\ Head(out).cmd = "MESG"
    /\ LET m == Head(out) IN
       IF m.sess = srv.sess /\ srv.vouched /\ m.body = "PV" /\ mode = "grid"
       THEN \E r \in {"match", "mismatch"} :
              /\ Answer(<<[cmd |-> "MESG", sess |-> srv.sess,
                           body |-> IF r = "match" THEN "PV_MATCH"
                                                   ELSE "PV_MISMATCH"]>>)
              /\ srv' = [srv EXCEPT !.pv = r]
       ELSE /\ out' = Tail(out) /\ UNCHANGED <<in, srv>>
    /\ UNCHANGED clientVars

\* Once it has accepted the vouch the remote may send data at any time.
RemoteData ==
    /\ srv.vouched
    /\ Len(in) < MaxIn
    /\ in' = Append(in, [cmd |-> "MESG", sess |-> srv.sess, body |-> "DATA"])
    /\ UNCHANGED <<clientVars, out, srv>>

\* Sessions the remote can compute: its short-term keys with the ephemeral
\* public keys it has seen, and the creation-time key when that is known.
KnownSessions ==
    {<<s, e>> : s \in 1 .. srv.shorts, e \in srv.ephSeen \ {0}}
    \cup (IF InitKeyKnown THEN {InitSession} ELSE {})

Buildable ==
    [cmd : {"HOLD", "JUNK", "UNKNOWN"}]
    \cup [cmd : {"FWDREPLY"}, sig : Signatures]
    \cup [cmd : {"FWDERROR"}, code : ForwardCodes]
    \cup [cmd : {"WELC"}, key : ServerKeys]
    \cup [cmd : {"COOK"}, key : {SrvKey}, eph : srv.ephSeen,
          short : 0 .. MaxShort]
    \cup [cmd : {"REDY"}, sess : KnownSessions]
    \cup [cmd : {"MESG"}, sess : KnownSessions, body : Bodies]

RogueSend ==
    /\ Rogue
    /\ Len(in) < MaxIn
    /\ \E f \in Buildable : in' = Append(in, f)
    /\ UNCHANGED <<clientVars, out, srv>>

Remote == RemoteForward \/ RemoteTell \/ RemoteHelo \/ RemoteVoch
          \/ RemoteMesg \/ RemoteData \/ RogueSend

Next == Client \/ Remote

\* The event loop serves every readable socket, and the remote answers what
\* it reads.
Fairness ==
    /\ WF_vars(StartConnection)
    /\ WF_vars(Receive)
    /\ WF_vars(RemoteForward \/ RemoteTell \/ RemoteHelo \/ RemoteVoch
               \/ RemoteMesg)

Spec == Init /\ [][Next]_vars
FairSpec == Spec /\ Fairness

-----------------------------------------------------------------------------
(* Properties.                                                              *)

\* No two boxes the client seals (HELO, VOCH, MESG) share a key and a nonce:
\* client_get_nonce is the only source of nonces and every seal takes one.
NonceNeverReused ==
    \A i, j \in 1 .. Len(sealed) :
        i # j /\ sealed[i].key = sealed[j].key => sealed[i].n # sealed[j].n

\* A grid connection is connected only once the grid has answered the
\* client's MSG_PROTOCOL_VERSION with a matching version (REDY alone does not
\* complete a grid handshake, unlike a peer one).
VersionNegotiated ==
    mode = "grid" /\ status = "connected" => srv.pv = "match"

\* Every connection eventually completes its handshake or fails.
HandshakeCompletes == <>(status \in {"connected", "failed"})

\* Spec section 3: status advances only along closed -> connecting ->
\* forwarding? -> handshaking -> connected, or drops to failed.
StatusSteps == {<<"connecting", "forwarding">>, <<"connecting", "handshaking">>,
                <<"forwarding", "handshaking">>, <<"handshaking", "connected">>}
StatusOrder ==
    [][status' = "failed" \/ <<status, status'>> \in StatusSteps]_status

\* Spec section 8: in a completed handshake the session key is the one of
\* the client's current ephemeral key and the cookie's short-term key.
KeyAgreement ==
    status = "connected" => beforenm \in Sessions /\ beforenm = <<cookie, eph>>

\* Spec section 7: a failed connection carries the kind of its error.
FailedHasErrorKind == status = "failed" => errorKind # "no_error"

=============================================================================
