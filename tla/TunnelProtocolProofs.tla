------------------------ MODULE TunnelProtocolProofs ------------------------
(***************************************************************************)
(* Proofs about module TunnelProtocol, for every value of its constants   *)
(* that satisfies ConstAssumption: the type invariant, and that the       *)
(* client never seals two boxes under one key with one nonce.             *)
(***************************************************************************)
EXTENDS TunnelProtocol, SequenceTheorems, TLAPS

-----------------------------------------------------------------------------
(* Lemmas on the helpers the actions are built from.                        *)

\* A frame sent with Emit is typed, and so is the status it sets.
LEMMA EmitType ==
    ASSUME NEW f \in OutFrames, NEW st \in Statuses,
           out \in Seq(OutFrames), errorKind \in ErrorKinds, Emit(f, st)
    PROVE  /\ out' \in Seq(OutFrames)
           /\ status' \in Statuses
           /\ errorKind' \in ErrorKinds
  BY DEF Emit, Fail, Statuses, ErrorKinds

\* client_get_nonce under a typed key keeps the counter and the seal history
\* typed.
LEMMA UseNonceType ==
    ASSUME NEW k \in BoxKeys, nonce \in 1 .. MaxNonce,
           sealed \in Seq([key : BoxKeys, n : 1 .. MaxNonce]), UseNonce(k)
    PROVE  /\ nonce' \in 1 .. MaxNonce
           /\ sealed' \in Seq([key : BoxKeys, n : 1 .. MaxNonce])
  BY ConstAssumption DEF UseNonce

\* Fail sets a typed status and error kind.
LEMMA FailType ==
    ASSUME NEW k \in ErrorKinds, Fail(k)
    PROVE  status' \in Statuses /\ errorKind' \in ErrorKinds
  BY DEF Fail, Statuses

\* The remote's answer keeps both streams typed.
LEMMA AnswerType ==
    ASSUME out \in Seq(OutFrames), in \in Seq(InFrames), out # <<>>,
           NEW rs \in Seq(InFrames), Answer(rs)
    PROVE  out' \in Seq(OutFrames) /\ in' \in Seq(InFrames)
  BY DEF Answer

\* The fields of a frame from the remote, by command.
LEMMA InFrameFields ==
    ASSUME NEW f \in InFrames
    PROVE  /\ f.cmd = "FWDERROR" => f.code \in ForwardCodes
           /\ f.cmd = "WELC" => f.key \in ServerKeys
           /\ f.cmd = "COOK" => /\ f.key \in ServerKeys
                                /\ f.eph \in 0 .. MaxEph
                                /\ f.short \in 0 .. MaxShort
           /\ f.cmd = "REDY" => f.sess \in Sessions \cup {InitSession}
           /\ f.cmd = "MESG" => /\ f.sess \in Sessions \cup {InitSession}
                                /\ f.body \in Bodies
  BY DEF InFrames

\* The fields of a frame from the client, by command.
LEMMA OutFrameFields ==
    ASSUME NEW f \in OutFrames
    PROVE  /\ f.cmd = "HELO" => f.key \in ServerKeys /\ f.eph \in 1 .. MaxEph
           /\ f.cmd = "VOCH" => f.sess \in Sessions
           /\ f.cmd = "MESG" => f.sess \in Sessions \cup {InitSession}
  BY DEF OutFrames

-----------------------------------------------------------------------------
(* Type correctness.                                                        *)

\* Every step of the connection and of its remote keeps every variable in
\* its type: in particular every frame either side puts on the stream is a
\* well-formed frame, and every box key the client seals under is one of
\* BoxKeys.
THEOREM TypeCorrect == Spec => []TypeOK
<1> USE ConstAssumption
<1>1. Init => TypeOK
  BY DEF Init, TypeOK, Statuses, ErrorKinds, InitSession, Sessions,
         RemoteStates, ServerKeys
<1>2. TypeOK /\ [Next]_vars => TypeOK'
  <2> SUFFICES ASSUME TypeOK, [Next]_vars PROVE TypeOK'
    OBVIOUS
  <2> DEFINE f == Head(in)
             g == Head(out)
  <2>0. /\ in # <<>> => f \in InFrames /\ Tail(in) \in Seq(InFrames)
        /\ out # <<>> => g \in OutFrames /\ Tail(out) \in Seq(OutFrames)
    BY DEF TypeOK
  <2>a. /\ "failed" \in Statuses /\ "connected" \in Statuses
        /\ "forwarding" \in Statuses
        /\ StatusAfterTell \in Statuses
        /\ [cmd |-> "FWDREMOTE"] \in OutFrames /\ [cmd |-> "TELL"] \in OutFrames
    BY DEF Statuses, StatusAfterTell, TypeOK, OutFrames
  <2>1. CASE StartConnection
    <3>1. out' \in Seq(OutFrames) /\ status' \in Statuses /\ errorKind' \in ErrorKinds
      BY <2>1, <2>a, EmitType DEF StartConnection, TypeOK
    <3> QED
      BY <2>1, <3>1 DEF StartConnection, TypeOK
  <2>2. CASE RecvForwardHold
    BY <2>2, <2>0 DEF RecvForwardHold, Receiving, TypeOK
  <2>3. CASE RecvForwardReply
    <3>1. out' \in Seq(OutFrames) /\ status' \in Statuses /\ errorKind' \in ErrorKinds
      BY <2>3, <2>a, EmitType DEF RecvForwardReply, TypeOK
    <3> QED
      BY <2>3, <2>0, <3>1 DEF RecvForwardReply, Receiving, TypeOK
  <2>4. CASE RecvForwardError
    <3>1. ForwardErrorKind(f.code) \in ErrorKinds
      BY DEF ForwardErrorKind, ErrorKinds
    <3> QED
      BY <2>4, <2>0, <3>1, FailType DEF RecvForwardError, Receiving, TypeOK
  <2>5. CASE RecvJunk
    <3>1. "protocol_error" \in ErrorKinds
      BY DEF ErrorKinds
    <3> QED
      BY <2>5, <2>0, <3>1, FailType DEF RecvJunk, Receiving, TypeOK
  <2>6. CASE RecvUnknown
    BY <2>6, <2>0 DEF RecvUnknown, Receiving, TypeOK
  <2>7. CASE RecvWELC
    <3>1. f \in InFrames /\ f.cmd = "WELC" /\ Tail(in) \in Seq(InFrames)
      BY <2>7, <2>0 DEF RecvWELC, Receiving
    <3>2. f.key \in ServerKeys /\ eph + 1 \in 1 .. MaxEph
      BY <2>7, <3>1, InFrameFields DEF RecvWELC, TypeOK
    <3>3. CASE f.key = WeakKey
      <4>1. "crypto_core_error" \in ErrorKinds
        BY DEF ErrorKinds
      <4> QED
        BY <2>7, <3>1, <3>2, <3>3, <4>1, FailType DEF RecvWELC, TypeOK
    <3>4. CASE f.key # WeakKey
      <4>1. LongKey(f.key, eph + 1) \in BoxKeys
        BY <3>2 DEF BoxKeys
      <4>2. [cmd |-> "HELO", key |-> f.key, eph |-> eph + 1] \in OutFrames
        BY <3>2 DEF OutFrames
      <4>3. nonce' \in 1 .. MaxNonce /\ sealed' \in Seq([key : BoxKeys, n : 1 .. MaxNonce])
        BY <2>7, <3>4, <4>1, UseNonceType DEF RecvWELC, TypeOK
      <4>4. out' \in Seq(OutFrames) /\ status' \in Statuses /\ errorKind' \in ErrorKinds
        BY <2>7, <3>4, <4>2, EmitType DEF RecvWELC, TypeOK
      <4> QED
        BY <2>7, <3>1, <3>2, <4>3, <4>4 DEF RecvWELC, TypeOK
    <3> QED
      BY <3>3, <3>4
  <2>8. CASE RecvCOOK
    <3>1. f \in InFrames /\ f.cmd = "COOK" /\ Tail(in) \in Seq(InFrames)
      BY <2>8, <2>0 DEF RecvCOOK, Receiving
    <3>2. f.key \in ServerKeys /\ f.eph \in 0 .. MaxEph /\ f.short \in 0 .. MaxShort
      BY <3>1, InFrameFields
    <3>3. CASE ~(f.key = serverPubkey /\ f.eph = eph /\ eph # 0)
      <4>1. "decryption_error" \in ErrorKinds
        BY DEF ErrorKinds
      <4> QED
        BY <2>8, <3>1, <3>3, <4>1, FailType DEF RecvCOOK, TypeOK
    <3>4. CASE (f.key = serverPubkey /\ f.eph = eph /\ eph # 0) /\ f.short = WeakShort
      <4>1. "crypto_core_error" \in ErrorKinds
        BY DEF ErrorKinds
      <4> QED
        BY <2>8, <3>1, <3>2, <3>4, <4>1, FailType DEF RecvCOOK, TypeOK
    <3>5. CASE (f.key = serverPubkey /\ f.eph = eph /\ eph # 0) /\ f.short # WeakShort
      <4>1. <<f.short, eph>> \in Sessions
        BY <3>2, <3>5 DEF Sessions, WeakShort, TypeOK
      <4>2. SessKey(<<f.short, eph>>) \in BoxKeys
        BY <4>1 DEF BoxKeys
      <4>3. [cmd |-> "VOCH", sess |-> <<f.short, eph>>, cookie |-> f.short,
             cert |-> (mode = "grid")] \in OutFrames
        BY <3>2, <4>1 DEF OutFrames
      <4>4. nonce' \in 1 .. MaxNonce /\ sealed' \in Seq([key : BoxKeys, n : 1 .. MaxNonce])
        BY <2>8, <3>5, <4>2, UseNonceType DEF RecvCOOK, TypeOK
      <4>5. out' \in Seq(OutFrames) /\ status' \in Statuses /\ errorKind' \in ErrorKinds
        BY <2>8, <3>5, <4>3, EmitType DEF RecvCOOK, TypeOK
      <4> QED
        BY <2>8, <3>1, <3>2, <3>5, <4>1, <4>4, <4>5 DEF RecvCOOK, TypeOK
    <3> QED
      BY <3>3, <3>4, <3>5
  <2>9. CASE RecvREDY
    <3>1. f \in InFrames /\ f.cmd = "REDY" /\ Tail(in) \in Seq(InFrames)
      BY <2>9, <2>0 DEF RecvREDY, Receiving
    <3>2. CASE f.sess # beforenm
      <4>1. "decryption_error" \in ErrorKinds
        BY DEF ErrorKinds
      <4> QED
        BY <2>9, <3>1, <3>2, <4>1, FailType DEF RecvREDY, TypeOK
    <3>3. CASE f.sess = beforenm /\ RedyDone
      BY <2>9, <2>a, <3>1, <3>3 DEF RecvREDY, TypeOK
    <3>4. CASE f.sess = beforenm /\ ~RedyDone
      <4>1. SessKey(beforenm) \in BoxKeys
        BY DEF BoxKeys, TypeOK
      <4>2. [cmd |-> "MESG", sess |-> beforenm, body |-> "PV"] \in OutFrames
        BY DEF OutFrames, TypeOK
      <4>3. nonce' \in 1 .. MaxNonce /\ sealed' \in Seq([key : BoxKeys, n : 1 .. MaxNonce])
        BY <2>9, <3>4, <4>1, UseNonceType DEF RecvREDY, TypeOK
      <4>4. out' \in Seq(OutFrames) /\ status' \in Statuses /\ errorKind' \in ErrorKinds
        BY <2>9, <3>4, <4>2, EmitType DEF RecvREDY, TypeOK
      <4> QED
        BY <2>9, <3>1, <4>3, <4>4 DEF RecvREDY, TypeOK
    <3> QED
      BY <3>2, <3>3, <3>4
  <2>10. CASE RecvMESG
    <3>1. status' \in Statuses /\ errorKind' \in ErrorKinds
      <4>1. {"decryption_error", "protocol_error"} \subseteq ErrorKinds
        BY DEF ErrorKinds
      <4> QED
        BY <2>10, <2>a, <4>1, FailType DEF RecvMESG, HandleData, TypeOK
    <3> QED
      BY <2>10, <2>0, <3>1 DEF RecvMESG, Receiving, TypeOK
  <2>11. CASE AppSend
    <3>1. SessKey(beforenm) \in BoxKeys
      BY DEF BoxKeys, TypeOK
    <3>2. [cmd |-> "MESG", sess |-> beforenm, body |-> "DATA"] \in OutFrames
      BY DEF OutFrames, TypeOK
    <3>3. "buffer_exceeded" \in ErrorKinds
      BY DEF ErrorKinds
    <3>4. /\ nonce' \in 1 .. MaxNonce
          /\ sealed' \in Seq([key : BoxKeys, n : 1 .. MaxNonce])
          /\ out' \in Seq(OutFrames) /\ status' \in Statuses
          /\ errorKind' \in ErrorKinds
      BY <2>11, <3>1, <3>2, <3>3, UseNonceType, EmitType, FailType
      DEF AppSend, TypeOK
    <3> QED
      BY <2>11, <3>4 DEF AppSend, TypeOK
  <2>12. CASE SocketError
    <3>1. "socket_error" \in ErrorKinds
      BY DEF ErrorKinds
    <3> QED
      BY <2>12, <3>1, FailType DEF SocketError, TypeOK
  <2>b. ASSUME NEW rs \in Seq(InFrames), out # <<>>, Answer(rs)
        PROVE  out' \in Seq(OutFrames) /\ in' \in Seq(InFrames)
    BY <2>b, AnswerType DEF TypeOK
  <2>13. CASE RemoteForward
    <3>1. CASE \E sg \in Signatures, hold \in BOOLEAN :
                 Answer(IF hold THEN <<[cmd |-> "HOLD"], [cmd |-> "FWDREPLY", sig |-> sg]>>
                                ELSE <<[cmd |-> "FWDREPLY", sig |-> sg]>>)
      <4>1. PICK sg \in Signatures, hold \in BOOLEAN :
                 Answer(IF hold THEN <<[cmd |-> "HOLD"], [cmd |-> "FWDREPLY", sig |-> sg]>>
                                ELSE <<[cmd |-> "FWDREPLY", sig |-> sg]>>)
        BY <3>1
      <4>2. [cmd |-> "HOLD"] \in InFrames /\ [cmd |-> "FWDREPLY", sig |-> sg] \in InFrames
        BY DEF InFrames
      <4>3. (IF hold THEN <<[cmd |-> "HOLD"], [cmd |-> "FWDREPLY", sig |-> sg]>>
                     ELSE <<[cmd |-> "FWDREPLY", sig |-> sg]>>) \in Seq(InFrames)
        BY <4>2
      <4> QED
        BY <2>13, <2>0, <4>1, <4>3 DEF RemoteForward, Answer, TypeOK, clientVars
    <3>2. CASE \E c \in ForwardCodes : Answer(<<[cmd |-> "FWDERROR", code |-> c]>>)
      <4>1. PICK c \in ForwardCodes : Answer(<<[cmd |-> "FWDERROR", code |-> c]>>)
        BY <3>2
      <4>2. <<[cmd |-> "FWDERROR", code |-> c]>> \in Seq(InFrames)
        BY DEF InFrames
      <4> QED
        BY <2>13, <2>0, <4>1, <4>2 DEF RemoteForward, Answer, TypeOK, clientVars
    <3> QED
      BY <2>13, <3>1, <3>2 DEF RemoteForward, TypeOK, clientVars
  <2>14. CASE RemoteTell
    <3>1. <<[cmd |-> "WELC", key |-> SrvKey]>> \in Seq(InFrames)
      BY DEF InFrames, ServerKeys
    <3>2. out' \in Seq(OutFrames) /\ in' \in Seq(InFrames)
      BY <2>14, <3>1, <2>b DEF RemoteTell
    <3> QED
      BY <2>14, <3>2 DEF RemoteTell, TypeOK, clientVars
  <2>c. srv.sess \in Sessions \cup {InitSession} /\ srv.shorts \in 0 .. MaxShort
        /\ srv.ephSeen \subseteq 0 .. MaxEph /\ srv.vouched \in BOOLEAN
        /\ srv.pv \in {"none", "match", "mismatch"}
        /\ srv = [sess |-> srv.sess, shorts |-> srv.shorts, ephSeen |-> srv.ephSeen,
                  vouched |-> srv.vouched, pv |-> srv.pv]
    BY DEF TypeOK, RemoteStates
  <2>15. CASE RemoteHelo
    <3>1. g \in OutFrames /\ g.cmd = "HELO" /\ Tail(out) \in Seq(OutFrames)
      BY <2>15, <2>0 DEF RemoteHelo
    <3>2. g.key \in ServerKeys /\ g.eph \in 1 .. MaxEph
      BY <3>1, OutFrameFields
    <3>3. srv.ephSeen \cup {g.eph} \in SUBSET (0 .. MaxEph)
      BY <2>c, <3>2
    <3>4. CASE g.key = SrvKey /\ srv.shorts < MaxShort
      <4>1. <<[cmd |-> "COOK", key |-> SrvKey, eph |-> g.eph,
               short |-> srv.shorts + 1]>> \in Seq(InFrames)
        BY <3>2, <2>c, <3>4 DEF InFrames, ServerKeys
      <4>2. out' \in Seq(OutFrames) /\ in' \in Seq(InFrames)
        BY <2>15, <3>4, <4>1, <2>b DEF RemoteHelo
      <4>3. <<srv.shorts + 1, g.eph>> \in Sessions /\ srv.shorts + 1 \in 0 .. MaxShort
        BY <2>c, <3>2, <3>4 DEF Sessions
      <4>4. srv' \in RemoteStates
        BY <2>15, <2>c, <3>3, <3>4, <4>3 DEF RemoteHelo, RemoteStates
      <4> QED
        BY <2>15, <4>2, <4>4 DEF RemoteHelo, TypeOK, clientVars
    <3>5. CASE ~(g.key = SrvKey /\ srv.shorts < MaxShort)
      <4>1. srv' \in RemoteStates
        BY <2>15, <2>c, <3>3, <3>5 DEF RemoteHelo, RemoteStates
      <4> QED
        BY <2>15, <3>1, <3>5, <4>1 DEF RemoteHelo, TypeOK, clientVars
    <3> QED
      BY <3>4, <3>5
  <2>16. CASE RemoteVoch
    <3>1. <<[cmd |-> "REDY", sess |-> srv.sess]>> \in Seq(InFrames)
      BY <2>c DEF InFrames
    <3>2. out' \in Seq(OutFrames) /\ in' \in Seq(InFrames)
      BY <2>16, <2>0, <3>1, <2>b DEF RemoteVoch, TypeOK
    <3>3. srv' \in RemoteStates
      BY <2>16, <2>c DEF RemoteVoch, TypeOK, RemoteStates
    <3> QED
      BY <2>16, <3>2, <3>3 DEF RemoteVoch, TypeOK, clientVars
  <2>17. CASE RemoteMesg
    <3>1. CASE Head(out).sess = srv.sess /\ srv.vouched /\ Head(out).body = "PV"
               /\ mode = "grid"
      <4>1. PICK r \in {"match", "mismatch"} :
               /\ Answer(<<[cmd |-> "MESG", sess |-> srv.sess,
                            body |-> IF r = "match" THEN "PV_MATCH"
                                                    ELSE "PV_MISMATCH"]>>)
               /\ srv' = [srv EXCEPT !.pv = r]
        BY <2>17, <3>1 DEF RemoteMesg
      <4>2. <<[cmd |-> "MESG", sess |-> srv.sess,
               body |-> IF r = "match" THEN "PV_MATCH" ELSE "PV_MISMATCH"]>>
              \in Seq(InFrames)
        BY <2>c DEF InFrames, Bodies
      <4>3. out' \in Seq(OutFrames) /\ in' \in Seq(InFrames)
        BY <2>17, <4>1, <4>2, <2>b DEF RemoteMesg
      <4>4. srv' \in RemoteStates
        BY <4>1, <2>c DEF RemoteStates
      <4> QED
        BY <2>17, <4>3, <4>4 DEF RemoteMesg, TypeOK, clientVars
    <3>2. CASE ~(Head(out).sess = srv.sess /\ srv.vouched /\ Head(out).body = "PV"
                 /\ mode = "grid")
      BY <2>17, <2>0, <3>2 DEF RemoteMesg, TypeOK, clientVars
    <3> QED
      BY <3>1, <3>2
  <2>18. CASE RemoteData
    <3>2. [cmd |-> "MESG", sess |-> srv.sess, body |-> "DATA"] \in InFrames
      BY <2>c DEF InFrames, Bodies
    <3> QED
      BY <2>18, <3>2 DEF RemoteData, TypeOK, clientVars
  <2>19. CASE RogueSend
    <3>1. Buildable \subseteq InFrames
      <4>1. KnownSessions \subseteq Sessions \cup {InitSession}
        BY <2>c DEF KnownSessions, Sessions, InitSession
      <4>2. srv.ephSeen \subseteq 0 .. MaxEph
        BY <2>c
      <4> QED
        BY <4>1, <4>2 DEF Buildable, InFrames, ServerKeys
    <3> QED
      BY <2>19, <3>1 DEF RogueSend, TypeOK, clientVars
  <2>20. CASE UNCHANGED vars
    BY <2>20 DEF vars, TypeOK
  <2> QED
    BY <2>1, <2>2, <2>3, <2>4, <2>5, <2>6, <2>7, <2>8, <2>9, <2>10, <2>11,
       <2>12, <2>13, <2>14, <2>15, <2>16, <2>17, <2>18, <2>19, <2>20
    DEF Next, Client, Receive, Remote
<1> QED
  BY <1>1, <1>2, PTL DEF Spec

-----------------------------------------------------------------------------
(* Nonces.  NonceNeverReused is not inductive: a step that seals could     *)
(* reuse a nonce of an earlier box unless the counter is known to be above *)
(* every nonce used so far.  NonceOrder says so, and that the history is   *)
(* sorted by nonce, from which distinctness follows.                       *)

NonceOrder ==
    /\ \A i \in 1 .. Len(sealed) : sealed[i].n < nonce
    /\ \A i, j \in 1 .. Len(sealed) : i < j => sealed[i].n < sealed[j].n

NonceInv == TypeOK /\ NonceOrder

\* Every step of the model leaves the counter and the history alone, takes
\* a nonce without sealing (RecvWELC on a weak key), or seals one box with
\* the current counter and increments it (client_get_nonce).
LEMMA NonceStep ==
    ASSUME TypeOK, [Next]_vars
    PROVE  \/ UNCHANGED <<nonce, sealed>>
           \/ nonce' = nonce + 1 /\ sealed' = sealed
           \/ \E k : UseNonce(k)
<1>1. CASE StartConnection
  BY <1>1 DEF StartConnection
<1>2. CASE RecvForwardHold \/ RecvForwardReply \/ RecvForwardError \/ RecvJunk
           \/ RecvUnknown \/ RecvMESG \/ SocketError
  BY <1>2 DEF RecvForwardHold, RecvForwardReply, RecvForwardError, RecvJunk,
              RecvUnknown, RecvMESG, SocketError
<1>3. CASE RecvWELC
  BY <1>3 DEF RecvWELC
<1>4. CASE RecvCOOK
  BY <1>4 DEF RecvCOOK
<1>5. CASE RecvREDY
  BY <1>5 DEF RecvREDY
<1>6. CASE AppSend
  BY <1>6 DEF AppSend
<1>7. CASE Remote
  BY <1>7 DEF Remote, RemoteForward, RemoteTell, RemoteHelo, RemoteVoch,
              RemoteMesg, RemoteData, RogueSend, clientVars
<1>8. CASE UNCHANGED vars
  BY <1>8 DEF vars
<1> QED
  BY <1>1, <1>2, <1>3, <1>4, <1>5, <1>6, <1>7, <1>8 DEF Next, Client, Receive

\* The nonces in a seal history are naturals, whatever its keys.
LEMMA HistoryNonces ==
    ASSUME NEW K, NEW h \in Seq([key : K, n : 1 .. MaxNonce])
    PROVE  \A i \in 1 .. Len(h) : h[i].n \in Nat
<1> SUFFICES ASSUME NEW i \in 1 .. Len(h) PROVE h[i].n \in Nat
  OBVIOUS
<1>1. h[i] \in [key : K, n : 1 .. MaxNonce]
  BY ElementOfSeq
<1>2. h[i].n \in 1 .. MaxNonce
  BY <1>1
<1> QED
  BY <1>2, ConstAssumption

\* Sealing with the current counter and incrementing it keeps the history
\* sorted and below the counter.
LEMMA UseNonceOrder ==
    ASSUME NEW k, nonce \in Nat,
           sealed \in Seq([key : BoxKeys, n : 1 .. MaxNonce]),
           NonceOrder, UseNonce(k)
    PROVE  NonceOrder'
<1>1. /\ Len(sealed') = Len(sealed) + 1
      /\ \A i \in 1 .. Len(sealed) : sealed'[i] = sealed[i]
      /\ sealed'[Len(sealed) + 1].n = nonce
      /\ nonce' = nonce + 1
  BY DEF UseNonce
<1>2. \A i \in 1 .. Len(sealed) : sealed[i].n \in Nat
  BY HistoryNonces
<1>3. \A i \in 1 .. Len(sealed') : sealed'[i].n < nonce'
  BY <1>1, <1>2 DEF NonceOrder
<1>4. ASSUME NEW i \in 1 .. Len(sealed'), NEW j \in 1 .. Len(sealed'), i < j
      PROVE  sealed'[i].n < sealed'[j].n
  <2>1. i \in 1 .. Len(sealed) /\ sealed'[i] = sealed[i]
    BY <1>1, <1>4
  <2>2. CASE j = Len(sealed) + 1
    BY <1>1, <2>1, <2>2 DEF NonceOrder
  <2>3. CASE j # Len(sealed) + 1
    <3>1. j \in 1 .. Len(sealed) /\ sealed'[j] = sealed[j]
      BY <1>1, <2>3
    <3> QED
      BY <1>4, <2>1, <3>1 DEF NonceOrder
  <2> QED
    BY <2>2, <2>3
<1> QED
  BY <1>3, <1>4 DEF NonceOrder

\* The inductive invariant implies the property.
LEMMA OrderImpliesUnique ==
    ASSUME TypeOK, NonceOrder
    PROVE  NonceNeverReused
<1>1. \A i \in 1 .. Len(sealed) : sealed[i].n \in Nat
  BY HistoryNonces DEF TypeOK
<1> QED
  BY <1>1 DEF NonceOrder, NonceNeverReused

\* client_get_nonce is the only source of nonces and every seal takes a
\* fresh one: no two boxes the client seals (HELO, VOCH, MESG) share a key
\* and a nonce, for every bound on the counter.
THEOREM NonceUnique == Spec => []NonceNeverReused
<1>1. Init => NonceOrder
  BY DEF Init, NonceOrder
<1>2. TypeOK /\ NonceOrder /\ [Next]_vars => NonceOrder'
  <2> SUFFICES ASSUME TypeOK, NonceOrder, [Next]_vars PROVE NonceOrder'
    OBVIOUS
  <2>0. nonce \in Nat /\ sealed \in Seq([key : BoxKeys, n : 1 .. MaxNonce])
    BY ConstAssumption DEF TypeOK
  <2>1. CASE UNCHANGED <<nonce, sealed>>
    BY <2>1 DEF NonceOrder
  <2>2. CASE nonce' = nonce + 1 /\ sealed' = sealed
    <3>1. \A i \in 1 .. Len(sealed) : sealed[i].n \in Nat
      BY <2>0, HistoryNonces
    <3> QED
      BY <2>0, <2>2, <3>1 DEF NonceOrder
  <2>3. CASE \E k : UseNonce(k)
    BY <2>0, <2>3, UseNonceOrder
  <2> QED
    BY <2>1, <2>2, <2>3, NonceStep
<1>3. TypeOK /\ NonceOrder => NonceNeverReused
  BY OrderImpliesUnique
<1> QED
  BY <1>1, <1>2, <1>3, TypeCorrect, PTL DEF Spec

=============================================================================
