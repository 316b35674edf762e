# TLA+ models of the OSDG tunnel client

This directory holds TLA+ models of the connection code in `src/`, the TLC
configurations that check them, and TLAPS proofs about them. Everything here
is written from the C source. Where the source calls code that is not under
`src/` (the event loop, `connection_handle_data`, `receive_data`), the model
follows the spec, and PROJECT.json marks that definition `spec_modelled`.

## 1. The system

The library opens an encrypted tunnel over one TCP connection. The other end
is either the grid server (mode `grid`) or, through the grid's forwarder, a
peer device (mode `peer`, with a tunnel id).

| Part | Source | State | Operations |
|---|---|---|---|
| Connection start | `tunnel_protocol.c` 474-510 | `tunnelId`, status | `start_connection` sends `FORWARD_REMOTE` (peer; the id is freed) or `TELL` (`sendForward`, `sendTELL`) |
| Frame reader | `tunnel_protocol.c` 71-105 | `receiveBuffer`, `bytesReceived`, `bytesLeft` | the 2-byte big-endian length, the `bufferSize` check, then the body, over as many `receive_data` calls as needed |
| Dispatcher | `tunnel_protocol.c` 107-404 | status, `errorKind`, `serverPubkey`, temp keypair, `serverCookie`, `beforenmData`, `nonce` | forwarding `HOLD`/`REPLY`/`ERROR`, too-short and bad-magic frames, `WELC`, `COOK`, `REDY`, `MESG`, unknown commands, then `connection_set_result` |
| Outgoing data | `tunnel_protocol.c` 406-472 | `nonce` | `sendMESG`: `get_MESG_packet` refuses oversize payloads, `send_MESG_packet` seals with `client_get_nonce` |
| Socket layer | `part_002` (declarations only) | the stream | `receive_data`, `send_data`, `connect_to_host` |
| Legacy client | `part_001` | `_osdg_client` | an older `receive_packet`/`sendTELL`/`sendMESG` |
| Library setup, queue | `part_000` | mainloop, queue head and tail | `osdg_init`, `osdg_shutdown`, `queue_put`, `queue_get` |
| Events, registry | `events_wrapper.h`, `registry.h` | semaphores, connection table | thin wrappers and declarations |
| Demo client | `tunnel_protocol.c` after line 510 | terminal | `main`, `input_loop` |

**How the parts interact.** The event loop calls `receive_packet` whenever
the socket is readable. The frame reader fills the buffer until a whole frame
is there, and then the dispatcher acts on it. Each handshake step answers the
remote's previous message:

- TELL brings WELC.
- The client sends HELO, sealed under (server key, fresh ephemeral secret). COOK comes back.
- The client sends VOCH, sealed under the session key `beforenm`. REDY comes back.
- On a grid connection the client then sends a MESG with `MSG_PROTOCOL_VERSION`. The grid's answer makes it `connected`. A peer connection is `connected` on REDY.

Every box the client seals takes its nonce from the one counter
`client_get_nonce`.

**What is hard here**, in the sense that tests rarely reach it (each item is
listed with its source line under `hazards` in PROJECT.json):

- A frame can arrive in any number of pieces.
- Frames can be of length 0, or sit exactly at the buffer boundary.
- The remote can send frames out of order or replay them, because the dispatcher never looks at the status.
- A handler can fail part way, for example COOK after the cookie has been copied.
- Nonces must stay unique under one key.
- The handshake must make progress.
- The legacy client's assignment-for-comparison at `part_001:307`.

**What makes it correct:**

- Reads never exceed the buffer, and frames reach the dispatcher whole and in order.
- An oversized frame is refused before its body is read.
- No (key, nonce) pair is sealed twice.
- A grid connection is connected only after version agreement.
- Every connection ends connected or failed.
- Status moves only forward.
- The session of a connected tunnel is the one of its current keys.
- A failed connection says why.

## 2. Modules

| Module | Models | Role |
|---|---|---|
| `TunnelProtocol` | connection start, dispatcher, outgoing data, and the remote as environment | component |
| `MC_TunnelProtocol` | - | TLC instance (`MCModes`) |
| `TunnelProtocolProofs` | - | TLAPS proofs about `TunnelProtocol` |
| `PacketReader` | the frame reader and the classification of complete frames | component |
| `MC_PacketReader` | - | TLC instance (frame sizes and byte values) |

### TunnelProtocol

**Variables.** Each one corresponds to a field of `struct _osdg_connection`:

- `status`, `mode`, `tunnelId` (whether it is set), `serverPubkey`, `errorKind` and `nonce` are the fields of the same names.
- `eph` numbers the ephemeral keypair that `crypto_box_keypair` made at line 205. 0 means the keypair the connection was created with.
- `beforenm` is the session `<<server short-term key, eph>>` that `beforenmData` was computed for. `<<0,0>>` is the zeroed initial buffer.
- `cookie` is the short-term key the server cookie came with.
- `out` and `in` are the two directions of the stream, as whole frames.
- `sealed` is a history variable: the `<<key, nonce>>` of every box the client sealed.
- `srv` is the remote's own state.

**Crypto.** Crypto is reduced to key identities. A box opens when it was sealed under the key the opener holds. A low-order key (`WeakKey`, or short-term key 0) makes `crypto_box`/`crypto_box_beforenm` fail.

**Actions.** There is one action per handler branch. Each is the whole branch, including its `connection_set_result`.

| Action | Models |
|---|---|
| `StartConnection` | `start_connection`/`sendForward`/`sendTELL` |
| `RecvForwardHold` | HOLD, lines 112-115 |
| `RecvForwardReply` | REPLY, 117-140 |
| `RecvForwardError` | ERROR, 145-176 |
| `RecvJunk` | undecodable forwarding messages, and too-short or bad-magic frames |
| `RecvUnknown` | unknown commands, 397-401 |
| `RecvWELC` | 195-232. The nonce is taken before `crypto_box` can fail. |
| `RecvCOOK` | 233-344. The cookie is copied before `crypto_box_beforenm` can fail. |
| `RecvREDY` | 345-385 |
| `RecvMESG` | 386-396, through `HandleData`, which models `connection_handle_data` from the spec |
| `AppSend` | `sendMESG`, 406-472 |
| `SocketError` | a failing `receive_data` |

**Shared helpers.**

- `Emit` is `send_packet` followed by `connection_set_result`: the frame goes out, or `send_data` fails with `socket_error`.
- `UseNonce` is `client_get_nonce`.
- `Fail` is the event loop's reaction to -1.

**The remote.** It is environment and is not mapped. It reads `out` in order and answers as the spec's grid or peer does:

- `RemoteForward`, `RemoteTell`, `RemoteHelo` (a fresh short-term key for a HELO it can open), `RemoteVoch`, `RemoteMesg` (version match or mismatch) and `RemoteData`.
- With `Rogue`, `RogueSend` may also inject any frame it can build from what it knows. That includes replays and out-of-order handshake frames, junk and unknown commands.

### PacketReader

**The stream.** The stream is a fixed sequence of frames, each of declared size `size`, laid out byte by byte (`StreamByte`).

**Variables.** `pos` counts the bytes read so far. `buf`, `bytesReceived` and `bytesLeft` are the connection's fields.

**`ReceivePacket`.** This is one whole call of `receive_packet`:

- `Resume` is lines 78-83.
- The first `receive_data` delivers `k1` bytes, any number from 1 to what was requested.
- When the length is complete, `SizeOf` (line 90) and `Exceeds` (line 92) follow. Then comes the second `receive_data` with `k2` bytes, any number from 0 up.
- `ReturnOf` is `receive_data`'s return value, as in spec section 4.1.
- A frame of declared size 0 makes the second `receive_data` ask for 0 bytes. Its body is not in the repository and the spec does not say what it returns, so `ZeroReadReturns` lets it report the read complete or return 0.
- A complete frame is handed to `Dispatch`, which records its size, byte 2, how far the dispatcher reads (`ExtentOf`, with `UIntDec` for the unsigned `SWAP_16(size) - 1`) and its verdict (`VerdictOf`, lines 107-191).
- `Outcome` (lines 117-176) is what the forwarding branches do with the connection. A REPLY goes on, or fails on a bad protobuf, a bad signature or a failing `sendTELL`. An ERROR always fails (line 175), with `protocol_error` or the kind of its code. What a handshake packet does is left to `TunnelProtocol`.

**Bounds.**

- `UIntMax` is a constant, because TLC's integers are 32-bit signed. The build's value is 2^32-1. The MC uses a value above every sum the model forms.

## 3. Runs

All runs finish in seconds.

| Run | Expect | Properties | What it shows |
|---|---|---|---|
| `TunnelHonest` | pass | `TypeOK`, `NonceNeverReused`, `VersionNegotiated`, `HandshakeCompletes` | Both modes against an honest remote, with good and bad forwarding signatures, every forwarding error code, send failures and socket errors. Nonces are unique, grid connections are connected only after a matching version, and every connection ends connected or failed. |
| `TunnelRogue` | pass | `NonceNeverReused` | A remote that also injects any buildable frame still never makes the client reuse a (key, nonce) pair. |
| `Tunnel_StatusOrder` | violation | `StatusOrder` | A peer connection goes from `connecting` to `connected`. The remote sends WELC before the client has started, and the dispatcher runs the whole handshake. |
| `Tunnel_KeyAgreement` | violation | `KeyAgreement` | A WELC on a connected connection replaces the ephemeral key under a live session. |
| `Tunnel_FailedHasErrorKind` | violation | `FailedHasErrorKind` | A wrong forwarding signature fails the connection with `osdg_no_error` (line 137). |
| `ReaderFraming` | pass | `TypeOK`, `BufferBound`, `FrameIntegrity`, `OversizeRejectedUnread` | Every split of a 1- or 2-frame stream across calls. |
| `ReaderZeroLength` | violation | `ReadsWithinFrame` | If `receive_data` reports a 0-byte read complete, a zero-length frame is dispatched and byte 2 of the buffer, outside the frame, is read as its type. In TLC's trace it is the buffer's initial 0, and the frame fails with `protocol_error`. |

Each violation is explained under `findings` in PROJECT.json.

**Bounds and why they are enough.**

- **Tunnel runs.**
  - `MaxEph = 2` allows one WELC replay. `MaxShort` is 2 in the honest run and 1 in the rogue run.
  - `MaxNonce = 6` or 4 covers every seal of a full grid handshake (HELO, VOCH, PV MESG) plus data.
  - `MaxIn`/`MaxOut` bound the frames in flight. The honest remote's answers get two slots beyond `MaxIn`, so that unsolicited data cannot starve an answer.
  - Nonce reuse needs two seals under one key, which needs two WELC/COOK rounds or a replayed REDY. Both fit within these bounds.
- **Reader runs.**
  - `BufferSize = 10` with frame sizes {1, 5, 6, 8, 9, 300}. This covers a frame shorter than a header (5 < 8), exactly a header, exactly the boundary (8 + 2 = 10), one past it (9), and a large one.
  - Two frames give a second frame a first one before it.
  - `ReaderZeroLength` adds the size 0.
  - Byte-2 values cover HOLD, REPLY, ERROR, the magic and one other value.
- **Deadlock.** Deadlock is not checked (`CHECK_DEADLOCK FALSE`). A failed connection, and a stream read to its end, really stop.

**Fairness** (in `TunnelHonest`, via `FairSpec`) is weak fairness of:

- `StartConnection`: the application calls it once the socket is connected.
- `Receive`: the event loop serves every readable socket.
- The honest remote's answers.

There is no fairness on `AppSend`, `SocketError`, `RemoteData` or `RogueSend`: nothing forces them to happen.

**Mutants.** Each property of a passing run is broken by a plausible code bug, defined next to the code it mutates:

- `UseNonceStale`: the counter is not incremented.
- `UseNonceTwice`: it is incremented by 2.
- `RedyDoneAlways`: a grid connection is done on REDY.
- `RedyDoneNever`: a peer connection is not done on REDY.
- `ExceedsOffByTwo`: the prefix is forgotten in the size check.
- `ExceedsAtLimit`: `>=` instead of `>`.
- `ResumeNoReset`: `bytesReceived` is not reset at line 81.

## 4. Proofs

`TunnelProtocolProofs` proves two theorems, for every value of the constants
that satisfies `ConstAssumption`. TLAPS checks every leaf.

- **`TypeCorrect`** proves `Spec => []TypeOK`.
  - `TypeOK` is inductive once the client's frame types record what the code really sends: a HELO carries a real server key and an ephemeral key numbered from 1, and a VOCH carries a real session.
  - The proof has one step per action. Each step is split along the handler's branches.
  - It uses lemmas for the shared helpers (`EmitType`, `UseNonceType`, `FailType`, `AnswerType`) and for the fields of a frame by command (`InFrameFields`, `OutFrameFields`).
- **`NonceUnique`** proves `Spec => []NonceNeverReused`.
  - `NonceNeverReused` alone is not inductive: the next seal uses the counter, and nothing in the property says the counter is above every nonce used before.
  - The strengthening `NonceOrder` says every sealed nonce is below `nonce` and the history is sorted by nonce.
  - `NonceStep` shows that every step does one of three things: leaves counter and history alone, bumps the counter without sealing (WELC with a weak key), or seals once with the current counter and then increments it.
  - `UseNonceOrder` shows that the sealing case keeps `NonceOrder`.
  - `OrderImpliesUnique` concludes the property.
  - The theorem holds for rogue remotes too: `RogueSend` leaves the counter alone.

**Only model-checked:**

- `HandshakeCompletes` is liveness under fairness, which TLAPS cannot prove here.
- `VersionNegotiated` and the `PacketReader` invariants are not proved.
  - `PacketReader` defines the stream layout with a recursive function and `CHOOSE`.
  - Its invariants rest on what `Start` computes for every stream, which is induction over data and out of the provers' reach.

## 5. Not modelled

- The legacy `_osdg_client` protocol (`part_001`) and the queue (`part_000`) are not modelled yet. They are planned as the next modules:
  - the legacy dispatcher, with its `=`/`==` bug at line 307 and its magic branch at 283;
  - the queue, as a pointer-level model refining a sequence, with concurrent `queue_put`/`queue_get`.
- `osdg_init`/`osdg_shutdown` only call mainloop code that is not under `src/`.
- The events wrapper is one-line semaphore calls.
- The registry has only declarations.
- `connect_to_host` is pure I/O.
- The demo client is terminal and file I/O.
- Crypto primitives, protobuf packing and logging are abstracted away. Nothing the properties distinguish depends on their bytes.

## 6. Plan

Work is done in this order. Each step is parsed, checked and, where noted,
proved before the next.

1. **Done:** `TunnelProtocol`, `PacketReader`, their MC modules and the runs
   above, with `TypeCorrect` and `NonceUnique` proved.
2. **`FrameChannel`.** An abstract specification of the reader: the
   dispatcher receives exactly the frames of the stream, in order, one per
   step. `PacketReader` is shown to implement it with
   `INSTANCE FrameChannel WITH delivered <- dispatched`, checked as a
   PROPERTY. `PacketReader`'s `BufferBound` is proved with TLAPS; its
   inductive invariant relates `bytesReceived`, `bytesLeft` and the declared
   size.
3. **`LegacyClient`** (`part_001`). The `_osdg_client` dispatcher, with a
   run per divergence from `TunnelProtocol`: the MESG branch at line 307,
   and the version-magic branch at 283 that sets no `ret`.
4. **`Queue`** (`part_000` 83-105). Head, tail and `next` pointers over a
   small set of elements, with `queue_put` and `queue_get` as atomic steps
   under the lock. It refines a sequence specification `QueueSpec` through a
   mapping from the pointer chain to the sequence. The tail-reset invariant
   is proved.
5. **Composition.** `TunnelProtocol` reads frames through `PacketReader`
   instead of whole frames, so that zero-length and oversized frames reach
   the handshake.
6. **A run with `InitKeyKnown`.** A REDY or MESG sealed under the zero
   `beforenmData` before any COOK.
