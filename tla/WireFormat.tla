------------------------------ MODULE WireFormat ------------------------------
(***************************************************************************)
(* proto.rs: how frames are built and taken apart.  Keys and ciphertexts   *)
(* are symbolic: a party stands for its two keypairs and for the id cut    *)
(* from one of them, and what is sealed opens under its own key only.      *)
(*                                                                         *)
(* The second half is about lengths: which slices of a buffer the code     *)
(* takes, after which checks.                                              *)
(***************************************************************************)
EXTENDS Integers

Server == "server"
Zero   == "zero"       \* the id of eight zero bytes, which addresses the relay

\* The secret two parties share, from whichever side it is computed.
x25519(a, b) == {a, b}

\* The header keys of a client's session with the relay, one per direction.
derive_session(shared) == [c2s |-> <<"c2s", shared>>, s2c |-> <<"s2c", shared>>]
Session(e) == derive_session(x25519(e, Server))

\* XOR with a key stream covers an id and, with the same key, uncovers it.  Two
\* different keys leave noise, which is no party's id and not zero.
NoKey == <<>>
Clear(id) == [key |-> NoKey, id |-> id]
xor_header(key, h) ==
  IF h.key = key THEN Clear(h.id)
  ELSE IF h.key = NoKey THEN [key |-> key, id |-> h.id] ELSE Clear("noise")

pack_inner(cmd, body) == [cmd |-> cmd, body |-> body]
Nothing == pack_inner("none", Zero)    \* None, for what does not open

encrypt_and_sign(inner, me, them) ==
  [secret |-> x25519(me, them), signed |-> me, inner |-> inner]

verify_and_decrypt(packet, me, them) ==
  IF packet.signed = them /\ packet.secret = x25519(me, them)
  THEN packet.inner ELSE Nothing

build_handshake_request(me) ==
  [x_pub |-> me, packet |-> encrypt_and_sign(pack_inner("HANDSHAKE_REQUEST", me), me, Server)]

Frame(key, id, packet) == [header |-> xor_header(key, Clear(id)), packet |-> packet]

build_peer_frame(me, peer, inner) ==
  Frame(Session(me).c2s, peer, encrypt_and_sign(inner, me, peer))

build_server_bound(me, inner) ==
  Frame(Session(me).c2s, Zero, encrypt_and_sign(inner, me, Server))

FromServer(frame, me) == xor_header(Session(me).s2c, frame.header) = Clear(Zero)

decode_server_frame(frame, me) ==
  IF FromServer(frame, me) THEN verify_and_decrypt(frame.packet, me, Server) ELSE Nothing

\* mutant: the frame is opened with the keys of whoever signed it
decode_signed_frame(frame, me, peer) ==
  IF FromServer(frame, me) THEN Nothing
  ELSE verify_and_decrypt(frame.packet, me, frame.packet.signed)

\* handle_incoming, up to its command: server frames are left alone, and only
\* the keys of the one peer are tried.
decode_peer_frame(frame, me, peer) ==
  IF FromServer(frame, me) THEN Nothing ELSE verify_and_decrypt(frame.packet, me, peer)

\* The relay (external): what it makes of a handshake request and of a client's
\* frame; it passes a packet on untouched under its addressee's header key.
Opens(request) == verify_and_decrypt(request.packet, Server, request.x_pub)
Addressee(from, frame) == xor_header(Session(from).c2s, frame.header).id
ServerFrame(to, inner) ==
  Frame(Session(to).s2c, Zero, encrypt_and_sign(inner, Server, to))
Forwarded(from, to, frame) == Frame(Session(to).s2c, from, frame.packet)

-----------------------------------------------------------------------------
(* Lengths.  A slice is <<from, to, n>>: the bytes from `from` up to `to`  *)
(* of a buffer of n bytes, which panics unless they are in range.          *)

InRange(slice) == 0 <= slice[1] /\ slice[1] <= slice[2] /\ slice[2] <= slice[3]

Sealed(n) == 24 + n + 16 + 64      \* nonce, ciphertext, tag, signature
Opened(n) == n - Sealed(0)

VerifySlices(n) ==
  IF n < Sealed(0) THEN {}
  ELSE {<<0, n - 64, n>>, <<n - 64, n, n>>, <<0, 24, n - 64>>, <<24, n - 64, n - 64>>}

\* What a decoder takes of a frame, and then of what verify_and_decrypt returns.
FrameSlices(n) ==
  IF n < 8 + Sealed(0) THEN {}
  ELSE {<<0, 8, n>>, <<8, 32, n>>, <<8, n, n>>} \cup VerifySlices(n - 8)

InnerSlices(n) == IF n < 3 THEN {} ELSE {<<2, 3, n>>, <<3, n, n>>}

\* The id of the connection, and the payload of DATA.
BodySlices(n) == IF n < 1 THEN {} ELSE {<<0, 1, n>>, <<1, n, n>>}

\* An invite, or the body of INTRO_FROM: two keys, the id cut from the first.
PeerSlices(n) == IF n < 64 THEN {} ELSE {<<0, 32, n>>, <<32, 64, n>>, <<64, n, n>>, <<0, 8, 32>>}

\* All that handle_incoming, or the wait for an initiator, does to a frame.
IncomingSlices(n, Body(_)) ==
  FrameSlices(n) \cup
  (IF n < 8 + Sealed(0) THEN {}
   ELSE LET inner == Opened(n - 8)
        IN  InnerSlices(inner) \cup (IF inner < 3 THEN {} ELSE Body(inner - 3)))

FrameLength(body) == 8 + Sealed(3 + body)    \* of build_peer_frame, build_server_bound

===============================================================================
