----------------------------- MODULE MoshCipher -----------------------------
(***************************************************************************)
(* The authenticated encryption of mosh's datagrams                        *)
(* (src/mosh/src/crypto): OCB as ocb_internal.cc computes it, BPI blocks   *)
(* at a time, in as many calls as the caller likes, with a cached          *)
(* top of the nonce; the interface of ocb_openssl.cc; and the text form of *)
(* a key (base64.cc).  One context serves both directions and every        *)
(* message of a session, so what one call leaves in it matters to the      *)
(* next.                                                                   *)
(*                                                                         *)
(* Sizes are small: a block is BlockLen bits and a byte of a text one bit. *)
(* The block cipher is any of the permutations in Ciphers.                 *)
(***************************************************************************)
EXTENDS Integers, Sequences, SequencesExt, FiniteSetsExt

CONSTANTS
  BlockLen,      \* 16 bytes
  BPI,           \* blocks in the buffer per ECB call: 4
  Poly,          \* 135: the bits that a carry out of double_block adds
  StretchShift,  \* 8
  Ciphers,       \* permutations of the blocks
  Nonces,        \* of BlockLen - 1 bits
  Texts, Datas,  \* plaintexts and associated data
  MaxMessages,   \* bound on the messages of one context
  ByteBits, KeyGroups,  \* 8 bits; a key has 3 * KeyGroups + 1 bytes (16)
  Printables     \* texts offered as a key

\* The loops are unrolled for four blocks, or eight: four in every build.
ASSUME CipherAssumption ==
  /\ BPI = 4 /\ BlockLen % 2 = 0 /\ BlockLen > 2
  /\ Len(Poly) = BlockLen
  /\ \A n \in Nonces : Len(n) = BlockLen - 1
  /\ ByteBits % 4 = 0 /\ KeyGroups \in Nat

VARIABLES
  ctx,      \* the ae_ctx
  lib,      \* which implementation of ae.h is linked
  msg,      \* the message that is being encrypted or decrypted
  sealed,   \* the last ciphertext, with what it is made of
  count,    \* messages so far
  key       \* a text that is offered as a key, and what becomes of it

cipherVars == <<ctx, lib, msg, sealed, count, key>>

(***************************************************************************)
(* Blocks                                                                  *)
(***************************************************************************)
zero_block == [i \in 1..BlockLen |-> 0]
xor_block(x, y) == [i \in DOMAIN x |-> (x[i] + y[i]) % 2]
double_block(b) ==
  LET shifted == Append(Tail(b), 0)
  IN  IF b[1] = 1 THEN xor_block(shifted, Poly) ELSE shifted
ntz(n) == Max({k \in 0..n : n % (2^k) = 0})

\* The blocks n, n + 1 ... of a text.
BlockOf(text, n) == SubSeq(text, (n - 1) * BlockLen + 1, n * BlockLen)
Blocks(text) == [n \in 1..(Len(text) \div BlockLen) |-> BlockOf(text, n)]

\* The bytes of an incomplete block with the mark that ends them.
Padded(rest) == [i \in 1..BlockLen |-> IF i <= Len(rest) THEN rest[i] ELSE IF i = Len(rest) + 1 THEN 1 ELSE 0]

Batch == BPI * BlockLen

(***************************************************************************)
(* ae_init and the offset of a message                                     *)
(***************************************************************************)
Half == BlockLen \div 2
Unset == <<>>

\* The keys of the two directions (E and D), and what only depends on them.
Inverted(E) == [y \in DOMAIN E |-> CHOOSE x \in DOMAIN E : E[x] = y]
ae_init(E) ==
  [E |-> E, D |-> Inverted(E), Lstar |-> E[zero_block], Ldollar |-> double_block(E[zero_block]),
   offset |-> zero_block, checksum |-> zero_block, ad_checksum |-> zero_block, ad_offset |-> zero_block,
   cached_Top |-> zero_block, KtopStr |-> Unset, blocks_processed |-> 0, ad_blocks_processed |-> 0]

\* L[i]: Ldollar doubled i + 1 times.  The table is long enough for every text.
getL(c, tz) ==
  LET L[i \in Nat] == IF i = 0 THEN double_block(c.Ldollar) ELSE double_block(L[i - 1])
  IN  L[tz]

gen_offset(KtopStr, bot) == SubSeq(KtopStr, bot + 1, bot + BlockLen)

\* The low bits of a nonce select a shift of less than half a block.
IdxBits == Max({k \in 0..BlockLen : 2^k <= Half})
Value(bits) == FoldLeft(LAMBDA v, b : 2 * v + b, 0, bits)

Stretch(Ktop) == Ktop \o xor_block(SubSeq(Ktop, 1, Half), SubSeq(Ktop, StretchShift + 1, StretchShift + Half))

Top(nonce) ==
  LET whole == <<1>> \o nonce
  IN  [i \in 1..BlockLen |-> IF i > BlockLen - IdxBits THEN 0 ELSE whole[i]]
Bottom(nonce) == Value(SubSeq(nonce, Len(nonce) - IdxBits + 1, Len(nonce)))

\* A mutant: the stretched block is not computed again for a new nonce.
cacheTopOnce(c, nonce) ==
  IF c.KtopStr # Unset THEN c
  ELSE [c EXCEPT !.cached_Top = Top(nonce), !.KtopStr = Stretch(c.E[Top(nonce)])]

\* gen_offset_from_nonce: the context after it; the offset is gen_offset of that.
cacheTop(c, nonce) ==
  IF c.cached_Top = Top(nonce) THEN c
  ELSE [c EXCEPT !.cached_Top = Top(nonce), !.KtopStr = Stretch(c.E[Top(nonce)])]

\* A call with a nonce starts a message; with ad_len < 0 (Sticky) the
\* associated data of the last message is used again.
Sticky == <<2>>
startMessage(c, nonce, ad) ==
  LET k == cacheTop(c, nonce)
  IN  [k EXCEPT !.offset = gen_offset(k.KtopStr, Bottom(nonce)),
                !.ad_offset = zero_block, !.checksum = zero_block,
                !.ad_blocks_processed = 0, !.blocks_processed = 0,
                !.ad_checksum = IF ad = Sticky THEN @ ELSE zero_block]

(***************************************************************************)
(* Associated data, BPI blocks at a time and then the rest                 *)
(***************************************************************************)

\* The offsets of the blocks after off that do not fill a batch.
restOffsets(c, off, n) ==
  LET first == xor_block(off, getL(c, 0))
      second == xor_block(first, getL(c, 1))
  IN  CASE n = 0 -> <<>>
        [] n = 1 -> <<first>>
        [] n = 2 -> <<first, second>>
        [] n = 3 -> <<first, second, xor_block(second, getL(c, 0))>>

LastOr(offsets, off) == IF offsets = <<>> THEN off ELSE offsets[Len(offsets)]

\* One round of the loop of process_ad.
adBatch(c, bs) ==
  LET num == c.ad_blocks_processed + BPI
      oa0 == xor_block(c.ad_offset, getL(c, 0))
      oa1 == xor_block(oa0, getL(c, 1))
      oa2 == xor_block(c.ad_offset, getL(c, 1))
      oa3 == xor_block(oa2, getL(c, ntz(num)))
      oa == <<oa0, oa1, oa2, oa3>>
  IN  [c EXCEPT !.ad_blocks_processed = num, !.ad_offset = oa3,
                !.ad_checksum = FoldLeft(LAMBDA sum, i : xor_block(sum, c.E[xor_block(oa[i], bs[i])]), @, <<1, 2, 3, 4>>)]

\* What is left after the loop: whole blocks and an incomplete one.
adRest(c, full, part, oa) ==
  LET summed == FoldLeft(LAMBDA sum, i : xor_block(sum, c.E[xor_block(oa[i], full[i])]),
                         c.ad_checksum, [i \in 1..Len(full) |-> i])
  IN  [c EXCEPT !.ad_checksum =
         IF part = <<>> THEN summed
         ELSE xor_block(summed, c.E[xor_block(xor_block(LastOr(oa, c.ad_offset), c.Lstar), Padded(part))])]
adFinish(c, tail) ==
  LET n == Len(tail) \div BlockLen
  IN  adRest(c, Blocks(tail), SubSeq(tail, n * BlockLen + 1, Len(tail)), restOffsets(c, c.ad_offset, n))

process_ad(c, ad, final) ==
  LET batches == Len(ad) \div Batch
      looped == FoldLeft(LAMBDA x, i : adBatch(x, Blocks(SubSeq(ad, (i - 1) * Batch + 1, i * Batch))),
                         c, [i \in 1..batches |-> i])
  IN  IF final THEN adFinish(looped, SubSeq(ad, batches * Batch + 1, Len(ad))) ELSE looped

(***************************************************************************)
(* ae_encrypt and ae_decrypt                                               *)
(***************************************************************************)
oaBatch(c, num) ==
  LET oa0 == xor_block(c.offset, getL(c, 0))
      oa1 == xor_block(oa0, getL(c, 1))
      oa2 == xor_block(oa1, getL(c, 0))
  IN  <<oa0, oa1, oa2, xor_block(oa2, getL(c, ntz(num)))>>

\* ecb_encrypt_blks, ecb_decrypt_blks between the offsets.
whiten(cipher, oa, bs) == [i \in DOMAIN bs |-> xor_block(cipher[xor_block(oa[i], bs[i])], oa[i])]

SumOf(sum, bs) == FoldLeft(xor_block, sum, bs)

\* One round of the loop: x is the context and the output so far.
encryptBatch(x, bs) ==
  LET c == x.c
      num == c.blocks_processed + BPI
      oa == oaBatch(c, num)
  IN  [c |-> [c EXCEPT !.offset = oa[BPI], !.blocks_processed = num, !.checksum = SumOf(@, bs)],
       out |-> x.out \o FlattenSeq(whiten(c.E, oa, bs))]

decryptBatch(x, bs) ==
  LET c == x.c
      num == c.blocks_processed + BPI
      oa == oaBatch(c, num)
      plain == whiten(c.D, oa, bs)
  IN  [c |-> [c EXCEPT !.offset = oa[BPI], !.blocks_processed = num, !.checksum = SumOf(@, plain)],
       out |-> x.out \o FlattenSeq(plain)]

Tag(c, offset, checksum) == xor_block(c.E[xor_block(xor_block(offset, c.Ldollar), checksum)], c.ad_checksum)

\* The final part of ae_encrypt: the blocks that are left, the incomplete one, and the tag.
finishEncrypt(c, rest) ==
  LET full == Blocks(rest)
      oa == restOffsets(c, c.offset, Len(full))
      part == SubSeq(rest, Len(full) * BlockLen + 1, Len(rest))
      star == xor_block(LastOr(oa, c.offset), c.Lstar)
      checksum == IF part = <<>> THEN SumOf(c.checksum, full) ELSE xor_block(SumOf(c.checksum, full), Padded(part))
      last == IF part = <<>> THEN <<>> ELSE SubSeq(xor_block(Padded(part), c.E[star]), 1, Len(part))
      offset == IF part = <<>> THEN LastOr(oa, c.offset) ELSE star
  IN  FlattenSeq(whiten(c.E, oa, full)) \o last \o Tag(c, offset, checksum)

INVALID == <<3>>          \* AE_INVALID
NOT_SUPPORTED == <<4>>    \* AE_NOT_SUPPORTED

\* The final part of ae_decrypt, for what came out of the loop before it.
finishDecrypt(c, rest, out, tag) ==
  LET full == Blocks(rest)
      oa == restOffsets(c, c.offset, Len(full))
      part == SubSeq(rest, Len(full) * BlockLen + 1, Len(rest))
      star == xor_block(LastOr(oa, c.offset), c.Lstar)
      last == IF part = <<>> THEN <<>> ELSE SubSeq(xor_block(Padded(part), c.E[star]), 1, Len(part))
      plain == whiten(c.D, oa, full)
      checksum == IF part = <<>> THEN SumOf(c.checksum, plain) ELSE xor_block(SumOf(c.checksum, plain), Padded(last))
      offset == IF part = <<>> THEN LastOr(oa, c.offset) ELSE star
  IN  IF Tag(c, offset, checksum) = tag THEN out \o FlattenSeq(plain) \o last ELSE INVALID

\* What both calls do before the end: nonce, associated data, whole batches.
\* The result is the context, the output and what is left of the text.
Loop(c, nonce, text, ad, final, round(_, _)) ==
  LET started == IF nonce = <<>> THEN c ELSE startMessage(c, nonce, ad)
      hashed == IF ad \in {Sticky, <<>>} THEN started ELSE process_ad(started, ad, final)
      batches == Len(text) \div Batch
  IN  FoldLeft(LAMBDA y, i : round(y, Blocks(SubSeq(text, (i - 1) * Batch + 1, i * Batch))),
               [c |-> hashed, out |-> <<>>], [i \in 1..batches |-> i])
Rest(text) == SubSeq(text, (Len(text) \div Batch) * Batch + 1, Len(text))

encryptEnd(x, rest, final) ==
  [c |-> x.c, out |-> IF final THEN x.out \o finishEncrypt(x.c, rest) ELSE x.out]
ae_encrypt(c, nonce, pt, ad, final) ==
  encryptEnd(Loop(c, nonce, pt, ad, final, encryptBatch), Rest(pt), final)

\* The tag is bundled into the ciphertext: the last block of the last call.
decryptEnd(x, rest, tag, final) ==
  [c |-> x.c, out |-> IF final THEN finishDecrypt(x.c, rest, x.out, tag) ELSE x.out]
ae_decrypt(c, nonce, ct, ad, final) ==
  LET body == IF final THEN SubSeq(ct, 1, Len(ct) - BlockLen) ELSE ct
  IN  decryptEnd(Loop(c, nonce, body, ad, final, decryptBatch), Rest(body),
                 SubSeq(ct, Len(ct) - BlockLen + 1, Len(ct)), final)

(***************************************************************************)
(* The reference: OCB block by block, from nothing but the cipher, and the *)
(* library that implements it for ocb_openssl.cc.                          *)
(***************************************************************************)
RefL(E, i) == getL([Ldollar |-> double_block(E[zero_block])], i)
RefOffset(E, start, n) ==
  LET off[i \in 0..n] == IF i = 0 THEN start ELSE xor_block(off[i - 1], RefL(E, ntz(i)))
  IN  off[n]
RefRest(text) == SubSeq(text, (Len(text) \div BlockLen) * BlockLen + 1, Len(text))
RefHash(E, ad) ==
  LET bs == Blocks(ad)
      m == Len(bs)
      sum == SumOf(zero_block, [i \in 1..m |-> E[xor_block(bs[i], RefOffset(E, zero_block, i))]])
      star == xor_block(RefOffset(E, zero_block, m), E[zero_block])
  IN  IF RefRest(ad) = <<>> THEN sum ELSE xor_block(sum, E[xor_block(Padded(RefRest(ad)), star)])
RefEncrypt(E, nonce, text, ad) ==
  LET bs == Blocks(text)
      m == Len(bs)
      rest == RefRest(text)
      start == SubSeq(Stretch(E[Top(nonce)]), Bottom(nonce) + 1, Bottom(nonce) + BlockLen)
      off(i) == RefOffset(E, start, i)
      body == FlattenSeq([i \in 1..m |-> xor_block(off(i), E[xor_block(off(i), bs[i])])])
      star == xor_block(off(m), E[zero_block])
      last == SubSeq(xor_block(Padded(rest), E[star]), 1, Len(rest))
      sum == IF rest = <<>> THEN SumOf(zero_block, bs) ELSE xor_block(SumOf(zero_block, bs), Padded(rest))
      end == IF rest = <<>> THEN off(m) ELSE star
      tag == xor_block(E[xor_block(xor_block(end, double_block(E[zero_block])), sum)], RefHash(E, ad))
  IN  body \o last \o tag

\* The OpenSSL context: an OCB cipher for the whole message.
EVP_encrypt(E, nonce, text, ad) == RefEncrypt(E, nonce, text, ad)
EVP_decrypt(E, nonce, ct, ad) ==
  IF RefEncrypt(E, nonce, sealed.text, ad) = ct THEN sealed.text ELSE INVALID

\* ae_encrypt and ae_decrypt of ocb_openssl.cc: a whole message in one call.
openssl_encrypt(c, nonce, pt, ad, final) ==
  [c |-> c, out |-> IF ~final \/ nonce = <<>> THEN NOT_SUPPORTED
                    ELSE EVP_encrypt(c.E, nonce, pt, IF ad = Sticky THEN <<>> ELSE ad)]
openssl_decrypt(c, nonce, ct, ad, final) ==
  [c |-> c, out |-> IF Len(ct) < BlockLen THEN INVALID
                    ELSE IF ~final \/ nonce = <<>> THEN NOT_SUPPORTED
                    ELSE EVP_decrypt(c.E, nonce, ct, IF ad = Sticky THEN <<>> ELSE ad)]

(***************************************************************************)
(* Keys: four digits for three bytes, and two digits for the last byte.    *)
(* A letter that is no digit is NoDigit; the two signs of padding are left *)
(* out, the callers append or demand them.                                 *)
(***************************************************************************)
NoDigit == -1
Digits == 2^((3 * ByteBits) \div 4)
KeyLetters == 4 * KeyGroups + 2
Value4(ds) == FoldLeft(LAMBDA v, d : Digits * v + d, 0, ds)

base64_encode(raw) ==
  LET Group(i) == (raw[3 * i + 1] * 2^ByteBits + raw[3 * i + 2]) * 2^ByteBits + raw[3 * i + 3]
      last == (raw[3 * KeyGroups + 1] * Digits^2) \div 2^ByteBits
  IN  [n \in 1..KeyLetters |->
         IF n <= 4 * KeyGroups THEN (Group((n - 1) \div 4) \div Digits^(3 - ((n - 1) % 4))) % Digits
         ELSE IF n = KeyLetters - 1 THEN last \div Digits ELSE last % Digits]

\* <<>> when a letter is no digit.
base64_decode(b64) ==
  LET Group(i) == Value4(SubSeq(b64, 4 * i + 1, 4 * i + 4))
      last == b64[KeyLetters - 1] * Digits + b64[KeyLetters]
  IN  IF NoDigit \in Range(b64) THEN <<>>
      ELSE [n \in 1..(3 * KeyGroups + 1) |->
              IF n <= 3 * KeyGroups
              THEN (Group((n - 1) \div 3) \div 2^(ByteBits * (2 - ((n - 1) % 3)))) % 2^ByteBits
              ELSE ((last * 2^ByteBits) \div Digits^2) % 2^ByteBits]

\* The constructor of Base64Key: the key, or <<>> for the exceptions.
Base64Key(printable) ==
  IF Len(printable) # KeyLetters \/ base64_decode(printable) = <<>> THEN <<>>
  ELSE IF base64_encode(base64_decode(printable)) # printable THEN <<>>
  ELSE base64_decode(printable)

(***************************************************************************)
(* A session's context: messages are encrypted, opened as they are or with *)
(* one byte changed, in one call or in several.                            *)
(***************************************************************************)
Idle == [op |-> "idle"]
NoMessage == [nonce |-> <<>>, text |-> <<>>, ad |-> <<>>, out |-> <<>>]

CipherInit ==
  /\ \E E \in Ciphers : ctx = ae_init(E)
  /\ lib \in {"internal", "openssl"}
  /\ msg = Idle /\ sealed = NoMessage /\ count = 0
  /\ key = [text |-> <<>>, raw |-> <<>>]

Message(op, nonce, text, ad, intact) ==
  [op |-> op, nonce |-> nonce, text |-> text, ad |-> ad, out |-> <<>>, first |-> TRUE, intact |-> intact]

\* ad_len < 0 is for the implementation that keeps its checksum.
BeginEncrypt ==
  /\ msg.op \in {"idle", "opened"} /\ count < MaxMessages
  /\ \E nonce \in Nonces, text \in Texts,
        ad \in Datas \union (IF lib = "internal" /\ count > 0 THEN {Sticky} ELSE {}) :
       msg' = Message("encrypt", nonce, text, ad, TRUE)
  /\ count' = count + 1
  /\ UNCHANGED <<ctx, lib, sealed, key>>

BeginDecrypt ==
  /\ msg.op = "sealed"
  /\ \E flip \in {0, 1, Len(sealed.out)},
        ad \in {sealed.ad} \union (IF lib = "internal" THEN {Sticky} ELSE {}) :
       LET ct == [i \in DOMAIN sealed.out |-> IF i = flip THEN 1 - sealed.out[i] ELSE sealed.out[i]]
       IN  msg' = Message("decrypt", sealed.nonce, ct, ad, flip = 0)
  /\ UNCHANGED <<ctx, lib, sealed, count, key>>

\* One call, with n batches of the text and m of the associated data when it
\* is not the last.
Calls(op(_, _, _, _, _), final, n, m) ==
  op(ctx, IF msg.first THEN msg.nonce ELSE <<>>,
     IF final THEN msg.text ELSE SubSeq(msg.text, 1, n * Batch),
     IF final \/ msg.ad = Sticky THEN msg.ad ELSE SubSeq(msg.ad, 1, m * Batch), final)

CanContinue(n, m) ==
  /\ lib = "internal" /\ n + m > 0
  /\ n * Batch <= Len(msg.text) /\ m * Batch <= Len(msg.ad)

Continued(r, n, m) ==
  [msg EXCEPT !.out = @ \o r.out, !.first = FALSE, !.text = SubSeq(@, n * Batch + 1, Len(@)),
              !.ad = IF @ = Sticky THEN @ ELSE SubSeq(@, m * Batch + 1, Len(@))]

\* The message as the caller gave it, for the history.
Given(out) == [nonce |-> msg.nonce, text |-> msg.text, ad |-> IF msg.ad = Sticky THEN sealed.ad ELSE msg.ad,
               out |-> out]

encryptsPart(r, n, m) ==
  /\ ctx' = r.c
  /\ msg' = Continued(r, n, m)
  /\ sealed' = IF msg.first THEN Given(<<>>) ELSE sealed
EncryptPart ==
  /\ msg.op = "encrypt"
  /\ \E n, m \in 0..1 : CanContinue(n, m) /\ encryptsPart(Calls(ae_encrypt, FALSE, n, m), n, m)
  /\ UNCHANGED <<lib, count, key>>

encryptsLast(r) ==
  /\ ctx' = r.c
  /\ sealed' = IF msg.first THEN Given(r.out) ELSE [sealed EXCEPT !.out = msg.out \o r.out]
EncryptLast ==
  /\ msg.op = "encrypt"
  /\ encryptsLast(IF lib = "internal" THEN Calls(ae_encrypt, TRUE, 0, 0) ELSE Calls(openssl_encrypt, TRUE, 0, 0))
  /\ msg' = [Idle EXCEPT !.op = "sealed"]
  /\ UNCHANGED <<lib, count, key>>

decryptsPart(r, n, m) == ctx' = r.c /\ msg' = Continued(r, n, m)
DecryptPart ==
  /\ msg.op = "decrypt"
  /\ \E n, m \in 0..1 : /\ CanContinue(n, m) /\ n * Batch + BlockLen <= Len(msg.text)
                        /\ decryptsPart(Calls(ae_decrypt, FALSE, n, m), n, m)
  /\ UNCHANGED <<lib, sealed, count, key>>

decryptsLast(r) ==
  /\ ctx' = r.c
  /\ msg' = [op |-> "opened", intact |-> msg.intact,
             out |-> IF r.out = INVALID THEN INVALID ELSE msg.out \o r.out]
DecryptLast ==
  /\ msg.op = "decrypt"
  /\ decryptsLast(IF lib = "internal" THEN Calls(ae_decrypt, TRUE, 0, 0) ELSE Calls(openssl_decrypt, TRUE, 0, 0))
  /\ UNCHANGED <<lib, sealed, count, key>>

\* The client is given the text of a key.
OfferKey ==
  /\ key.text = <<>>
  /\ \E p \in Printables : key' = [text |-> p, raw |-> Base64Key(p)]
  /\ UNCHANGED <<ctx, lib, msg, sealed, count>>

CipherNext == BeginEncrypt \/ BeginDecrypt \/ EncryptPart \/ EncryptLast \/ DecryptPart \/ DecryptLast

CipherSpec == CipherInit /\ [][CipherNext \/ OfferKey]_cipherVars

(***************************************************************************)
(* Properties                                                              *)
(***************************************************************************)

\* Whatever the context was used for before and however the calls cut the
\* message, the ciphertext is that of OCB block by block
\* (ocb_internal.cc:737-761, 763-884, 888-1076).
SealsAsReference ==
  msg.op = "sealed" => sealed.out = RefEncrypt(ctx.E, sealed.nonce, sealed.text, sealed.ad)

\* A ciphertext opens to its text and, when one byte of it or of its tag was
\* changed, not at all (ocb_internal.cc:1102-1296, crypto.cc:263-276).
OpensOnlyIntact ==
  msg.op = "opened" => msg.out = IF msg.intact THEN sealed.text ELSE INVALID

\* As numbers, the text of a key is the key followed by zero bits: a text is a
\* key in one way, and a key has one text (crypto.cc:108-129, base64.cc:73-120).
KeyIsItsText ==
  key.raw # <<>> =>
    Value4(key.text) * 2^ByteBits = FoldLeft(LAMBDA v, b : 2^ByteBits * v + b, 0, key.raw) * Digits^2

\* The session's encryption is OCB under the key whose text was handed over.
CipherAsReference == SealsAsReference /\ OpensOnlyIntact /\ KeyIsItsText
=============================================================================
