------------------------------- MODULE Address -------------------------------
(***************************************************************************)
(* From a public key to an address: padding and blocks of SHA-256 and      *)
(* RIPEMD-160, HASH160, Base58Check.  The compression functions are        *)
(* abstract: a state is the list of the blocks it was compressed from, so  *)
(* two states are equal exactly when the same blocks went in.  The bytes   *)
(* read off a state are any that depend on all its blocks.                 *)
(***************************************************************************)
EXTENDS Integers, SequencesExt, FiniteSetsExt

CONSTANT Panic      \* an index out of bounds

Byte == 0 .. 255

ASSUME PanicAssumption == Panic \notin Seq(Byte)
Zeros(n) == [i \in 1 .. n |-> 0]

-----------------------------------------------------------------------------
(* Hashes *)

Sha256CompressBlock(state, chunk) == Append(state, chunk)
Ripemd160CompressBlock(state, chunk) == Append(state, chunk)

\* Eight bytes; the message lengths are far below 2^24 bits.
BigEndian(n) == Zeros(5) \o <<n \div 65536, (n \div 256) % 256, n % 256>>
LittleEndian(n) == Reverse(BigEndian(n))

\* FAULT: a rest of 56 bytes is thought to leave room for the length.
NeedsBlockFrom57(rem) == Len(rem) > 56

NeedsBlock(rem) == Len(rem) >= 56

\* Whole blocks, then the rest with 0x80, then the length in bits, in a block of its
\* own when the rest leaves no room for it.
PaddedBlocks(data, bitLen) ==
    LET whole == Len(data) \div 64
        rem == SubSeq(data, 64 * whole + 1, Len(data))
        pad == rem \o <<128>> \o Zeros(63 - Len(rem))
    IN  [i \in 1 .. whole |-> SubSeq(data, 64 * (i - 1) + 1, 64 * i)]
          \o (IF NeedsBlock(rem) THEN <<pad, Zeros(56) \o bitLen>>
              ELSE <<SubSeq(pad, 1, 56) \o bitLen>>)

\* Some numbers below a prime that fits TLC's integers.
HashPrime == 65521

Summed(bytes) ==
    LET sum[i \in 0 .. 64] == IF i = 0 THEN 0 ELSE (sum[i - 1] * 31 + bytes[i] + 7) % HashPrime
    IN  sum[64]

Mixed(state) ==
    LET h[i \in 1 .. Len(state)] ==
          IF i = 1 THEN state[1] ELSE (h[i - 1] * 257 + Summed(state[i])) % HashPrime
    IN  h[Len(state)]

\* The n-th byte of a hash state.
DigestByte(state, n) == ((Mixed(state) * (257 + n)) % HashPrime) % 256

Digest(state, n) == [i \in 1 .. n |-> DigestByte(state, i)]

\* The initial states, told apart by a number.
ShaH0 == <<17>>
RipemdH0 == <<91>>

Sha256State(data) ==
    LET blocks == PaddedBlocks(data, BigEndian(8 * Len(data)))
        state[i \in 0 .. Len(blocks)] ==
          IF i = 0 THEN ShaH0 ELSE Sha256CompressBlock(state[i - 1], blocks[i])
    IN  state[Len(blocks)]

Ripemd160State(data) ==
    LET blocks == PaddedBlocks(data, LittleEndian(8 * Len(data)))
        state[i \in 0 .. Len(blocks)] ==
          IF i = 0 THEN RipemdH0 ELSE Ripemd160CompressBlock(state[i - 1], blocks[i])
    IN  state[Len(blocks)]

Sha256(data) == Digest(Sha256State(data), 32)
DoubleSha256(data) == Sha256(Sha256(data))

\* The one-block forms for 33 and for 32 bytes, with the lengths 264 and 256
\* written out.
Sha256State33(pubkey) ==
    Sha256CompressBlock(ShaH0, pubkey \o <<128>> \o Zeros(28) \o <<1, 8>>)

\* FAULT: the length 256 is written in the order of SHA-256.
Ripemd160State32BigEndian(sha) ==
    Ripemd160CompressBlock(RipemdH0, sha \o <<128>> \o Zeros(29) \o <<1, 0>>)

Ripemd160State32(sha) ==
    Ripemd160CompressBlock(RipemdH0, sha \o <<128>> \o Zeros(23) \o <<0, 1>> \o Zeros(6))

Hash160(data) == Digest(Ripemd160State(Sha256(data)), 20)
Hash160FromPubkey33(pubkey) == Digest(Ripemd160State32(Digest(Sha256State33(pubkey), 32)), 20)

-----------------------------------------------------------------------------
(* Base58; a character is its index in the alphabet, 1 being 0, or one that is *)
(* not in it.                                                                  *)

LeadingZeros(s) == Cardinality({i \in DOMAIN s : \A j \in 1 .. i : s[j] = 0})

\* digits * from + b, least significant digit first.  A number grows by a digit for
\* as long as something is carried.
TimesPlus(digits, from, b, to) ==
    LET acc[i \in 0 .. Len(digits) + 3] ==
          IF i = 0 THEN b * to
          ELSE (IF i <= Len(digits) THEN digits[i] * from ELSE 0) + acc[i - 1] \div to
        n == Min({i \in Len(digits) .. Len(digits) + 3 : acc[i] < to})
    IN  SubSeq([i \in DOMAIN acc \ {0} |-> acc[i] % to], 1, n)

\* The digits are kept in a buffer that was sized beforehand.
Converted(s, from, to, size) ==
    LET zeroes == LeadingZeros(s)
        after[i \in zeroes .. Len(s)] ==
          IF i = zeroes THEN <<>> ELSE TimesPlus(after[i - 1], from, s[i], to)
    IN  IF Len(after[Len(s)]) > size THEN Panic
        ELSE Zeros(zeroes) \o Reverse(after[Len(s)])

\* FAULT: the quotient of the logarithms is rounded down too far.
EncodedSizeTight(n) == (n * 136) \div 100 + 1

EncodedSize(n) == (n * 138) \div 100 + 1
DecodedSize(n) == (n * 733) \div 1000 + 1

B58Encode(bytes) == Converted(bytes, 256, 58, EncodedSize(Len(bytes) - LeadingZeros(bytes)))

IsBase58(s) == \A i \in DOMAIN s : s[i] \in 0 .. 57

B58Decode(s) ==
    IF IsBase58(s) THEN Converted(s, 58, 256, DecodedSize(Len(s) - LeadingZeros(s))) ELSE <<>>

WithChecksum(data) == data \o SubSeq(DoubleSha256(data), 1, 4)

B58CheckEncode(version, payload) == B58Encode(WithChecksum(<<version>> \o payload))

\* FAULT: the checksum is cut off and not compared.
ChecksumIgnored(raw) == Len(raw) >= 5

ChecksumMatches(raw) == Len(raw) >= 5 /\ raw = WithChecksum(SubSeq(raw, 1, Len(raw) - 4))

\* The version and the payload, or nothing.
B58CheckDecode(s) ==
    LET raw == B58Decode(s)
    IN  IF ChecksumMatches(raw) THEN SubSeq(raw, 1, Len(raw) - 4) ELSE <<>>

P2PKH_MAINNET_VERSION == 0

Pubkey33ToAddress(pubkey) == B58CheckEncode(P2PKH_MAINNET_VERSION, Hash160FromPubkey33(pubkey))

=============================================================================
