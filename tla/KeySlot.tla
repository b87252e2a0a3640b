------------------------------- MODULE KeySlot -------------------------------
(***************************************************************************)
(* The hash slot of a key: crc16 of src/crc16.c, keyHashSlot of            *)
(* src/hircluster.c, and what the cluster itself computes.                 *)
(***************************************************************************)
EXTENDS Integers, Sequences, Bitwise

REDIS_CLUSTER_SLOTS == 16384

OpenBrace == 123
CloseBrace == 125

crc16tab ==
    <<0,  4129,  8258, 12387, 16516, 20645, 24774, 28903, 33032, 37161, 41290, 45419, 49548, 53677, 57806, 61935,
       4657,   528, 12915,  8786, 21173, 17044, 29431, 25302, 37689, 33560, 45947, 41818, 54205, 50076, 62463, 58334,
       9314, 13379,  1056,  5121, 25830, 29895, 17572, 21637, 42346, 46411, 34088, 38153, 58862, 62927, 50604, 54669,
      13907,  9842,  5649,  1584, 30423, 26358, 22165, 18100, 46939, 42874, 38681, 34616, 63455, 59390, 55197, 51132,
      18628, 22757, 26758, 30887,  2112,  6241, 10242, 14371, 51660, 55789, 59790, 63919, 35144, 39273, 43274, 47403,
      23285, 19156, 31415, 27286,  6769,  2640, 14899, 10770, 56317, 52188, 64447, 60318, 39801, 35672, 47931, 43802,
      27814, 31879, 19684, 23749, 11298, 15363,  3168,  7233, 60846, 64911, 52716, 56781, 44330, 48395, 36200, 40265,
      32407, 28342, 24277, 20212, 15891, 11826,  7761,  3696, 65439, 61374, 57309, 53244, 48923, 44858, 40793, 36728,
      37256, 33193, 45514, 41451, 53516, 49453, 61774, 57711,  4224,   161, 12482,  8419, 20484, 16421, 28742, 24679,
      33721, 37784, 41979, 46042, 49981, 54044, 58239, 62302,   689,  4752,  8947, 13010, 16949, 21012, 25207, 29270,
      46570, 42443, 38312, 34185, 62830, 58703, 54572, 50445, 13538,  9411,  5280,  1153, 29798, 25671, 21540, 17413,
      42971, 47098, 34713, 38840, 59231, 63358, 50973, 55100,  9939, 14066,  1681,  5808, 26199, 30326, 17941, 22068,
      55628, 51565, 63758, 59695, 39368, 35305, 47498, 43435, 22596, 18533, 30726, 26663,  6336,  2273, 14466, 10403,
      52093, 56156, 60223, 64286, 35833, 39896, 43963, 48026, 19061, 23124, 27191, 31254,  2801,  6864, 10931, 14994,
      64814, 60687, 56684, 52557, 48554, 44427, 40424, 36297, 31782, 27655, 23652, 19525, 15522, 11395,  7392,  3265,
      61215, 65342, 53085, 57212, 44955, 49082, 36825, 40952, 28183, 32310, 20053, 24180, 11923, 16050,  3793,  7920>>

\* crc16, one byte at a time; the upper byte of the remainder chooses the entry.
crc16(buf) ==
    LET crc[i \in 0 .. Len(buf)] ==
            IF i = 0 THEN 0
            ELSE ((crc[i - 1] * 256) % 65536)
                    ^^ crc16tab[((crc[i - 1] \div 256) ^^ buf[i]) + 1]
    IN  crc[Len(buf)]

\* The first of the bytes i .. Len(key) that is b, or Len(key) + 1.
First(key, i, b) ==
    IF \E j \in i .. Len(key) : key[j] = b
    THEN CHOOSE j \in i .. Len(key) : key[j] = b /\ \A k \in i .. j - 1 : key[k] # b
    ELSE Len(key) + 1

\* Mutant: an empty tag counts.
HashedWithEmptyTag(key) ==
    LET s == First(key, 1, OpenBrace)
        e == First(key, s + 1, CloseBrace)
    IN  IF s > Len(key) \/ e > Len(key) THEN key ELSE SubSeq(key, s + 1, e - 1)

\* The part of a key that is hashed.
Hashed(key) ==
    LET s == First(key, 1, OpenBrace)
        e == First(key, s + 1, CloseBrace)
    IN  IF s > Len(key) \/ e > Len(key) \/ e = s + 1 THEN key ELSE SubSeq(key, s + 1, e - 1)

keyHashSlot(key) == crc16(Hashed(key)) % REDIS_CLUSTER_SLOTS

-----------------------------------------------------------------------------
(* The cluster's own definition (external). *)

\* The remainder of the bits of a message, as a polynomial over GF(2), divided by
\* x^16 + x^12 + x^5 + 1: the coefficients 0 .. 15.
Remainder(bytes) ==
    LET bit(i) == (bytes[(i - 1) \div 8 + 1] \div 2 ^ (7 - ((i - 1) % 8))) % 2
        r[i \in 0 .. 8 * Len(bytes)] ==
            IF i = 0 THEN [k \in 0 .. 15 |-> 0]
            ELSE LET out == (r[i - 1][15] + bit(i)) % 2
                 IN  [k \in 0 .. 15 |->
                        ((IF k = 0 THEN 0 ELSE r[i - 1][k - 1])
                         + (IF k \in {0, 5, 12} THEN out ELSE 0)) % 2]
    IN  r[8 * Len(bytes)]

\* The value of the lower 14 coefficients.
Lower14(r) == LET v[k \in 0 .. 14] == IF k = 0 THEN 0 ELSE v[k - 1] + r[k - 1] * 2 ^ (k - 1)
              IN  v[14]

\* s and e are the braces of the tag of a key: the first { and the first }
\* behind it, with something between them.
Tag(key, s, e) ==
    /\ s + 1 < e
    /\ key[s] = OpenBrace
    /\ key[e] = CloseBrace
    /\ \A i \in 1 .. s - 1 : key[i] # OpenBrace
    /\ \A i \in s + 1 .. e - 1 : key[i] # CloseBrace

ServerSlot(key) ==
    IF \E s, e \in DOMAIN key : Tag(key, s, e)
    THEN LET se == CHOOSE x \in (DOMAIN key) \X (DOMAIN key) : Tag(key, x[1], x[2])
         IN  Lower14(Remainder(SubSeq(key, se[1] + 1, se[2] - 1)))
    ELSE Lower14(Remainder(key))
=============================================================================
