------------------------------ MODULE Checksum ------------------------------
(***************************************************************************)
(* The transport checksum of dns-replay-proxy-1.0/socket_util.cc, computed *)
(* by cksum on 16 bit words of the host's order (little endian), and what  *)
(* a receiver makes of it.  A buffer is a sequence of bytes, an address    *)
(* one of four.                                                            *)
(***************************************************************************)
EXTENDS Integers, Sequences

BYTE == 256
WORD == BYTE * BYTE
Octet == 0 .. BYTE - 1
Address == [1 .. 4 -> Octet]

(* The words of an even number of bytes, of either order, added up.        *)
Little(buf) == [i \in 1 .. Len(buf) \div 2 |-> buf[2 * i - 1] + BYTE * buf[2 * i]]
Big(buf)    == [i \in 1 .. Len(buf) \div 2 |-> BYTE * buf[2 * i - 1] + buf[2 * i]]
Total(words) ==
  LET sum[i \in 0 .. Len(words)] == IF i = 0 THEN 0 ELSE sum[i - 1] + words[i]
  IN sum[Len(words)]

(* "Fold 32-bit sum to 16 bits": the loop of cksum.                        *)
FoldNoCarry(sum) == sum % WORD   \* mutant: the carries are dropped
Fold(sum) ==
  LET fold[s \in Nat] == IF s < WORD THEN s ELSE fold[(s % WORD) + (s \div WORD)]
  IN fold[sum]

(* cksum, stored as two bytes of the host's order.  Its branch for a       *)
(* left-over byte is not reached: udp_tcp_cksum pads.                      *)
Cksum(buf) ==
  LET c == WORD - 1 - Fold(Total(Little(buf)))
  IN <<c % BYTE, c \div BYTE>>

(* The pseudo header, the segment, and a zero byte after an odd length.    *)
Padding(seg) == IF Len(seg) % 2 # 0 THEN <<0>> ELSE <<>>
PseudoHdr(src, dst, protocol, len) ==
  src \o dst \o <<0, protocol>> \o <<(len \div BYTE) % BYTE, len % BYTE>>
UdpTcpCksum(seg, src, dst, protocol) ==
  Cksum(PseudoHdr(src, dst, protocol, Len(seg)) \o seg \o Padding(seg))

(* External: a receiver adds all words in network order, the checksum with *)
(* them, in ones' complement, and wants all ones.                          *)
Verifies(seg, src, dst, protocol) ==
  LET sum == Total(Big(PseudoHdr(src, dst, protocol, Len(seg)) \o seg \o Padding(seg)))
  IN sum > 0 /\ sum % (WORD - 1) = 0
=============================================================================
