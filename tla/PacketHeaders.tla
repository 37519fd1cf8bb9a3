---------------------------- MODULE PacketHeaders ----------------------------
(***************************************************************************)
(* What scan_net looks at in the bytes of a header, where NetScan has a    *)
(* packet with a valid checksum, plausible addresses or a zero port, and   *)
(* the carvers over these bytes.  A cell is a byte.                        *)
(***************************************************************************)
EXTENDS SbufWalk, SequencesExt, FiniteSetsExt

MIN_PACKET_BYTES == 40
ETHER_LEN == 14
RECORD_HEADER == 16

AddressAt(k, n) == [i \in 1 .. n |-> Get8(k + i - 1)]

-----------------------------------------------------------------------------
(* Checksums *)

Word16 == 65536
Carry(sum) == (sum % Word16) + (sum \div Word16)
Complement(sum) == Word16 - 1 - Carry(Carry(sum))

\* Mutant: the field of the checksum is added, too.
ip4_cksum_All(k) == Complement(MapThenSumSet(LAMBDA n : Get16(k + (2 * n)), 0 .. 9))
ip4_cksum(k) == Complement(MapThenSumSet(LAMBDA n : Get16(k + (2 * n)), (0 .. 9) \ {5}))

\* i counts from the start of the sbuf, and pos is added to it once more; the word at 40,
\* wherever the packet begins, counts as the 8 octets of the length and the next header.
IPv6L3Chksum(k, chksum_byteoffset) ==
  LET i(n) == k + 8 + (2 * n)
      octets_processed(n) == (2 * n) + (IF k % 2 = 0 /\ k <= 32 /\ i(n) > 40 THEN 6 ELSE 0)
      len == Get16BE(k + 4) + 40
      added(n) ==
        CASE i(n) = 40 -> Get16(k + 4) + (256 * Get8(k + 6))
          [] octets_processed(n) = chksum_byteoffset -> 0
          [] OTHER -> Get16(i(n))
  IN  Complement(MapThenSumSet(added, {n \in 0 .. bufsize : k + i(n) + 1 < bufsize /\ octets_processed(n) < len}))

-----------------------------------------------------------------------------
(* What cannot be *)

invalidMAC(mac) == \E octet \in {0, 255} : Cardinality({i \in DOMAIN mac : mac[i] = octet}) > 1
invalidIP4(cc) ==
  \/ cc[1] \in {0, 127} \/ cc[1] >= 224
  \/ cc[2] = cc[3] /\ cc[2] \in {0, 255, cc[1]}
  \/ cc[4] \in {0, 255}
invalidIP6(addr) ==
  /\ addr[1] \div 32 # 1
  /\ ~(addr[1] = 254 /\ addr[2] \div 64 = 2)
  /\ addr[1] = 255 => addr[2] >= 16 \/ \E i \in 3 .. 10 : addr[i] # 0
invalidIP(addr) == IF Len(addr) = 4 THEN invalidIP4(addr) ELSE invalidIP6(addr)
sane_ports == {80, 443, 53, 25, 110, 143, 993, 587, 23, 22, 21, 20, 119, 123}
sanePort(k) == Get16BE(k) \in sane_ports

-----------------------------------------------------------------------------
(* The headers *)

TCP == 6
UDP == 17
ICMPV6 == 58
NoHeader == [nxthdr |-> 0]

Ip4Header(k) ==
  [nxthdr |-> Get8(k + 9), nxthdr_offs |-> 20, payload_len |-> Get16BE(k + 2) - 20, ttl |-> Get8(k + 8),
   checksum_valid |-> Get16(k + 10) = ip4_cksum(k), src |-> AddressAt(k + 12, 4), dst |-> AddressAt(k + 16, 4)]
Ip4Sane(k) ==
  /\ Get8(k + 6) \in {0, 64} /\ Get8(k + 7) = 0 /\ Get8(k + 9) \in {TCP, UDP}
  /\ Get16BE(k + 2) \in 28 .. 8192 /\ k + Get16BE(k + 2) <= bufsize

\* Per protocol: where its checksum is, and its smallest header.
Ip6Sums == (TCP :> 56) @@ (UDP :> 46) @@ (ICMPV6 :> 42)
LeastHeader == (TCP :> 20) @@ (UDP :> 8) @@ (ICMPV6 :> 4)
Ip6Header(k) ==
  LET sum == Ip6Sums[Get8(k + 6)] IN
  [nxthdr |-> Get8(k + 6), nxthdr_offs |-> 40, payload_len |-> Get16BE(k + 4), ttl |-> Get8(k + 7),
   checksum_valid |-> k + sum < bufsize /\ Get16(k + sum) = IPv6L3Chksum(k, sum),
   src |-> AddressAt(k + 8, 16), dst |-> AddressAt(k + 24, 16)]
\* Room for the payload is asked for, but not for the header.
Ip6Sane(k) ==
  /\ Get8(k + 6) \in DOMAIN Ip6Sums
  /\ k + Get16BE(k + 4) <= bufsize /\ Get16BE(k + 4) \in LeastHeader[Get8(k + 6)] .. 8192

sanityCheckHeader(k) ==
  IF Get8(k) = 69 THEN IF Ip4Sane(k) THEN Ip4Header(k) ELSE NoHeader
  ELSE IF Get8(k) \div 16 = 6 /\ Ip6Sane(k) THEN Ip6Header(k) ELSE NoHeader
IpLen(h) == h.nxthdr_offs + h.payload_len
Valid(h) == h # NoHeader /\ (h # NoHeader => h.checksum_valid)

\* port0_exception: a port, where there is room up to `end` for the header it is in, is 0.
Port0At(h, k, end) ==
  /\ h.nxthdr \in {TCP, UDP} /\ k + LeastHeader[h.nxthdr] <= end
  /\ 0 \in {Get16(k), Get16(k + 2)}

Time(h, m) == <<h, m>>
TIME_MIN == Time(9630, 40320)       \* January 1990
TIME_MAX == Time(28000, 0)          \* two years after the program is run
likely_packet_header(k) ==
  /\ k + RECORD_HEADER <= bufsize
  /\ AtMost(TIME_MIN, Get32(k)) /\ AtMost(Get32(k), TIME_MAX) /\ AtMost(Get32(k + 4), <<15, 16960>>)
  /\ \A n \in {8, 12} : Get16(k + n + 2) = 0 /\ Get16(k + n) >= MIN_PACKET_BYTES
  /\ Get16(k + 8) <= Get16(k + 12)

-----------------------------------------------------------------------------
(* The carvers yield the bytes that they take, or 0. *)

FILE_HEADER == <<212, 195, 178, 161, 2, 0, 4, 0>>
carvePCAPFileHeader(k) == IF AddressAt(k, 8) = FILE_HEADER THEN 24 ELSE 0

\* A record is taken if another follows it or the sbuf ends with it; its ports are looked
\* for behind an IP header even if there is one of Ethernet before.  One that goes beyond
\* the sbuf ends the page.
RecordEndAt(k) == k + RECORD_HEADER + Get16(k + 8)
RecordThrows(k) == carvePCAPFileHeader(k) = 0 /\ likely_packet_header(k) /\ RecordEndAt(k) > bufsize
RecordHeader(k) ==
  IF sanityCheckHeader(k + RECORD_HEADER) # NoHeader THEN sanityCheckHeader(k + RECORD_HEADER)
  ELSE sanityCheckHeader(k + RECORD_HEADER + ETHER_LEN)
carvePCAPPackets(k) ==
  LET h2 == RecordHeader(k) IN
  IF ~likely_packet_header(k) \/ ~(RecordEndAt(k) = bufsize \/ likely_packet_header(RecordEndAt(k))) THEN 0
  ELSE IF h2 = NoHeader THEN RecordEndAt(k) - k
  ELSE IF Port0At(h2, k + RECORD_HEADER + h2.nxthdr_offs, bufsize) THEN 0 ELSE RecordEndAt(k) - k

validateEther(k) ==
  \/ Get16BE(k + 12) = 2048 /\ Get8(k + 14) = 69
  \/ Get16BE(k + 12) = 34525 /\ Get8(k + 14) \div 16 = 6
EtherHeader(k) == IF validateEther(k) /\ k + ETHER_LEN < bufsize THEN sanityCheckHeader(k + ETHER_LEN) ELSE NoHeader
carveEther(k) ==
  LET h == EtherHeader(k) IN
  IF ~Valid(h) THEN 0
  ELSE IF Port0At(h, k + ETHER_LEN + h.nxthdr_offs, bufsize) THEN 0 ELSE Least(ETHER_LEN + IpLen(h), bufsize - k)
\* The addresses are written even when a port makes the frame none.
MacRecords(k) ==
  IF ~Valid(EtherHeader(k)) THEN <<>>
  ELSE [i \in 1 .. Cardinality({n \in {0, 6} : ~invalidMAC(AddressAt(k + n, 6))}) |-> Slice("mac", k, 12)]

\* The copy that is documented begins with a frame of its own, and what follows it comes from
\* the start of the sbuf, not from the packet.
carveIPFrame(k) ==
  LET h == sanityCheckHeader(k)
      ip_len == Least(IpLen(h), bufsize - k) IN
  IF ~Valid(h) THEN 0
  ELSE IF invalidIP(h.src) \/ invalidIP(h.dst) \/ Port0At(h, h.nxthdr_offs - ETHER_LEN, ip_len) THEN 0
  ELSE ip_len

carveSockAddrIn(k) ==
  IF Get16(k) = 2 /\ (\A i \in 8 .. 15 : Get8(k + i) = 0) /\ ~invalidIP4(AddressAt(k + 4, 4)) /\ sanePort(k + 2) THEN 16 ELSE 0
carveTCPTOBJ(k) == IF AddressAt(k + 4, 4) = <<84, 67, 80, 84>> /\ Get16BE(k + 2) = 13066 THEN 32 ELSE 0
CarvedMemory(k) ==
  IF ~image.carve_net_memory THEN 0 ELSE IF carveTCPTOBJ(k) > 0 THEN carveTCPTOBJ(k) ELSE carveSockAddrIn(k)

\* The first carver that takes something is the last that is asked.
CarverOrder == <<"pcap", "record", "ether", "ip", "memory">>
CarvedBy(c, k) ==
  CASE c = "pcap" -> carvePCAPFileHeader(k) [] c = "record" -> carvePCAPPackets(k) [] c = "ether" -> carveEther(k)
    [] c = "ip" -> carveIPFrame(k) [] c = "memory" -> CarvedMemory(k)
Takes(c) == CarvedBy(CarverOrder[c], pos) > 0
FirstCarver == {c \in DOMAIN CarverOrder : Takes(c) /\ \A d \in 1 .. c - 1 : ~Takes(d)}

InPackets == In("packets") /\ pos + MIN_PACKET_BYTES < pagesize
CarveThrows == InPackets /\ RecordThrows(pos) /\ LeavePage /\ Silent
CarvePacket ==
  /\ InPackets /\ ~RecordThrows(pos) /\ UNCHANGED memo
  /\ \E c \in FirstCarver :
       /\ reports' = reports \o (IF c >= 3 THEN MacRecords(pos) ELSE <<>>) \o <<Slice(CarverOrder[c], pos, CarvedBy(CarverOrder[c], pos))>>
       /\ MoveTo(pos + CarvedBy(CarverOrder[c], pos))
CarveNothing ==
  InPackets /\ ~RecordThrows(pos) /\ FirstCarver = {} /\ MoveTo(pos + 1) /\ UNCHANGED memo /\ reports' = reports \o MacRecords(pos)
CarvePageEnds == In("packets") /\ pos + MIN_PACKET_BYTES >= pagesize /\ LeavePage /\ Silent
CarveStep == CarveThrows \/ CarvePacket \/ CarveNothing \/ CarvePageEnds

-----------------------------------------------------------------------------
\* What a receiver finds: the sum of all the words of an IPv4 header is 0xffff.
SumAt(q) == MapThenSumSet(LAMBDA n : CellAt(q + (2 * n)) + (256 * CellAt(q + (2 * n) + 1)), 0 .. 9)
ReceiverTakes(q) == CellAt(q) = 69 /\ Carry(Carry(SumAt(q))) = Word16 - 1

\* A packet that is carved without a record in front of it has a header that a receiver takes,
\* all of it is in the sbuf, and no two carved from one page share a byte.
PacketsSound ==
  /\ \A i \in DOMAIN reports :
       LET r == reports[i] IN
       /\ r.kind = "ip" => ReceiverTakes(r.from) /\ r.to - r.from = (256 * CellAt(r.from + 2)) + CellAt(r.from + 3)
       /\ r.kind \in {"ether", "mac"} => ReceiverTakes(r.from + ETHER_LEN)
  /\ \A i, j \in {n \in DOMAIN reports : reports[n].kind # "mac"} :
       i # j /\ PageFirst(reports[i].from) = PageFirst(reports[j].from) => ~Overlap(reports[i], reports[j])

\* An IPv4 packet with a right header, possible addresses and ports is carved wherever it
\* begins, the last 40 bytes of a page excepted, whatever precedes it, as part of its frame or
\* its record or by itself; by itself it is not when the start of the sbuf has a 0 where its
\* ports would be if it began there; and what lies on a page behind a record that claims more
\* than the sbuf has is lost.  An IPv6 packet with a right checksum never is carved.
StartHasPort0(q) ==
  LET zero(n) == \A k \in {n, n + 1} : PageFirst(q) + k < ImageSize => CellAt(PageFirst(q) + k) = 0 IN zero(6) \/ zero(8)
Looked(q) == q + MIN_PACKET_BYTES < PageBound(q)
BehindCut(q) == \E f \in image.features : f.kind = "cut" /\ f.from < q /\ PageFirst(f.from) = PageFirst(q)
PacketsFound ==
  \A f \in image.features :
    /\ f.kind \in {"ip", "ether", "record"} /\ Looked(f.from) /\ ~BehindCut(f.from) /\ f.to <= SbufBound(f.from) =>
         Covered({"ip", "ether", "record"}, f.from, f.to) \/ (f.kind = "ip" /\ StartHasPort0(f.from))
    /\ f.kind = "ip6" => ~Covered({"ip", "ether"}, f.from, f.to)
=============================================================================
