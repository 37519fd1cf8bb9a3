------------------------------ MODULE MCNetScan ------------------------------
(* scan_net by itself: images for TLC. *)
EXTENDS NetScan

Packet == [at |-> 0, len |-> 2, ip |-> TRUE, ether |-> FALSE, record |-> FALSE,
           cksum |-> TRUE, addr |-> TRUE, port0 |-> FALSE, off0 |-> FALSE]

\* Two packets in pages of six: the first anywhere before the end of the page,
\* the second right behind it after a record, as in a pcap file, else one further on.
Framed == {[Packet EXCEPT !.ether = e, !.record = r, !.port0 = (o = "port0"), !.off0 = (o = "off0"),
                          !.cksum = (o # "cksum"), !.addr = (o # "addr"), !.ip = (o # "other")] :
             e \in BOOLEAN, r \in BOOLEAN, o \in {"good", "port0", "off0", "cksum", "addr", "other"}}
\* Addresses are looked at in bare packets only, and there are enough of those.
Tested == {p \in Framed : (p.ether => p.addr) /\ (~p.ether => p.cksum)}
Ahead(p) == (IF p.ether THEN 1 ELSE 0) + (IF p.record THEN 1 ELSE 0)
NetImages ==
  {LET first == [p EXCEPT !.at = s + Ahead(p)]
       second == [q EXCEPT !.at = s + Ahead(p) + 2 + (IF p.record THEN 0 ELSE 1) + Ahead(q)] IN
   [size |-> 13, packets |-> {first, second}, memory |-> IF s = 1 THEN {0} ELSE {},
    files |-> IF s = 2 THEN {1} ELSE {}, zeros |-> {1}] :
     p \in Tested,
     q \in {Packet, [Packet EXCEPT !.ether = TRUE, !.record = TRUE]},
     s \in 0 .. 5}
==============================================================================
