--------------------------- MODULE MCDistributor ----------------------------
(* Three clients, two of which are steered to the same of two workers.     *)
EXTENDS Distributor, TLC

CONSTANTS c1, c2, c3, b1, gw

MCBackends == {0}
MCBackend == [b \in MCBackends |-> <<b1, 80>>]
MCClients == {<<c1, 1>>, <<c2, 1>>, <<c3, 1>>}
MCBackendMac == [b \in MCBackends |-> b1]
MCAddresses == {c1, c2, c3, b1, vip, self_ip}
MCMacs == {c1, c2, c3, b1, gw, self_mac}
MCHash == [k \in Keys |-> IF k.src[1] = c2 THEN 3 ELSE 2]

\* A host sends from the MAC address that has its name, c1 also through a
\* gateway.
MCVia(mac, from, to) ==
  [type |-> "ipv4", proto |-> "udp", src |-> from, dst |-> to,
   smac |-> mac, dmac |-> self_mac]
MCIp(from, to) == MCVia(from[1], from, to)
MCArp(op, tip) ==
  [type |-> "arp", op |-> op, sip |-> c1, tip |-> tip, smac |-> c1,
   dmac |-> self_mac]
MCHeaders ==
  {MCIp(c, Vip) : c \in Clients}
  \cup {MCIp(Backend[b], <<self_ip, p>>) : b \in Backends, p \in Low .. High}
  \cup {MCVia(gw, <<c1, 1>>, Vip), MCIp(<<c1, 1>>, <<b1, 80>>)}
  \cup {MCArp("request", vip), MCArp("reply", vip)}

MCSymmetry == Permutations(Mbufs)
=============================================================================
