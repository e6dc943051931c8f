---------------------------- MODULE Translation -----------------------------
(***************************************************************************)
(* What the nodes read from and write to the headers of one packet:        *)
(* ClassifyForSteer on the IO lcore, Ip4ParseNode, DnatNode and            *)
(* EtherRewriteNode on the workers, ArpNode.  An endpoint is a pair of an  *)
(* address and a port.  Lengths, TTLs and checksums are left out.          *)
(***************************************************************************)
EXTENDS Naturals

CONSTANTS vip, vip_port, self_ip, self_mac, \* common::Config
          Backends,          \* indices of common::Config::backends
          Backend, BackendMac, \* the endpoint and the MAC address of each
          Clients,           \* endpoints of clients
          Addresses, Macs,   \* IP and MAC addresses
          NWorkers,          \* n_workers
          Low, High,         \* kEphemeralLow, kEphemeralHigh
          Hash               \* net::Hash of a FlowKey

L4 == {"tcp", "udp"}
Vip == <<vip, vip_port>>
Workers == 0 .. NWorkers - 1
Keys == [src : Clients, dst : {Vip}, proto : L4]

Endpoints == Addresses \X Nat

\* The headers the nodes know.  A packet may have others, of another type.
IpHeader == [type : {"ipv4"}, proto : L4 \cup {"other"}, src : Endpoints,
             dst : Endpoints, smac : Macs, dmac : Macs]
ArpHeader == [type : {"arp"}, op : {"request", "reply"}, sip : Addresses,
              tip : Addresses, smac : Macs, dmac : Macs]

\* Replies must be told from requests, and backends from each other.
ASSUME AddressAssumption ==
  /\ vip # self_ip \/ vip_port \notin Low .. High
  /\ \A b, c \in Backends : Backend[b] = Backend[c] => b = c
  /\ {Vip} \cup Clients \cup {Backend[b] : b \in Backends} \subseteq Endpoints
  /\ self_ip \in Addresses /\ self_mac \in Macs /\ BackendMac \in [Backends -> Macs]

ASSUME SteeringAssumption ==
  /\ NWorkers \in Nat \ {0} /\ Low \in Nat /\ High \in Nat
  /\ Hash \in [Keys -> Nat]

\* The ports PortPool::ForWorker leaves to worker w.
PortsOf(w) == {p \in Low .. High : p % NWorkers = w}

KeyOf(h) == [src |-> h.src, dst |-> h.dst, proto |-> h.proto]

\* Mutant of ClassifyForSteer: replies are steered by their source port.
ClassifyForSteerBySource(h) ==
  IF h.type = "arp" THEN [cls |-> "kArp", worker |-> 0]
  ELSE IF h.type # "ipv4" \/ h.proto \notin L4 THEN [cls |-> "kDrop", worker |-> 0]
  ELSE IF h.dst = Vip THEN [cls |-> "kSteer", worker |-> Hash[KeyOf(h)] % NWorkers]
  ELSE IF h.dst[1] = self_ip THEN [cls |-> "kSteer", worker |-> h.src[2] % NWorkers]
  ELSE [cls |-> "kDrop", worker |-> 0]

ClassifyForSteer(h) ==
  IF h.type = "arp" THEN [cls |-> "kArp", worker |-> 0]
  ELSE IF h.type # "ipv4" \/ h.proto \notin L4 THEN [cls |-> "kDrop", worker |-> 0]
  ELSE IF h.dst = Vip THEN [cls |-> "kSteer", worker |-> Hash[KeyOf(h)] % NWorkers]
  ELSE IF h.dst[1] = self_ip THEN [cls |-> "kSteer", worker |-> h.dst[2] % NWorkers]
  ELSE [cls |-> "kDrop", worker |-> 0]

\* Ip4ParseNode::Classify; meta keeps addresses, ports and the direction,
\* which the packet still has.
Classify(h) ==
  IF h.type = "arp" THEN "kNextArp"
  ELSE IF h.type # "ipv4" \/ h.proto \notin L4 THEN "kNextDrop"
  ELSE IF h.dst = Vip THEN "kNextFwd"
  ELSE IF h.dst[1] = self_ip THEN "kNextRev"
  ELSE "kNextDrop"

\* A flow as LookupForward and LookupReverse compare it with a packet.
MatchesForward(e, h) == e.key = KeyOf(h)
MatchesReverse(e, h) ==
  Backend[e.b] = h.src /\ e.port = h.dst[2] /\ e.key.proto = h.proto

\* The IPv4 header h with other endpoints, and with other MAC addresses.
Between(h, s, d) ==
  [type |-> h.type, proto |-> h.proto, src |-> s, dst |-> d,
   smac |-> h.smac, dmac |-> h.dmac]
Framed(h, s, d) ==
  [type |-> h.type, proto |-> h.proto, src |-> h.src, dst |-> h.dst,
   smac |-> s, dmac |-> d]

\* DnatNode::Rewrite for a packet of flow e.
Rewrite(h, dir, e) ==
  IF dir = "kNextFwd" THEN Between(h, <<self_ip, e.port>>, Backend[e.b])
  ELSE Between(h, Vip, e.key.src)

\* Mutant of EtherRewrite: LbNode does not load client_mac, and the meta still
\* has what Ip4ParseNode found in the reply.
EtherRewriteUnloaded(h, dir, e) ==
  Framed(h, self_mac, IF dir = "kNextFwd" THEN BackendMac[e.b] ELSE h.smac)

\* EtherRewriteNode, for a packet of flow e: the MAC address of the backend, or
\* the client_mac that the flow has kept since it was opened.
EtherRewrite(h, dir, e) ==
  Framed(h, self_mac, IF dir = "kNextFwd" THEN BackendMac[e.b] ELSE e.client_mac)

\* ArpNode::BuildReply: whether there is one, and what it is.
Answers(h) == h.op = "request" /\ h.tip \in {self_ip, vip}
BuildReply(h) ==
  [type |-> h.type, op |-> "reply", sip |-> h.tip, tip |-> h.sip,
   smac |-> self_mac, dmac |-> h.smac]
=============================================================================
