---------------------------- MODULE OutboundPolicy ----------------------------
(* Which URLs the simulator may call and which address it connects to: the     *)
(* allowlist, the URL rules, the blocked ranges and the resolve-once-and-pin   *)
(* choice of apps/server/src/security.  An address is a sequence of 4 or 16    *)
(* bytes; a URL and a raw allowlist entry are what the URL parser and the      *)
(* entry's punctuation make of a string.                                       *)
EXTENDS Integers, Sequences, FiniteSets, SequencesExt

CONSTANTS
  Spellings,  \* spellings of host names
  Canonical   \* the normalized name of each spelling

ASSUME SpellingAssumption ==
  \A h \in Spellings : Canonical[h] \in Spellings /\ Canonical[Canonical[h]] = Canonical[h]

NormalizeHostname(h) == Canonical[h]

-----------------------------------------------------------------------------
(* Hosts: an address literal or a name. *)

IPv4(bytes) == [family |-> 4, bytes |-> bytes]
IPv6(bytes) == [family |-> 6, bytes |-> bytes]
Addresses(family) ==
  {a \in [family : {family}, bytes : Seq(0 .. 255)] :
     Len(a.bytes) = IF family = 4 THEN 4 ELSE 16}

Named(name) == [literal |-> FALSE, name |-> name]

(* A literal as the URL parser writes it.  An IPv6 address of an entry may be  *)
(* spelled in another way: with zeros written out, or, one that maps an IPv4   *)
(* address, with that address in dots at its end.  An IPv4 address has one     *)
(* spelling; what looks like another is a name.                                *)
Literal(a) == [literal |-> TRUE, address |-> a, text |-> "canonical"]
Spelt(a, text) == [Literal(a) EXCEPT !.text = text]
Zeros(n) == [i \in 1 .. n |-> 0]
IsHost(host) ==
  \/ host.literal = FALSE /\ host = Named(host.name) /\ host.name \in Spellings
  \/ /\ host.literal = TRUE /\ host = Spelt(host.address, host.text)
     /\ \/ host.address \in Addresses(4) /\ host.text = "canonical"
        \/ host.address \in Addresses(6) /\ host.text \in {"canonical", "long"}
        \/ /\ host.address \in Addresses(6) /\ host.text = "dotted"
           /\ SubSeq(host.address.bytes, 1, 10) = Zeros(10)

Width(a) == 8 * Len(a.bytes)

(* The first n bits agree: byte by byte under a mask.                          *)
LeadingBitsAgree(a, base, n) ==
  \A i \in DOMAIN a.bytes :
    LET before == 8 * (i - 1)
        bits == IF n <= before THEN 0 ELSE IF n >= before + 8 THEN 8 ELSE n - before
    IN  a.bytes[i] \div 2^(8 - bits) = base.bytes[i] \div 2^(8 - bits)

InCidr(a, base, prefixLen) ==
  \/ prefixLen = 0
  \/ LeadingBitsAgree(a, base, Width(a) - ((Width(a) - prefixLen) % Width(a)))

-----------------------------------------------------------------------------
(* The allowlist.  A raw entry has a host and, where its text has them, a      *)
(* prefix and a port; None where it has none.                                  *)

None == -1
RawEntry(host, bracketed, prefix, port) ==
  [host |-> host, bracketed |-> bracketed, prefix |-> prefix, port |-> port]

IsIPv6(host) == host.literal /\ host.address.family = 6
Refused == [kind |-> "refused"]
ValidPort(port) == port = None \/ port \in 1 .. 65535

(* ipv6ToBigInt takes what is between colons for one group of hexadecimal      *)
(* digits: of a dotted end it reads the first number so, and all before it     *)
(* moves up by a group.                                                        *)
Dotted(bytes) ==
  LET first == bytes[13]
  IN  [i \in 1 .. 16 |-> CASE i <= 2  -> 0
                           [] i = 15  -> first \div 100
                           [] i = 16  -> ((first \div 10) % 10) * 16 + (first % 10)
                           [] OTHER   -> bytes[i - 2]]
AddressRead(host) ==
  IF host.text = "dotted" THEN IPv6(Dotted(host.address.bytes)) ELSE host.address

ParseAllowlistEntry(raw) ==
  CASE raw.prefix # None ->
         IF raw.host.literal /\ raw.prefix \in 0 .. Width(raw.host.address)
         THEN [kind |-> "cidr", base |-> AddressRead(raw.host), prefixLen |-> raw.prefix]
         ELSE Refused
    [] raw.prefix = None /\ (~ValidPort(raw.port) \/ (raw.bracketed /\ ~IsIPv6(raw.host))) ->
         Refused
    [] raw.prefix = None /\ ValidPort(raw.port) /\ raw.host.literal ->
         [kind |-> "ip", ip |-> raw.host, port |-> raw.port]
    [] OTHER ->
         [kind |-> "hostname", hostname |-> NormalizeHostname(raw.host.name), port |-> raw.port]

(* parseAllowlist throws at the first entry that is refused.                   *)
Parseable(allowlist) == \A raw \in allowlist : ParseAllowlistEntry(raw) # Refused
ParseAllowlist(allowlist) == {ParseAllowlistEntry(raw) : raw \in allowlist}

PortMatches(entry, port) == entry.port \in {None, port}

IsHostnameAllowed(h, port, entries) ==
  \E e \in entries :
    e.kind = "hostname" /\ e.hostname = NormalizeHostname(h) /\ PortMatches(e, port)

(* An exact literal is compared as text, a range as numbers.                   *)
IsIpAllowed(ip, port, entries) ==
  \E e \in entries :
    \/ e.kind = "ip" /\ e.ip = ip /\ PortMatches(e, port)
    \/ /\ e.kind = "cidr" /\ e.base.family = ip.address.family
       /\ InCidr(ip.address, e.base, e.prefixLen)

-----------------------------------------------------------------------------
(* URLs: `form` is "http" or "https", or what is wrong with the string.        *)

Url(form, host, port) == [form |-> form, host |-> host, port |-> port]

WellFormed(url) == url.form \in {"http", "https"}
PortOf(url) == IF url.port # None THEN url.port ELSE IF url.form = "https" THEN 443 ELSE 80

CheckOutboundUrlPolicy(url, entries) ==
  /\ WellFormed(url)
  /\ PortOf(url) # 0
  /\ IF url.host.literal THEN IsIpAllowed(url.host, PortOf(url), entries)
                         ELSE IsHostnameAllowed(url.host.name, PortOf(url), entries)

Origin(url) == <<url.form, url.host, PortOf(url)>>

CheckRedirectOriginPolicy(url, allowedOrigins) ==
  /\ WellFormed(url)
  /\ \E o \in allowedOrigins : Origin(o) = Origin(url)

-----------------------------------------------------------------------------
(* The special ranges an address is in. *)

Block(bytes, prefixLen) == [base |-> IPv4(bytes), prefixLen |-> prefixLen]
In(a, block) == LeadingBitsAgree(a, block.base, block.prefixLen)

(* Mutant of ClassifyIpv4: the private range of 172 ends one too late, the     *)
(* shared one of 100 is forgotten. *)
ClassifyIpv4Bounds(bytes) ==
  LET x == bytes[1]
      y == bytes[2]
      Is == [loopback    |-> x = 127,
             link_local  |-> x = 169 /\ y = 254,
             metadata    |-> bytes = <<169, 254, 169, 254>>,
             unspecified |-> bytes = <<0, 0, 0, 0>>,
             multicast   |-> x \in 224 .. 239,
             documentation |-> \E b \in {Block(<<192, 0, 2, 0>>, 24), Block(<<198, 51, 100, 0>>, 24),
                                         Block(<<203, 0, 113, 0>>, 24)} : In(IPv4(bytes), b),
             private |-> \/ x = 10
                         \/ x = 172 /\ y \in 16 .. 32
                         \/ x = 192 /\ y = 168]
  IN  {range \in DOMAIN Is : Is[range]}

ClassifyIpv4(bytes) ==
  LET x == bytes[1]
      y == bytes[2]
      Is == [loopback    |-> x = 127,
             link_local  |-> x = 169 /\ y = 254,
             metadata    |-> bytes = <<169, 254, 169, 254>>,
             unspecified |-> bytes = <<0, 0, 0, 0>>,
             multicast   |-> x \in 224 .. 239,
             documentation |-> \E b \in {Block(<<192, 0, 2, 0>>, 24), Block(<<198, 51, 100, 0>>, 24),
                                         Block(<<203, 0, 113, 0>>, 24)} : In(IPv4(bytes), b),
             private |-> \/ x = 10
                         \/ x = 172 /\ y \in 16 .. 31
                         \/ x = 192 /\ y = 168
                         \/ In(IPv4(bytes), Block(<<100, 64, 0, 0>>, 10))]
  IN  {range \in DOMAIN Is : Is[range]}

(* An IPv6 address is classified by its text.  A group is written without      *)
(* leading zeros, so its text starts with the digits of p when cutting some of *)
(* its last digits leaves p; the first group is the text's start unless it is  *)
(* zero.                                                                       *)
GroupOf(bytes, i) == bytes[2 * i - 1] * 256 + bytes[2 * i]
StartsWith(group, p) == \E cut \in 0 .. 3 : group \div 16^cut = p
ClassifyIpv6(bytes) ==
  LET g == GroupOf(bytes, 1)
      Is == [loopback    |-> bytes = Zeros(15) \o <<1>>,
             link_local  |-> \E p \in 4072 .. 4075 : StartsWith(g, p),  \* fe8, fe9, fea, feb
             metadata    |-> SubSeq(bytes, 13, 16) = <<169, 254, 169, 254>>
                             /\ SubSeq(bytes, 1, 12) = Zeros(10) \o <<255, 255>>,
             unspecified |-> bytes = Zeros(16),
             multicast   |-> StartsWith(g, 255),
             documentation |-> g = 8193 /\ StartsWith(GroupOf(bytes, 2), 3512),  \* 2001:db8
             private     |-> StartsWith(g, 252) \/ StartsWith(g, 253)]
  IN  {range \in DOMAIN Is : Is[range]}

ClassifyIp(a) == IF a.family = 4 THEN ClassifyIpv4(a.bytes) ELSE ClassifyIpv6(a.bytes)

AlwaysBlocked == {"metadata", "link_local", "multicast", "unspecified", "documentation"}

CheckBlockedRange(a, allowPrivateNetworks) ==
  \/ ClassifyIp(a) \cap AlwaysBlocked # {}
  \/ ClassifyIp(a) \cap {"loopback", "private"} # {} /\ ~allowPrivateNetworks

-----------------------------------------------------------------------------
(* Resolution and the pinned address. *)

(* Buffer.compare: the first byte that differs, else the shorter buffer.       *)
ByteLess(x, y) ==
  \/ \E i \in 1 .. Len(x) :
       /\ i <= Len(y) /\ x[i] < y[i]
       /\ \A k \in 1 .. i - 1 : x[k] = y[k]
  \/ Len(x) < Len(y) /\ \A i \in 1 .. Len(x) : x[i] = y[i]

Survivors(v4, v6, allowPrivateNetworks) ==
  {a \in ToSet(v4) \cup ToSet(v6) : ~CheckBlockedRange(a, allowPrivateNetworks)}

(* The first of the survivors when they are sorted.                            *)
PinnedAddress(v4, v6, allowPrivateNetworks) ==
  LET survivors == Survivors(v4, v6, allowPrivateNetworks) IN
  CHOOSE a \in survivors : \A b \in survivors \ {a} : ByteLess(a.bytes, b.bytes)
=============================================================================
