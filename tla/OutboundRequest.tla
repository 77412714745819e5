--------------------------- MODULE OutboundRequest ---------------------------
(* One outbound request, performSafeRequest of security/safe-http-client.ts:   *)
(* the policy, the resolution, the pinned connection.  The resolver answers    *)
(* for each family; a failed lookup answers with nothing.                      *)
EXTENDS OutboundPolicy

CONSTANTS
  Asked  \* url, allowlist (raw), allowPrivate, v4 and v6 (the resolver's answers), wire

ASSUME AskedAssumption ==
  \A ask \in Asked :
    /\ IsHost(ask.url.host) /\ (ask.url.host.literal => ask.url.host.text = "canonical")
    /\ \A raw \in ask.allowlist : IsHost(raw.host) /\ raw.prefix \in Int
    /\ ask.v4 \in Seq(Addresses(4)) /\ ask.v6 \in Seq(Addresses(6))
    /\ ask.wire \in {"response", "transport_error"}

VARIABLES asked, did

outboundVars == <<asked, did>>
NotYet == [outcome |-> "none", pinned |-> << >>]

OutboundInit == asked \in Asked /\ did = NotYet

Entries == ParseAllowlist(asked.allowlist)
Performs(outcome, pinned) == did' = [outcome |-> outcome, pinned |-> pinned]

(* The configuration that holds the allowlist does not load.                   *)
RefuseAllowlist ==
  /\ ~Parseable(asked.allowlist)
  /\ Performs("not_configured", << >>)

RejectByPolicy ==
  /\ Parseable(asked.allowlist)
  /\ ~CheckOutboundUrlPolicy(asked.url, Entries)
  /\ Performs("policy_rejected", << >>)

Passes == Parseable(asked.allowlist) /\ CheckOutboundUrlPolicy(asked.url, Entries)
ResolvesToNothing == Survivors(asked.v4, asked.v6, asked.allowPrivate) = {}

FailToResolve ==
  /\ Passes
  /\ ~asked.url.host.literal /\ ResolvesToNothing
  /\ Performs("transport_error", << >>)

(* The socket goes to the pinned address; the wire decides what comes back.    *)
Connect ==
  /\ Passes
  /\ asked.url.host.literal \/ ~ResolvesToNothing
  /\ LET pinned == IF asked.url.host.literal THEN asked.url.host.address
                   ELSE PinnedAddress(asked.v4, asked.v6, asked.allowPrivate)
     IN  Performs(asked.wire, <<pinned>>)

OutboundNext ==
  /\ did = NotYet
  /\ RefuseAllowlist \/ RejectByPolicy \/ FailToResolve \/ Connect
  /\ UNCHANGED asked

OutboundSpec == OutboundInit /\ [][OutboundNext]_outboundVars

-----------------------------------------------------------------------------
(* Properties. *)

Bit(a, i) == (a.bytes[(i - 1) \div 8 + 1] \div 2^(7 - ((i - 1) % 8))) % 2
SamePrefix(a, base, n) == \A i \in 1 .. n : Bit(a, i) = Bit(base, i)

(* ip-classify.ts: the comparisons of single bytes come to exactly the blocks  *)
(* of addresses that the ranges are, at both ends of each block.               *)
PrivateBlocks == {Block(<<10, 0, 0, 0>>, 8), Block(<<172, 16, 0, 0>>, 12),
                  Block(<<192, 168, 0, 0>>, 16), Block(<<100, 64, 0, 0>>, 10)}
RangesAreBlocks ==
  \A a \in ToSet(asked.v4) :
    LET InAny(blocks) == \E b \in blocks : SamePrefix(a, b.base, b.prefixLen) IN
    /\ "private" \in ClassifyIp(a) <=> InAny(PrivateBlocks)
    /\ "multicast" \in ClassifyIp(a) <=> InAny({Block(<<224, 0, 0, 0>>, 4)})
    /\ "metadata" \in ClassifyIp(a) => "link_local" \in ClassifyIp(a)

(* What a raw entry lets through, said of its text: a name in any spelling, a  *)
(* literal in the spelling the URL parser gives it, and every literal that has *)
(* the first bits of a range.                                                  *)
SameHost(h, g) == ~h.literal /\ ~g.literal /\ Canonical[h.name] = Canonical[g.name]
LetsThrough(raw, url) ==
  /\ raw.prefix = None => raw.port \in {None, PortOf(url)}
  /\ IF raw.prefix # None
     THEN url.host.literal /\ raw.host.address.family = url.host.address.family
          /\ SamePrefix(url.host.address, raw.host.address, raw.prefix)
     ELSE raw.host = url.host \/ SameHost(raw.host, url.host)

(* A range whose base ends in dots means another one than it says.             *)
Misread(raw) == raw.prefix # None /\ raw.host.literal /\ raw.host.text = "dotted"

Resolved == ToSet(asked.v4) \cup ToSet(asked.v6)

(* A connection is only ever made to a vetted address: a literal an entry lets *)
(* through, in whatever range it is, or a resolved, unblocked address of a     *)
(* name an entry lets through.                                                 *)
ConnectsOnlyVetted ==
  did.pinned # << >> =>
    /\ \E raw \in asked.allowlist : LetsThrough(raw, asked.url) \/ Misread(raw)
    /\ IF asked.url.host.literal THEN did.pinned[1] = asked.url.host.address
       ELSE /\ \E raw \in asked.allowlist : LetsThrough(raw, asked.url)
            /\ did.pinned[1] \in Resolved
            /\ ~CheckBlockedRange(did.pinned[1], asked.allowPrivate)

(* The other direction: what an entry lets through is not rejected, however a  *)
(* name is spelled, in the entry or in the URL, and however a base is that is  *)
(* read as it is written.                                                      *)
ListedIsNotRejected ==
  did.outcome = "policy_rejected" /\ asked.url.form \in {"http", "https"} /\ asked.url.port # 0 =>
    ~\E raw \in asked.allowlist : LetsThrough(raw, asked.url) /\ ~Misread(raw)

(* dns-pin.ts: the choice is deterministic. It does not depend on the order in *)
(* which the resolver lists its answers: no other usable answer precedes it.   *)
PinIsLeast ==
  did.pinned # << >> /\ ~asked.url.host.literal =>
    \A b \in Resolved :
      ByteLess(b.bytes, did.pinned[1].bytes) => CheckBlockedRange(b, asked.allowPrivate)

(* safe-http-client.ts and what it calls: a request is refused and connected   *)
(* exactly as the texts of the allowlist and the address blocks say, and to    *)
(* one address only.                                                           *)
ConnectionsExact ==
  ConnectsOnlyVetted /\ ListedIsNotRejected /\ RangesAreBlocks /\ PinIsLeast
=============================================================================
