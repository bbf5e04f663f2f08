----------------------------- MODULE Destinations -----------------------------
(***************************************************************************)
(* What a visitor may enter as a destination, as operators: the parser and *)
(* the blocklist both services use (src/Contracts/Networking:              *)
(* DestinationPolicy.cs, IpBlocklist.cs) and the checks the page makes     *)
(* before it asks (src/Web/src/lib: validation.ts, diagnosticRequest.ts).  *)
(*                                                                         *)
(* An address is the sequence of its bytes, 4 or 16.  A text is a record   *)
(* of what the parsers look at: its length, the marks in it, and its parts *)
(* by shape: "v4" is digits and dots, "v6" holds a colon, "name" the rest. *)
(***************************************************************************)
EXTENDS Integers, SequencesExt

CONSTANTS
  ExtraCidrs,     \* Security:ExtraBlockedCidrs
  ExtraSuffixes   \* the extra blocked suffixes, as sequences of labels

Zeros(n) == [i \in 1..n |-> 0]

\* The bytes (or groups) of an address from the m-th to the n-th.
Slice(a, m, n) == [i \in 1..n - m + 1 |-> a[i + m - 1]]

IsV6(a) == Len(a) = 16

------------------------------------------------------------------------------
(* IpBlocklist                                                              *)

Net4(head, bits) == [v6 |-> FALSE, head |-> head, bits |-> bits]
Net6(head, bits) == [v6 |-> TRUE, head |-> head, bits |-> bits]

DefaultCidrs == {
  Net4(<<0>>, 8), Net4(<<10>>, 8), Net4(<<100, 64>>, 10), Net4(<<127>>, 8),
  Net4(<<169, 254>>, 16), Net4(<<172, 16>>, 12), Net4(<<192, 0, 0>>, 24),
  Net4(<<192, 0, 2>>, 24), Net4(<<192, 88, 99>>, 24), Net4(<<192, 168>>, 16),
  Net4(<<198, 18>>, 15), Net4(<<198, 51, 100>>, 24), Net4(<<203, 0, 113>>, 24),
  Net4(<<224>>, 4), Net4(<<240>>, 4),
  Net6(Zeros(12), 96), Net6(Zeros(15) \o <<1>>, 128), Net6(<<0, 100, 255, 155, 0, 1>>, 48),
  Net6(<<1>> \o Zeros(7), 64), Net6(<<32, 1, 0>>, 23), Net6(<<32, 1, 13, 184>>, 32),
  Net6(<<32, 2>>, 16), Net6(<<63, 255, 0>>, 20), Net6(<<252>>, 7), Net6(<<254, 128>>, 10),
  Net6(<<254, 192>>, 10), Net6(<<255>>, 8)}

MetadataAddresses == {
  <<169, 254, 169, 254>>, <<169, 254, 170, 2>>, <<100, 100, 100, 200>>,
  <<253, 0, 14, 194>> \o Zeros(10) \o <<2, 84>>}

\* Two bytes start with the same bits.
SameBits(bits, x, y) == x \div 2 ^ (8 - bits) = y \div 2 ^ (8 - bits)

\* System.Net.IPNetwork.Contains (InNetwork): all whole bytes of the prefix and the bits left over.
InNetwork(net, a) ==
  LET whole == net.bits \div 8
      rest  == net.bits % 8
  IN /\ net.v6 = IsV6(a)
     /\ \A i \in 1..whole : a[i] = net.head[i]
     /\ rest # 0 => SameBits(rest, a[whole + 1], net.head[whole + 1])

IsMapped(a) == IsV6(a) /\ Slice(a, 1, 12) = Zeros(10) \o <<255, 255>>

IsNat64WellKnown(a) == Slice(a, 1, 12) = <<0, 100, 255, 155>> \o Zeros(8)

\* Slip: an embedded address is looked at in the mapped form only.
ExpandMapped(a) == {a} \cup (IF IsMapped(a) THEN {Slice(a, 13, 16)} ELSE {})

\* The addresses that are looked up for an address.
Expand(a) ==
  IF ~IsV6(a) THEN {a}
  ELSE IF IsMapped(a) THEN {Slice(a, 13, 16)}
  ELSE {a} \cup (IF IsNat64WellKnown(a) THEN {Slice(a, 13, 16)}
                 ELSE IF Slice(a, 1, 2) = <<32, 2>> THEN {Slice(a, 3, 6)} ELSE {})

IsBlocked(a) ==
  \E candidate \in Expand(a) :
    \/ candidate \in MetadataAddresses
    \/ \E net \in DefaultCidrs \cup ExtraCidrs : InNetwork(net, candidate)

------------------------------------------------------------------------------
(* DestinationPolicy                                                        *)

Invalid == [is |-> "invalid"]
Blocked == [is |-> "blocked"]

DefaultBlockedSuffixes == {
  <<"localhost">>, <<"local">>, <<"localdomain">>, <<"internal">>, <<"intranet">>,
  <<"private">>, <<"corp">>, <<"lan">>, <<"home">>, <<"home", "arpa">>, <<"svc">>,
  <<"cluster", "local">>, <<"in-addr", "arpa">>, <<"ip6", "arpa">>, <<"onion">>,
  <<"test">>, <<"invalid">>, <<"example">>}

Words(labels) == [i \in DOMAIN labels |-> labels[i].word]

IsBlockedName(name) ==
  \E suffix \in DefaultBlockedSuffixes \cup ExtraSuffixes : IsSuffix(suffix, name)

CheckAddress(a) == IF IsBlocked(a) THEN Blocked ELSE [is |-> "address", address |-> a]

\* The value of a part of up to three digits.
Octet(part) ==
  LET n == Len(part)
  IN (IF n > 2 THEN 100 * part[n - 2] ELSE 0) + (IF n > 1 THEN 10 * part[n - 1] ELSE 0) + part[n]

IsOctet(part) ==
  Len(part) \in 1..3 /\ (Len(part) > 1 => part[1] # 0) /\ Octet(part) <= 255

ParseIpv4(t) ==
  IF Len(t.parts) # 4 \/ \E i \in 1..4 : ~IsOctet(t.parts[i]) THEN Invalid
  ELSE CheckAddress([i \in 1..4 |-> Octet(t.parts[i])])

\* The groups around "::", and the two that a dotted tail stands for.
TailGroups(t) ==
  IF t.tail = <<>> THEN <<>>
  ELSE <<256 * t.tail[1] + t.tail[2], 256 * t.tail[3] + t.tail[4]>>

BytesOf(groups) ==
  [i \in 1..16 |-> IF i % 2 = 1 THEN groups[(i + 1) \div 2] \div 256 ELSE groups[i \div 2] % 256]

\* The groups after "::", how many are left out, and all of them with n zeros for those.
Right(t) == t.right \o TailGroups(t)
Missing(t) == 8 - Len(t.left \o Right(t))
Padded(t, n) == t.left \o Zeros(n) \o Right(t)

Oversized(groups) == \E i \in DOMAIN groups : groups[i] > 65535

\* System.Net.IPAddress.TryParse of an IPv6 text: <<>>, or the address alone.
TryParse(t) ==
  IF \/ t.gaps > 1
     \/ (t.gaps = 0 /\ Missing(t) # 0) \/ (t.gaps = 1 /\ Missing(t) < 1)
     \/ Oversized(t.left \o Right(t))
  THEN <<>>
  ELSE <<BytesOf(Padded(t, Missing(t)))>>

ParseIpv6(t) ==
  IF t.len > 45 \/ t.marks # {} \/ TryParse(t) = <<>> THEN Invalid
  ELSE CheckAddress(TryParse(t)[1])

\* Labels come with what is in them: "plain", "digits", an underscore ("under"), a
\* hyphen at the edge, something else, nothing, or more than 63 characters.
IsValidLabel(label, allowUnderscore) ==
  label.kind \in {"plain", "digits"} \/ (allowUnderscore /\ label.kind = "under")

ParseHostname(t, allowUnderscore) ==
  LET tld == Last(t.labels)
  IN CASE \/ t.marks # {} \/ t.len - t.dots \notin 1..253
          \/ \E i \in DOMAIN t.labels : ~IsValidLabel(t.labels[i], allowUnderscore) -> Invalid
       [] OTHER ->
            CASE Len(t.labels) < 2 -> Blocked
              [] Len(t.labels) >= 2 /\ tld.kind \in {"digits", "under"} -> Invalid
              [] OTHER -> IF IsBlockedName(Words(t.labels)) THEN Blocked
                          ELSE [is |-> "name", name |-> Words(t.labels)]

\* The trimmed text.
Parse(t, allowUnderscore) ==
  CASE t.len \notin 1..255 \/ t.marks \cap {"space", "path"} # {} -> Invalid
    [] OTHER -> CASE t.shape = "v6" -> ParseIpv6(t)
                  [] t.shape = "v4" -> ParseIpv4(t)
                  [] OTHER -> ParseHostname(t, allowUnderscore)

------------------------------------------------------------------------------
(* validation.ts and diagnosticRequest.ts                                   *)

Refused == [is |-> "refused"]

ParseIPv4(parts) ==
  IF Len(parts) = 4 /\ \A i \in 1..4 : IsOctet(parts[i])
  THEN <<[i \in 1..4 |-> Octet(parts[i])]>> ELSE <<>>

Ipv4BlockReason(o) ==
  \/ o[1] \in {0, 10, 127}
  \/ o[1] = 100 /\ o[2] \in 64..127
  \/ o[1] = 169 /\ o[2] = 254
  \/ o[1] = 172 /\ o[2] \in 16..31
  \/ o[1] = 192 /\ o[2] = 168
  \/ o[1] = 192 /\ o[2] = 0 /\ o[3] = 0
  \/ o[1] >= 224

\* The eight groups, alone, or <<>>.
ParseIPv6(t) ==
  LET groups == Padded(t, IF t.gaps = 0 THEN 0 ELSE Missing(t))
  IN IF \/ t.marks # {} \/ t.gaps > 1 \/ (t.gaps = 1 /\ Missing(t) < 1)
        \/ Len(groups) # 8 \/ Oversized(groups)
     THEN <<>> ELSE <<groups>>

Ipv6BlockReason(g) ==
  \/ Slice(g, 1, 7) = Zeros(7) /\ g[8] \in {0, 1}
  \/ g[1] \div 64 = 65152 \div 64       \* fe80::/10
  \/ g[1] \div 512 = 64512 \div 512     \* fc00::/7
  \/ g[1] \div 256 = 255                \* ff00::/8
  \/ /\ Slice(g, 1, 6) = Zeros(5) \o <<65535>>
     /\ Ipv4BlockReason(<<g[7] \div 256, g[7] % 256, g[8] \div 256, g[8] % 256>>)

InternalSuffixes == {
  <<"localhost">>, <<"local">>, <<"internal">>, <<"localdomain">>, <<"lan">>, <<"home">>,
  <<"home", "arpa">>, <<"corp">>, <<"intranet">>, <<"private">>, <<"svc">>, <<"cluster", "local">>}

\* Slip: a trailing dot is a label of its own.
ValidateHostKeepsDot(t, allowUnderscore) ==
  IF \/ t.marks # {} \/ t.dots > 0 \/ t.labels = <<>>
     \/ \E i \in DOMAIN t.labels : ~IsValidLabel(t.labels[i], allowUnderscore)
     \/ Len(t.labels) < 2 \/ Last(t.labels).kind = "digits"
     \/ \E suffix \in InternalSuffixes : IsSuffix(suffix, Words(t.labels))
  THEN Refused
  ELSE [is |-> "name", name |-> Words(t.labels)]

\* One trailing dot is dropped; further ones leave an empty label.
ValidateHost(t, allowUnderscore) ==
  IF \/ t.marks # {} \/ t.dots > 1 \/ t.labels = <<>>
     \/ \E i \in DOMAIN t.labels : ~IsValidLabel(t.labels[i], allowUnderscore)
     \/ Len(t.labels) < 2 \/ Last(t.labels).kind = "digits"
     \/ \E suffix \in InternalSuffixes : IsSuffix(suffix, Words(t.labels))
  THEN Refused
  ELSE [is |-> "name", name |-> Words(t.labels)]

ValidateDestination(t, family, allowUnderscore) ==
  CASE t.len \notin 1..253 \/ t.marks \cap {"space", "path"} # {} -> Refused
    [] OTHER ->
         CASE t.shape = "v6" ->
                LET g == ParseIPv6(t)
                IN IF family = "ipv4" \/ g = <<>> THEN Refused
                   ELSE IF Ipv6BlockReason(g[1]) THEN Refused
                   ELSE [is |-> "address", address |-> BytesOf(g[1])]
           [] t.shape = "v4" ->
                LET o == ParseIPv4(t.parts)
                IN IF family = "ipv6" \/ o = <<>> THEN Refused
                   ELSE IF Ipv4BlockReason(o[1]) THEN Refused
                   ELSE [is |-> "address", address |-> o[1]]
           [] OTHER -> ValidateHost(t, allowUnderscore)

\* The text that is sent: a name without its trailing dot, an address as entered.
Sent(t) == IF t.shape = "name" /\ t.dots = 1 THEN [t EXCEPT !.dots = 0, !.len = @ - 1] ELSE t

\* buildRequest: <<>> when the form reports an error instead.
BuildRequest(kind, t, family, recordType) ==
  LET v == ValidateDestination(t, IF kind = "dns" THEN "auto" ELSE family, kind = "dns")
  IN IF v = Refused THEN <<>>
     ELSE <<[kind |-> kind, text |-> Sent(t), family |-> IF kind = "dns" THEN "auto" ELSE family,
             recordType |-> IF kind # "dns" THEN "none"
                            ELSE IF recordType # "none" THEN recordType
                            ELSE IF v.is = "name" THEN "A" ELSE "PTR"]>>
==============================================================================
