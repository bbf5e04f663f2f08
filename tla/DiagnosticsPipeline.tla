-------------------------- MODULE DiagnosticsPipeline --------------------------
(***************************************************************************)
(* One diagnostic from what a visitor enters to what the visitor is told:  *)
(* the page's check and the API's (Destinations, DiagnosticRelay.cs), the  *)
(* worker's TargetResolver, HostResolver and DnsLookupService, the tool    *)
(* run by NativeProbeRunner, Parsers, and DiagnosticsService, which looks  *)
(* up the names of the hops and hides the internal ones.                   *)
(*                                                                         *)
(* Every await is a step of its own; during each of them the token of the  *)
(* run may be cancelled, by the caller or by the executor's deadline.  DNS *)
(* and the network's path to the target are the environment.  Times are    *)
(* small numbers, names are those of their address.                        *)
(***************************************************************************)
EXTENDS Destinations

CONSTANTS
  Requests,      \* what is entered: [kind, text, family, recordType]
  Records,       \* what the A and the AAAA question may be answered with: [A, AAAA]
  Paths(_),      \* the paths to an address, a hop being the probes it answered
  ReverseDns,    \* Diagnostics:ReverseDns
  Redact         \* Diagnostics:RedactPrivateHops

\* What the parsers look at of a text.
Texts == [
  shape  : {"v4", "v6", "name"},
  len    : Nat,
  marks  : SUBSET {"space", "path", "shell", "nonascii"},
  dots   : Nat,                          \* at its end
  parts  : Seq(Seq(0..9)),               \* a "v4" between the dots
  left   : Seq(Nat),                     \* a "v6" before its first "::"
  gaps   : Nat,                          \* how many of them
  right  : Seq(Nat),                     \* and after it
  tail   : {<<>>} \cup [1..4 -> 0..255],  \* the dotted end
  labels : Seq([word : STRING, kind : STRING]),
  means  : Seq(0..255)]                  \* the address that is written, if one is

ASSUME PipelineAssumption ==
  /\ \A r \in Requests : r.text \in Texts /\ r.family \in {"auto", "ipv4", "ipv6"}
  /\ \A r \in Requests : r.text.shape = "v4" =>
       /\ r.text.marks = {}
       /\ Len(r.text.parts) = 4 /\ (\A i \in 1..4 : Len(r.text.parts[i]) \in 1..3)
            => r.text.len \in 7..15
  /\ Records \subseteq [A : Seq([1..4 -> 0..255]), AAAA : Seq([1..16 -> 0..255])]

VARIABLES
  request,   \* what is asked
  stage,     \* where it is
  asked,     \* the questions the worker asked DNS: <<type, subject>>
  found,     \* the addresses a name has, in order
  target,    \* the target of the tool, <<>> before there is one
  path,      \* the path the tool found, and whether its output was cut short
  cut,
  raw,       \* the hops the parser made of the output
  lookups,   \* lookups[a]: the reverse lookup of a
  budget,    \* the four seconds for the reverse lookups are "off", "running" or "over"
  cancelled, \* the token of the run is cancelled
  answer     \* what the visitor is told

vars == <<request, stage, asked, found, target, path, cut, raw, lookups, budget, cancelled, answer>>

NoAnswer == [is |-> "none"]

Init ==
  /\ request \in Requests
  /\ stage = "entered"
  /\ asked = {}
  /\ found = <<>>
  /\ target = <<>>
  /\ path = <<>>
  /\ cut = FALSE
  /\ raw = <<>>
  /\ lookups = <<>>
  /\ budget = "off"
  /\ cancelled = FALSE
  /\ answer = NoAnswer

Told(a) == stage' = "done" /\ answer' = a

Failed == [is |-> "failed"]

------------------------------------------------------------------------------
(* Page and API                                                             *)

\* The form's submit.
Submit ==
  /\ stage = "entered"
  /\ LET built == BuildRequest(request.kind, request.text, request.family, request.recordType)
     IN IF built = <<>>
        THEN Told(Refused) /\ UNCHANGED request
        ELSE request' = built[1] /\ stage' = "sent" /\ UNCHANGED answer
  /\ UNCHANGED <<asked, found, target, path, cut, raw, lookups, budget, cancelled>>

\* A client that is not the page.
SubmitDirectly ==
  /\ stage = "entered"
  /\ stage' = "sent"
  /\ UNCHANGED <<request, asked, found, target, path, cut, raw, lookups, budget, cancelled, answer>>

RecordTypes == {"A", "AAAA", "CNAME", "MX", "NS", "TXT", "SOA", "PTR"}

Parsed == Parse(request.text, request.kind = "dns")

\* DiagnosticRelay.ValidateDestination and ValidateDns
Validate ==
  /\ stage = "sent"
  /\ IF request.kind = "dns" /\ request.recordType \notin RecordTypes THEN Told(Invalid)
     ELSE IF Parsed.is \in {"invalid", "blocked"} THEN Told(Parsed)
     ELSE stage' = "accepted" /\ UNCHANGED answer
  /\ UNCHANGED <<request, asked, found, target, path, cut, raw, lookups, budget, cancelled>>

------------------------------------------------------------------------------
(* DnsLookupService                                                         *)

\* ResolveQueryName: a PTR question is about an address, any other about a name.
Question ==
  IF request.recordType = "PTR" THEN <<"PTR", Parsed.address>>
  ELSE <<request.recordType, Parsed.name>>

Lookup ==
  /\ stage = "accepted" /\ request.kind = "dns"
  /\ IF Parsed.is \in {"invalid", "blocked"} THEN Told(Parsed) /\ UNCHANGED asked
     ELSE IF (request.recordType = "PTR") # (Parsed.is = "address")
     THEN Told(Invalid) /\ UNCHANGED asked
     ELSE /\ asked' = asked \cup {Question}
          /\ stage' = "looking"
          /\ UNCHANGED answer
  /\ UNCHANGED <<request, found, target, path, cut, raw, lookups, budget, cancelled>>

\* The response code and the types of the records, or an exception.
LookupEnds ==
  /\ stage = "looking"
  /\ \/ Told(Failed)
     \/ \E types \in SUBSET {request.recordType, "CNAME"} :
          Told([is |-> "records", status |-> IF request.recordType \in types THEN "ok" ELSE "nodata"])
     \/ Told([is |-> "records", status |-> "nxdomain"])
  /\ UNCHANGED <<request, asked, found, target, path, cut, raw, lookups, budget, cancelled>>

------------------------------------------------------------------------------
(* TargetResolver                                                           *)

Matches(a, family) ==
  CASE family = "ipv4" -> ~IsV6(a)
    [] family = "ipv6" -> IsV6(a)
    [] OTHER -> TRUE

\* ResolveAsync up to its await: an address needs no question.
Resolve ==
  /\ stage = "accepted" /\ request.kind # "dns"
  /\ CASE Parsed.is \in {"invalid", "blocked"} ->
            Told(Parsed) /\ UNCHANGED <<asked, target>>
       [] Parsed.is = "address" ->
            IF Matches(Parsed.address, request.family)
            THEN /\ target' = Parsed.address
                 /\ stage' = "resolved"
                 /\ UNCHANGED <<asked, answer>>
            ELSE Told(Invalid) /\ UNCHANGED <<asked, target>>
       [] OTHER ->
            /\ asked' = asked \cup {<<type, Parsed.name>> :
                 type \in (IF request.family # "ipv6" THEN {"A"} ELSE {}) \cup
                          (IF request.family # "ipv4" THEN {"AAAA"} ELSE {})}
            /\ stage' = "resolving"
            /\ UNCHANGED <<target, answer>>
  /\ UNCHANGED <<request, found, path, cut, raw, lookups, budget, cancelled>>

\* Distinct: each address of s once, in the order they come in.
IsDistinct(f, s) ==
  /\ ToSet(f) = ToSet(s)
  /\ \A i, j \in DOMAIN f : i < j =>
       \E m \in DOMAIN s : s[m] = f[i] /\ \A k \in 1..m : s[k] # f[j]

\* HostResolver.ResolveAsync: both answers are awaited, and one that fails fails both.
HostResolved ==
  /\ stage = "resolving"
  /\ \/ \E r \in Records :
          LET all == (IF request.family # "ipv6" THEN r.A ELSE <<>>) \o
                     (IF request.family # "ipv4" THEN r.AAAA ELSE <<>>)
          IN /\ \E n \in 0..Len(all) : found' \in {f \in [1..n -> ToSet(all)] : IsDistinct(f, all)}
             /\ stage' = "found"
             /\ UNCHANGED answer
     \/ Told(Failed) /\ UNCHANGED found
  /\ UNCHANGED <<request, asked, target, path, cut, raw, lookups, budget, cancelled>>

Preferred(addresses) ==
  LET four == {i \in DOMAIN addresses : ~IsV6(addresses[i])}
  IN addresses[IF four = {} THEN 1 ELSE Min(four)]

\* Slip: only the chosen address is looked at.
ChooseFirst ==
  /\ stage = "found"
  /\ IF found = <<>> THEN Told(Failed) /\ UNCHANGED target
     ELSE IF IsBlocked(Preferred(found)) THEN Told(Blocked) /\ UNCHANGED target
     ELSE /\ target' = Preferred(found)
          /\ stage' = "resolved"
          /\ UNCHANGED answer
  /\ UNCHANGED <<request, asked, found, path, cut, raw, lookups, budget, cancelled>>

\* The rest of ResolveAsync: one blocked address refuses the name.
Choose ==
  /\ stage = "found"
  /\ IF found = <<>> THEN Told(Failed) /\ UNCHANGED target
     ELSE IF \E i \in DOMAIN found : IsBlocked(found[i]) THEN Told(Blocked) /\ UNCHANGED target
     ELSE /\ target' = Preferred(found)
          /\ stage' = "resolved"
          /\ UNCHANGED answer
  /\ UNCHANGED <<request, asked, found, path, cut, raw, lookups, budget, cancelled>>

------------------------------------------------------------------------------
(* The tool and its output                                                  *)

\* What traceroute prints for a probe: the router's address when it is another one than
\* before, then the time; a star for no answer.
PrintProbe(hop, k) ==
  LET probe == hop[k]
      answered == {j \in 1..k - 1 : hop[j].from # <<>>}
      again == answered # {} /\ hop[Max(answered)].from = probe.from
  IN IF probe.from = <<>> THEN <<[is |-> "star"]>>
     ELSE (IF again THEN <<>> ELSE <<[is |-> "address", a |-> probe.from]>>)
            \o <<[is |-> "time", t |-> probe.rtt], [is |-> "ms"]>>
            \o (IF probe.flag THEN <<[is |-> "flag"]>> ELSE <<>>)

PrintHop(hop) == FlattenSeq([k \in DOMAIN hop |-> PrintProbe(hop, k)])

Output(p) == [i \in DOMAIN p |-> [no |-> i, tokens |-> PrintHop(p[i])]]

\* What System.Net.IPAddress.TryParse makes of an address that lost its end.
Cropped(a) == IF IsV6(a) THEN SubSeq(a, 1, 14) \o Zeros(2) ELSE SubSeq(a, 1, 2) \o <<0, a[3]>>

\* The output up to the cap: some lines, and some tokens of the next.
CutOutputs(lines) ==
  {lines} \cup
  UNION {{SubSeq(lines, 1, k - 1) \o <<[lines[k] EXCEPT !.tokens = rest]>> :
            rest \in LET ts == lines[k].tokens IN
                      {SubSeq(ts, 1, j) : j \in 0..Len(ts) - 1} \cup
                      {SubSeq(ts, 1, j - 1) \o <<[ts[j] EXCEPT !.a = Cropped(@)]>> :
                         j \in {i \in DOMAIN ts : ts[i].is = "address"}}} :
         k \in DOMAIN lines}

NoTime == 0

\* A number is a time if "ms" follows.
IsTime(ts, j) == ts[j].is = "time" /\ j < Len(ts) /\ ts[j + 1].is = "ms"

\* Slip: a star is skipped like a flag.
TimesAnswered(ts) ==
  FlattenSeq([j \in DOMAIN ts |-> IF IsTime(ts, j) THEN <<ts[j].t>> ELSE <<>>])

\* The times of a line: a star is one too.
Times(ts) ==
  FlattenSeq([j \in DOMAIN ts |-> IF ts[j].is = "star" THEN <<NoTime>>
                                  ELSE IF IsTime(ts, j) THEN <<ts[j].t>> ELSE <<>>])

\* TracerouteParser.Parse: the first address of a line, and one time for each probe.
FirstAddress(ts) ==
  LET at == {j \in DOMAIN ts : ts[j].is = "address"}
  IN IF at = {} THEN <<>> ELSE ts[Min(at)].a

\* A line without either is no hop.
ParseLine(line) ==
  LET h == [hop |-> line.no, address |-> FirstAddress(line.tokens), rtts |-> Times(line.tokens)]
  IN IF h.rtts # <<>> \/ h.address # <<>> THEN <<h>> ELSE <<>>

ParseTraceroute(lines) == FlattenSeq([i \in DOMAIN lines |-> ParseLine(lines[i])])

\* MtrParser.Parse of mtr's report: a hub has a host and its figures, of which those of
\* an unknown host are left out.
Responder(hop) ==
  LET answered == SelectSeq(hop, LAMBDA p : p.from # <<>>)
  IN IF answered = <<>> THEN [from |-> <<>>, rtt |-> NoTime, flag |-> FALSE] ELSE answered[1]

ParseMtr(p) ==
  [i \in DOMAIN p |-> [hop |-> i, address |-> Responder(p[i]).from,
                       rtts |-> IF Responder(p[i]).from = <<>> THEN <<>> ELSE <<Responder(p[i]).rtt>>]]

\* NativeProbeRunner: the address is looked at once more before the tool starts.
RunTool ==
  /\ stage = "resolved"
  /\ IF IsBlocked(target) THEN Told(Blocked) ELSE stage' = "running" /\ UNCHANGED answer
  /\ UNCHANGED <<request, asked, found, target, path, cut, raw, lookups, budget, cancelled>>

\* The tool cannot be started, fails, or what it printed is not a report: a ping without
\* its summary, a traceroute without hops, an mtr report cut short.
ToolFails ==
  /\ stage = "running"
  /\ Told(Failed)
  /\ UNCHANGED <<request, asked, found, target, path, cut, raw, lookups, budget, cancelled>>

PingEnds ==
  /\ stage = "running" /\ request.kind = "ping"
  /\ Told([is |-> "ping", address |-> target])
  /\ UNCHANGED <<request, asked, found, target, path, cut, raw, lookups, budget, cancelled>>

\* The hops that are asked for their names.
Named(hops) == {hops[i].address : i \in DOMAIN hops} \ {<<>>}

\* Slip: every hop is asked for its name.
LookedUpAll(hops) == IF ReverseDns THEN Named(hops) ELSE {}

LookedUp(hops) == IF ReverseDns THEN {a \in Named(hops) : ~IsBlocked(a)} ELSE {}

\* ReverseLookupAsync up to its await.
ReverseLookup(hops) ==
  /\ raw' = hops
  /\ lookups' = [a \in LookedUp(hops) |-> "pending"]
  /\ asked' = asked \cup {<<"PTR", a>> : a \in LookedUp(hops)}
  /\ budget' = "running"
  /\ stage' = "naming"
  /\ UNCHANGED <<request, found, target, cancelled, answer>>

TracerouteEnds ==
  /\ stage = "running" /\ request.kind = "traceroute"
  /\ \E p \in Paths(target) : \E lines \in CutOutputs(Output(p)) :
       /\ ParseTraceroute(lines) # <<>>
       /\ path' = p
       /\ cut' = (lines # Output(p))
       /\ ReverseLookup(ParseTraceroute(lines))

MtrEnds ==
  /\ stage = "running" /\ request.kind = "mtr"
  /\ \E p \in Paths(target) : path' = p /\ ReverseLookup(ParseMtr(p))
  /\ cut' = FALSE

------------------------------------------------------------------------------
(* DiagnosticsService                                                       *)

\* DNS has the name, has none or fails: all are taken.
ReverseAnswer(a) ==
  /\ stage = "naming"
  /\ lookups[a] = "pending"
  /\ \E name \in {"name", "none"} : lookups' = [lookups EXCEPT ![a] = name]
  /\ UNCHANGED <<request, stage, asked, found, target, path, cut, raw, budget, cancelled, answer>>

BudgetOver ==
  /\ stage = "naming" /\ budget = "running"
  /\ budget' = "over"
  /\ UNCHANGED <<request, stage, asked, found, target, path, cut, raw, lookups, cancelled, answer>>

\* Slip: a lookup that runs out of time is an error like any other.
LookupGivesUpLoudly(a) ==
  /\ stage = "naming" /\ budget = "over"
  /\ lookups[a] = "pending"
  /\ Told([is |-> "cancelled"])
  /\ UNCHANGED <<request, asked, found, target, path, cut, raw, lookups, budget, cancelled>>

\* The catch clause: out of time, unless the run is cancelled.
LookupGivesUp(a) ==
  /\ stage = "naming" /\ budget = "over" /\ ~cancelled
  /\ lookups[a] = "pending"
  /\ lookups' = [lookups EXCEPT ![a] = "none"]
  /\ UNCHANGED <<request, stage, asked, found, target, path, cut, raw, budget, cancelled, answer>>

Internal(a) == Redact /\ IsBlocked(a)

\* Present, with the rest of a hop of traceroute (of mtr: a hop answered if it has an
\* address).
Present(h) ==
  LET shown == h.address # <<>> /\ ~Internal(h.address)
  IN [hop       |-> h.hop,
      responded |-> h.address # <<>> \/ (request.kind = "traceroute" /\ ToSet(h.rtts) \ {NoTime} # {}),
      redacted  |-> h.address # <<>> /\ Internal(h.address),
      address   |-> IF shown THEN h.address ELSE <<>>,
      named     |-> shown /\ h.address \in DOMAIN lookups /\ lookups[h.address] = "name",
      rtts      |-> h.rtts]

\* TextRenderer.Traceroute and Mtr: what stands for the host of a hop.
Host(h) ==
  CASE ~h.responded -> <<"unknown">>
    [] h.responded /\ h.redacted -> <<"internal network">>
    [] OTHER -> IF h.named THEN <<"name", h.address>> ELSE <<"address", h.address>>

Finish ==
  /\ stage = "naming"
  /\ \A a \in DOMAIN lookups : lookups[a] # "pending"
  /\ LET hops == [i \in DOMAIN raw |-> Present(raw[i])]
     IN Told([is |-> "hops", address |-> target, hops |-> hops,
              reached |-> request.kind = "traceroute" /\ Last(raw).address = target,
              text |-> [i \in DOMAIN hops |-> Host(hops[i])]])
  /\ UNCHANGED <<request, asked, found, target, path, cut, raw, lookups, budget, cancelled>>

\* The caller hangs up or the executor's deadline passes ...
CancelToken ==
  /\ stage \in {"looking", "resolving", "running", "naming"}
  /\ ~cancelled
  /\ cancelled' = TRUE
  /\ UNCHANGED <<request, stage, asked, found, target, path, cut, raw, lookups, budget, answer>>

\* ... and what is awaited throws, unless it is over already.
Stop ==
  /\ cancelled
  /\ \/ stage \in {"looking", "resolving", "running"}
     \/ stage = "naming" /\ \E a \in DOMAIN lookups : lookups[a] = "pending"
  /\ Told([is |-> "cancelled"])
  /\ UNCHANGED <<request, asked, found, target, path, cut, raw, lookups, budget, cancelled>>

Next ==
  \/ Submit \/ SubmitDirectly \/ Validate
  \/ Lookup \/ LookupEnds
  \/ Resolve \/ HostResolved \/ Choose
  \/ RunTool \/ ToolFails \/ PingEnds \/ TracerouteEnds \/ MtrEnds
  \/ \E a \in DOMAIN lookups : ReverseAnswer(a) \/ LookupGivesUp(a)
  \/ BudgetOver \/ Finish \/ CancelToken \/ Stop

Spec == Init /\ [][Next]_vars

------------------------------------------------------------------------------
(* Properties                                                               *)

\* The ranges docs/security.md lists: the bytes that the addresses of a range start
\* with, and the least and the greatest next byte.
Documented4 == {
  <<<<0>>, 0, 255>>, <<<<10>>, 0, 255>>, <<<<100>>, 64, 127>>, <<<<127>>, 0, 255>>,
  <<<<169, 254>>, 0, 255>>, <<<<172>>, 16, 31>>, <<<<192, 0, 0>>, 0, 255>>,
  <<<<192, 0, 2>>, 0, 255>>, <<<<192, 88, 99>>, 0, 255>>, <<<<192, 168>>, 0, 255>>,
  <<<<198>>, 18, 19>>, <<<<198, 51, 100>>, 0, 255>>, <<<<203, 0, 113>>, 0, 255>>,
  <<<<>>, 224, 239>>, <<<<>>, 240, 255>>}

Documented6 == {
  <<Zeros(12), 0, 255>>, <<<<0, 100, 255, 155, 0, 1>>, 0, 255>>, <<<<1>> \o Zeros(7), 0, 255>>,
  <<<<32, 1>>, 0, 1>>, <<<<32, 1, 13, 184>>, 0, 255>>, <<<<32, 2>>, 0, 255>>,
  <<<<63, 255>>, 0, 15>>, <<<<>>, 252, 253>>, <<<<254>>, 128, 191>>, <<<<254>>, 192, 255>>,
  <<<<255>>, 0, 255>>}

InRange(r, a) ==
  /\ \A i \in 1..Len(r[1]) : a[i] = r[1][i]
  /\ a[Len(r[1]) + 1] \in r[2]..r[3]

Listed(a) == \E r \in (IF IsV6(a) THEN Documented6 ELSE Documented4) : InRange(r, a)

\* The IPv4 address an IPv6 one stands for: mapped, or of the well-known NAT64 prefix.
Prefixes4 == {Zeros(10) \o <<255, 255>>, <<0, 100, 255, 155>> \o Zeros(8)}

Restricted(a) ==
  Listed(a) \/ (IsV6(a) /\ Slice(a, 1, 12) \in Prefixes4 /\ Listed(Slice(a, 13, 16)))

\* The operator's own networks; a mapped address is the IPv4 address it holds.
Added(a) ==
  \E net \in ExtraCidrs :
    \/ InNetwork(net, a) /\ ~IsMapped(a)
    \/ IsV6(a) /\ Slice(a, 1, 12) \in Prefixes4 /\ InNetwork(net, Slice(a, 13, 16))

\* How an address is written: the decimal digits of a byte, the 16 bits of a group.
Digits(n) ==
  IF n < 10 THEN <<n>> ELSE IF n < 100 THEN <<n \div 10, n % 10>>
  ELSE <<n \div 100, (n \div 10) % 10, n % 10>>

Group(a, i) == 256 * a[2 * i - 1] + a[2 * i]

Writes4(t, a) == Len(a) = 4 /\ t.parts = [i \in 1..4 |-> Digits(a[i])]

\* All groups, or a run of zeros left out; the last two may be written as bytes.
Writes6(t, a) ==
  /\ Len(a) = 16 /\ t.marks = {} /\ t.len \in 1..45
  /\ \E n \in 0..8, m \in {6, 8} :
       /\ t.gaps = (IF n = 0 THEN 0 ELSE 1)
       /\ t.left \o Zeros(n) \o t.right = [i \in 1..m |-> Group(a, i)]
       /\ t.tail = (IF m = 8 THEN <<>> ELSE Slice(a, 13, 16))

Writes(t, a) == IF t.shape = "v4" THEN Writes4(t, a) ELSE Writes6(t, a)

\* Each text that could be an address means the one that it writes, or none.
Meant(addresses) ==
  \A r \in Requests : r.text.shape # "name" =>
    /\ r.text.means \in addresses \cup {<<>>}
    /\ \A a \in addresses : Writes(r.text, a) <=> r.text.means = a

\* Whatever way an address is written, and whatever IPv6 form an IPv4 address is
\* wrapped in, it is read as that address and refused exactly if the documented list
\* or the operator's restricts it; and what is no address is not read as one.
LiteralJudged ==
  LET t == request.text
      restricted == Restricted(t.means) \/ Added(t.means)
  IN t.shape # "name" =>
       Parse(t, FALSE) =
         CASE t.means = <<>> -> Invalid
           [] t.means # <<>> /\ restricted -> Blocked
           [] OTHER -> [is |-> "address", address |-> t.means]

\* What the page and what the API make of a text.
Agrees(t, dns) ==
  LET v == ValidateDestination(t, "auto", dns)
      p == Parse(t, dns)
  IN /\ v # Refused /\ p.is \in {"address", "name"} => Parse(Sent(t), dns) = p
     /\ p.is \in {"address", "name"} /\ t.dots < 2 /\ t.len <= 253 => v = p

\* The page never stands in the way of what the API would take: it finds the same
\* address or name in a text, and what it sends is read as what was entered.  (Names
\* with several trailing dots and texts of 254 and 255 characters are left to the API.)
PageAgrees == Agrees(request.text, request.kind = "dns")

\* A tool is only ever started on an unrestricted address of the family asked for, and
\* for a name only if none of the addresses it was given with is restricted.
OnlyPublicProbed ==
  stage = "running" \/ raw # <<>> =>
    /\ ~Restricted(target)
    /\ Matches(target, request.family)
    /\ \A i \in DOMAIN found : ~Restricted(found[i])
    /\ found # <<>> => target \in ToSet(found)

\* Nothing internal is asked of the public resolvers, neither names nor restricted
\* addresses of hops, and none is told, in the hops or in the rendered text.
NothingInternal ==
  /\ \A q \in asked : IF q[1] = "PTR" THEN ~Restricted(q[2])
                      ELSE \A suffix \in DefaultBlockedSuffixes : ~IsSuffix(suffix, q[2])
  /\ answer.is = "hops" /\ Redact => \A i \in DOMAIN answer.hops :
       LET h == answer.hops[i]
       IN /\ h.address # <<>> => ~Restricted(h.address)
          /\ h.named => h.address # <<>>
          /\ Len(answer.text[i]) = 2 => answer.text[i][2] = h.address

\* What is restricted is neither reached nor learnt of: by no probe, no question and no
\* hop of an answer, whatever a name resolves to and whatever is on the path.
RestrictedUntouched == OnlyPublicProbed /\ NothingInternal

\* The addresses there are; and the paths of hops, each of at least one probe that is
\* answered by an address or lost.
Ips == [1..4 -> 0..255] \cup [1..16 -> 0..255]
Probes == [from : Seq(0..255), rtt : Nat, flag : BOOLEAN]
Hops == Seq(Probes) \ {<<>>}
PathsOfHops(addresses) == \A a \in addresses : Paths(a) \subseteq Seq(Hops)

\* The probes of a hop that were answered, and by whom first.
Answered(hop) == {k \in DOMAIN hop : hop[k].from # <<>>}
FirstRouter(hop) == hop[Min(Answered(hop))].from

HopShown(h, i, hop) ==
  /\ h.hop = i
  /\ h.rtts = [k \in DOMAIN hop |-> IF k \in Answered(hop) THEN hop[k].rtt ELSE NoTime]
  /\ h.responded = (Answered(hop) # {})
  /\ Answered(hop) # {} => (h.address = FirstRouter(hop) \/ (h.redacted /\ h.address = <<>>))

\* A traceroute shows the path the tool found: hop by hop in order, a time or a star
\* for every probe, the first router that answered (or that it is hidden), and that
\* the target was reached; if the output was cut short, all but the last hop do.
PathShown ==
  answer.is = "hops" /\ request.kind = "traceroute" =>
    LET n == Len(answer.hops)
    IN /\ n \in 1..Len(path) /\ (~cut => n = Len(path))
       /\ \A i \in 1..(IF cut THEN n - 1 ELSE n) : HopShown(answer.hops[i], i, path[i])
       /\ ~cut => answer.reached = (Answered(path[n]) # {} /\ FirstRouter(path[n]) = target)

\* Names are an extra: a name server that is slow, fails or has no answer never costs
\* the visitor a path that was found.
NamesCostNothing == stage = "done" /\ raw # <<>> => answer.is = "hops" \/ cancelled
==============================================================================
