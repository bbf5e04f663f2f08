------------------------ MODULE MCDiagnosticsPipeline ------------------------
(* The pipeline for TLC: every boundary of the documented ranges, plain and    *)
(* embedded, names and malformed texts, and a few of them with every kind of   *)
(* diagnostic, family and record type.                                         *)
EXTENDS DiagnosticsPipeline

Public4 == <<62, 115, 10, 1>>
Other4 == <<8, 8, 8, 8>>
Private4 == <<10, 0, 0, 1>>
Public6 == <<42, 1>> \o Zeros(13) \o <<1>>
Private6 == <<253>> \o Zeros(14) \o <<1>>

-----------------------------------------------------------------------------
(* Addresses: around both ends of every documented range and of two more.       *)

MCExtraCidrs == {Net4(<<62, 115, 200>>, 24), Net6(<<42, 4>>, 16)}

Filled(head, byte, n) == head \o [i \in 1..n - Len(head) |-> byte]

\* The neighbour of an address, by carrying through the bytes.
RECURSIVE Neighbour(_, _)
Neighbour(a, step) ==
  LET n == Len(a)
      v == a[n] + step
  IN IF v \in 0..255 THEN [a EXCEPT ![n] = v]
     ELSE IF n = 1 THEN [a EXCEPT ![1] = v % 256]
     ELSE Append(Neighbour(SubSeq(a, 1, n - 1), step), v % 256)

Around(ranges, n) ==
  UNION {LET first == Filled(Append(r[1], r[2]), 0, n)
             last == Filled(Append(r[1], r[3]), 255, n)
         IN {first, last, Neighbour(first, -1), Neighbour(last, 1)} : r \in ranges}

Boundaries ==
  Around(Documented4 \cup {<<<<62, 115, 200>>, 0, 255>>}, 4)
    \cup Around(Documented6 \cup {<<<<42, 4>>, 0, 255>>}, 16)

Wrapped ==
  UNION {{p \o a : p \in Prefixes4} \cup {<<32, 2>> \o a \o Zeros(10)} :
           a \in {b \in Boundaries : Len(b) = 4}}

Addresses == Boundaries \cup Wrapped \cup MetadataAddresses
               \cup {Public4, Other4, Private4, Public6, Private6}

-----------------------------------------------------------------------------
(* Texts                                                                      *)

Text(shape, len, means) ==
  [shape |-> shape, len |-> len, marks |-> {}, dots |-> 0, means |-> means, parts |-> <<>>,
   left |-> <<>>, gaps |-> 0, right |-> <<>>, tail |-> <<>>, labels |-> <<>>]

\* The longest of them has 15 characters, and no check tells shorter ones apart.
Text4(parts, means) == [Text("v4", 15, means) EXCEPT !.parts = parts]

\* An IPv6 address in full, with its longest run of zero groups from the k-th left out,
\* and with a dotted tail.
Text6(a) ==
  LET t == Text("v6", 39, a)
  IN {[t EXCEPT !.left = [i \in 1..8 |-> Group(a, i)]],
      [t EXCEPT !.left = [i \in 1..6 |-> Group(a, i)], !.tail = SubSeq(a, 13, 16)]}
     \cup {[t EXCEPT !.left = [i \in 1..k - 1 |-> Group(a, i)], !.gaps = 1,
                     !.right = [i \in 1..8 - m |-> Group(a, i + m)]] :
             <<k, m>> \in {km \in (1..8) \X (1..8) : km[1] <= km[2] /\
                             (\A i \in km[1]..km[2] : Group(a, i) = 0) /\
                             (km[1] > 1 => Group(a, km[1] - 1) # 0) /\ (km[2] < 8 => Group(a, km[2] + 1) # 0)}}

Literals ==
  {Text4([i \in 1..4 |-> Digits(a[i])], a) : a \in {b \in Addresses : Len(b) = 4}} \cup
  UNION {Text6(a) : a \in {b \in Addresses : Len(b) = 16}}

Plain(word) == [word |-> word, kind |-> "plain"]
Label(kind) == [word |-> kind, kind |-> kind]
Name(labels) == [Text("name", 20, <<>>) EXCEPT !.labels = labels]
Good == Name(<<Plain("geiseit"), Plain("net")>>)

Others == {
  Good, [Good EXCEPT !.dots = 1], [Good EXCEPT !.dots = 2],
  [Good EXCEPT !.len = 253], [Good EXCEPT !.len = 254], [Good EXCEPT !.len = 254, !.dots = 1],
  [Good EXCEPT !.len = 256], [Good EXCEPT !.len = 0],
  [Good EXCEPT !.marks = {"space"}], [Good EXCEPT !.marks = {"path"}],
  [Good EXCEPT !.marks = {"shell"}], [Good EXCEPT !.marks = {"nonascii"}],
  Name(<<Plain("db"), Plain("cluster"), Plain("local")>>), Name(<<Plain("nas"), Plain("home"), Plain("arpa")>>),
  Name(<<Plain("shop"), Plain("example")>>), Name(<<Plain("arpa"), Plain("home"), Plain("net")>>),
  Name(<<Plain("1"), Plain("in-addr"), Plain("arpa")>>), Name(<<Plain("localhost")>>),
  Name(<<Plain("geiseit")>>), Name(<<Label("under"), Plain("net")>>), Name(<<Plain("geiseit"), Label("under")>>),
  Name(<<Label("digits"), Plain("net")>>), Name(<<Plain("0x7f"), Label("digits")>>),
  Name(<<Label("edge"), Plain("net")>>), Name(<<Label("long"), Plain("net")>>),
  Name(<<Plain("geiseit"), Label("empty"), Plain("net")>>), Name(<<Plain("internal"), Plain("geiseit"), Plain("net")>>),
  Text4(<<<<1, 2, 7>>, <<1>>>>, <<>>), Text4(<<<<2, 1, 3, 0, 7, 0, 6, 4, 3, 3>>>>, <<>>),
  Text4(<<<<8>>, <<8>>, <<0, 8>>, <<8>>>>, <<>>), Text4(<<<<8>>, <<8>>, <<2, 5, 6>>, <<8>>>>, <<>>),
  Text4(<<<<8>>, <<8>>, <<>>, <<8>>>>, <<>>), Text4(<<<<8>>, <<8>>, <<8>>, <<8>>, <<8>>>>, <<>>),
  [Text("v6", 20, <<>>) EXCEPT !.left = <<10753, 1>>], [Text("v6", 20, <<>>) EXCEPT !.left = <<10753>>, !.gaps = 2],
  [Text("v6", 20, <<>>) EXCEPT !.left = <<65536>>, !.gaps = 1],
  [Text("v6", 20, <<>>) EXCEPT !.left = [i \in 1..8 |-> i], !.gaps = 1],
  [Text("v6", 20, <<>>) EXCEPT !.left = <<10753>>, !.gaps = 1, !.marks = {"shell"}],
  [Text("v6", 46, <<>>) EXCEPT !.left = [i \in 1..8 |-> 4096], !.len = 46]}

Req(kind, text, family, recordType) ==
  [kind |-> kind, text |-> text, family |-> family, recordType |-> recordType]

Of4(a) == Text4([i \in 1..4 |-> Digits(a[i])], a)
Of6(a) == [Text("v6", 39, a) EXCEPT !.left = [i \in 1..8 |-> Group(a, i)]]

MCRequests ==
  {Req("ping", t, "auto", "none") : t \in Literals \cup Others} \cup
  {Req(kind, t, family, "none") : kind \in {"ping", "traceroute", "mtr"},
     t \in {Good, Of4(Public4), Of6(Public6)}, family \in {"auto", "ipv4", "ipv6"}} \cup
  {Req("dns", t, "auto", type) : t \in Others \cup {Of4(Public4), Of4(Private4), Of6(Public6)},
     type \in {"none", "A", "PTR", "ANY"}}

MCRecords ==
  {[A |-> four, AAAA |-> six] :
     four \in {<<>>, <<Public4>>, <<Public4, Private4>>, <<Private4, Other4>>, <<Other4, Public4>>},
     six \in {<<>>, <<Public6>>, <<Private6>>}}

-----------------------------------------------------------------------------
(* Paths                                                                      *)

Lost == [from |-> <<>>, rtt |-> 0, flag |-> FALSE]
At(a, t) == [from |-> a, rtt |-> t, flag |-> FALSE]
Unreachable(a, t) == [from |-> a, rtt |-> t, flag |-> TRUE]

\* A private hop, one that answers late and through two routers, a silent one, and an
\* end that is the target or a router without a route to it.
MCPaths(a) ==
  LET near == IF IsV6(a) THEN Private6 ELSE Private4
      far == IF IsV6(a) THEN <<42, 2>> \o Zeros(14) ELSE <<62, 115, 101, 9>>
      wide == IF IsV6(a) THEN <<42, 3>> \o Zeros(14) ELSE <<62, 115, 102, 9>>
  IN {<<<<At(near, 1), At(near, 2)>>, <<Lost, At(far, 3)>>, <<At(a, 4), At(a, 5)>>>>,
      <<<<At(near, 1), Lost>>, <<Lost, Lost>>, <<At(far, 3), At(wide, 2)>>>>,
      <<<<At(far, 1), At(near, 1)>>, <<Unreachable(wide, 3), Unreachable(wide, 4)>>>>}

ASSUME PathsAssumption == PathsOfHops(Addresses)

ASSUME TextsAssumption == Meant(Addresses)
=============================================================================
