---------------------------- MODULE WriterProofs ----------------------------
(***************************************************************************)
(* Theorems about write_output, for summaries of any size, all options and *)
(* a device that may refuse from any line on.                              *)
(***************************************************************************)
EXTENDS OutputWriter, ReportProofs

Fresh ==
  writer = "open" =>
    /\ printed = 0 /\ stream_good = TRUE /\ written = "no"
    /\ file = OldContents /\ screen = <<>>

OtherUntouched ==
  /\ ~ToAFile => file = OldContents
  /\ ToAFile => screen = <<>>
  /\ written = "false" => file = OldContents /\ screen = <<>>

(* The destination holds the first lines, and all that were printed while  *)
(* the stream was good.                                                    *)
Progress ==
  writer # "open" /\ written # "false" =>
    \E k \in 0 .. printed :
      /\ Written = SubSeq(Lines, 1, k)
      /\ stream_good => k = printed

WriterTypes ==
  /\ writer \in {"open", "print", "done"} /\ written \in {"no", "true", "false"}
  /\ printed \in 0 .. Len(Lines) /\ stream_good \in BOOLEAN
  /\ writer = "print" => written = "no"
  /\ writer = "done" => written # "no"
  /\ written = "true" => printed = Len(Lines)

WriterInv ==
  /\ summary \in ScanSummaries(Characters) /\ options.format \in {"Text", "Xml"}
  /\ WriterTypes /\ Fresh /\ OtherUntouched /\ Progress

(* The report of the arguments is a sequence.                              *)
LEMMA LinesAreSequence ==
  ASSUME summary \in ScanSummaries(Characters)
  PROVE  IsSequence(Lines) /\ Len(Lines) \in Nat
<1>2. summary \in SummariesOf(Seq(PortNumbers), Characters)
  BY DEF ScanSummaries, SummariesOf
<1>3. IsSequence(Lines) BY <1>2, ReportIsSequence DEF Lines
<1> QED BY <1>3 DEF IsSequence

(* One more line continues a prefix.                                       *)
LEMMA PrefixGrows ==
  ASSUME NEW lines, IsSequence(lines), NEW k \in Nat, k < Len(lines)
  PROVE  Append(SubSeq(lines, 1, k), lines[k + 1]) = SubSeq(lines, 1, k + 1)
<1>1. PICK V : lines \in Seq(V) BY DEF IsSequence
<1> QED BY <1>1

(* The invariant holds when write_output is called.                        *)
LEMMA WriterInitInv == WriterInit => WriterInv
<1> SUFFICES ASSUME WriterInit PROVE WriterInv OBVIOUS
<1>1. /\ summary \in ScanSummaries(Characters) /\ options.format \in {"Text", "Xml"}
      /\ WriterStart
  BY WriterAssumption DEF WriterInit
<1>2. Len(Lines) \in Nat BY <1>1, LinesAreSequence
<1> QED
  BY <1>1, <1>2
  DEF WriterStart, WriterInv, WriterTypes, Fresh, OtherUntouched, Progress

(* While the arguments stay so does the report.                            *)
LEMMA SameReport ==
  ASSUME UNCHANGED argVars
  PROVE  Lines' = Lines /\ (ToAFile' <=> ToAFile) /\ summary' = summary /\ options' = options
BY DEF argVars, Lines, ToAFile

(* Choosing default_out keeps the invariant.                               *)
LEMMA UseDefaultOutInv == WriterInv /\ UseDefaultOut => WriterInv'
<1> SUFFICES ASSUME WriterInv, UseDefaultOut PROVE WriterInv' OBVIOUS
<1>1. UNCHANGED argVars BY DEF UseDefaultOut
<1>2. SubSeq(Lines, 1, 0) = <<>> BY SubSeqEmpty
<1>3. Progress'
  <2>1. printed' = 0 /\ screen' = <<>> BY DEF UseDefaultOut, WriterInv, Fresh
  <2>2. Written' = <<>> BY <1>1, <2>1, SameReport DEF Written, UseDefaultOut
  <2> QED BY <1>1, <1>2, <2>1, <2>2, SameReport DEF Progress
<1> QED
  BY <1>1, <1>3, SameReport DEF UseDefaultOut, WriterInv, WriterTypes, Fresh, OtherUntouched

(* Opening the file, which empties it, keeps the invariant.                *)
LEMMA OpenFileInv == WriterInv /\ OpenFile => WriterInv'
<1> SUFFICES ASSUME WriterInv, OpenFile PROVE WriterInv' OBVIOUS
<1>1. UNCHANGED argVars BY DEF OpenFile
<1>2. SubSeq(Lines, 1, 0) = <<>> BY SubSeqEmpty
<1>3. Progress'
  <2>1. printed' = 0 /\ file' = <<>> BY DEF OpenFile, Truncate, WriterInv, Fresh
  <2>2. Written' = <<>> BY <1>1, <2>1, SameReport DEF Written, OpenFile
  <2> QED BY <1>1, <1>2, <2>1, <2>2, SameReport DEF Progress
<1> QED
  BY <1>1, <1>3, SameReport
  DEF OpenFile, Truncate, WriterInv, WriterTypes, Fresh, OtherUntouched

(* A file that cannot be opened keeps the invariant.                       *)
LEMMA OpenFailsInv == WriterInv /\ OpenFails => WriterInv'
<1> SUFFICES ASSUME WriterInv, OpenFails PROVE WriterInv' OBVIOUS
<1>1. UNCHANGED argVars BY DEF OpenFails
<1> QED
  BY <1>1, SameReport
  DEF OpenFails, WriterInv, WriterTypes, Fresh, OtherUntouched, Progress

(* A line that is taken continues the prefix; one that is dropped ends the *)
(* time in which the stream was good.                                      *)
LEMMA PrintLineInv == WriterInv /\ PrintLine => WriterInv'
<1> SUFFICES ASSUME WriterInv, PrintLine PROVE WriterInv' OBVIOUS
<1>1. UNCHANGED argVars BY DEF PrintLine
<1>2. /\ IsSequence(Lines) /\ Len(Lines) \in Nat /\ printed \in Nat /\ printed < Len(Lines)
      /\ printed' = printed + 1 /\ writer = "print" /\ writer' = "print"
      /\ written = "no" /\ written' = "no"
  BY LinesAreSequence DEF WriterInv, WriterTypes, PrintLine, Advanced
<1>3. PICK k \in 0 .. printed : Written = SubSeq(Lines, 1, k) /\ (stream_good => k = printed)
  BY <1>2 DEF WriterInv, Progress
<1>4. stream_good \in BOOLEAN /\ stream_good' \in {stream_good, FALSE}
  BY DEF WriterInv, WriterTypes, PrintLine
<1>5. WriterTypes' /\ Fresh'
  <2>1. stream_good' \in BOOLEAN BY <1>4, Zenon
  <2>2. printed' \in 0 .. Len(Lines') BY <1>1, <1>2, SameReport
  <2> QED BY <1>2, <2>1, <2>2 DEF WriterTypes, Fresh
<1>6. CASE stream_good'
  <2>1. stream_good BY <1>4, <1>6
  <2>2. ToActiveStream(Lines[printed + 1]) BY <1>6 DEF PrintLine
  <2>3. Written' = Append(Written, Lines[printed + 1])
    BY <1>1, <2>2, SameReport DEF Written, ToActiveStream
  <2>4. Written' = SubSeq(Lines, 1, printed + 1)
    BY <1>2, <1>3, <2>1, <2>3, PrefixGrows
  <2>5. Progress' BY <1>1, <1>2, <2>4, SameReport DEF Progress
  <2>6. OtherUntouched'
    BY <1>1, <1>2, <2>2, SameReport DEF WriterInv, OtherUntouched, ToActiveStream
  <2> QED BY <1>1, <1>5, <2>5, <2>6, SameReport DEF WriterInv
<1>7. CASE ~stream_good'
  <2>1. UNCHANGED <<file, screen>> BY <1>7 DEF PrintLine
  <2>2. Written' = Written BY <1>1, <2>1, SameReport DEF Written
  <2>3. k \in 0 .. printed' BY <1>2
  <2>4. Progress' BY <1>1, <1>3, <1>7, <2>2, <2>3, SameReport DEF Progress
  <2>5. OtherUntouched' BY <1>1, <1>2, <2>1, SameReport DEF WriterInv, OtherUntouched
  <2> QED BY <1>1, <1>5, <2>4, <2>5, SameReport DEF WriterInv
<1> QED BY <1>6, <1>7

(* Returning keeps the invariant.                                          *)
LEMMA ReturnInv == WriterInv /\ Return => WriterInv'
<1> SUFFICES ASSUME WriterInv, Return PROVE WriterInv' OBVIOUS
<1>1. UNCHANGED argVars BY DEF Return
<1>2. Written' = Written BY <1>1, SameReport DEF Written, Return
<1>3. Progress' BY <1>1, <1>2, SameReport DEF Return, WriterInv, WriterTypes, Progress
<1> QED
  BY <1>1, <1>3, SameReport DEF Return, WriterInv, WriterTypes, Fresh, OtherUntouched

(* So does a step of no variable.                                          *)
LEMMA WriterStutter == WriterInv /\ UNCHANGED writerVars => WriterInv'
<1> SUFFICES ASSUME WriterInv, UNCHANGED writerVars PROVE WriterInv' OBVIOUS
<1>1. UNCHANGED argVars BY DEF writerVars, argVars
<1>2. Written' = Written BY <1>1, SameReport DEF Written, writerVars
<1>3. Progress' BY <1>1, <1>2, SameReport DEF writerVars, WriterInv, Progress
<1> QED
  BY <1>1, <1>3, SameReport DEF writerVars, WriterInv, WriterTypes, Fresh, OtherUntouched

(* Every step of write_output keeps the invariant.                         *)
LEMMA WriterStepInv == WriterInv /\ WriterStep => WriterInv'
BY UseDefaultOutInv, OpenFileInv, OpenFailsInv, PrintLineInv, ReturnInv DEF WriterStep

(* The invariant holds in every reachable state.                           *)
LEMMA WriterInvHolds == WriterSpec => []WriterInv
<1>1. WriterInv /\ [WriterNext]_writerVars => WriterInv'
  BY WriterStepInv, WriterStutter DEF WriterNext
<1> QED BY WriterInitInv, <1>1, PTL DEF WriterSpec

(* A report that was taken whole is the report.                            *)
LEMMA WholeIsReport == WriterInv /\ Whole => Written = Lines
<1> SUFFICES ASSUME WriterInv, Whole PROVE Written = Lines OBVIOUS
<1>1. Written = SubSeq(Lines, 1, Len(Lines))
  BY DEF WriterInv, WriterTypes, Whole, Progress
<1>2. PICK V : Lines \in Seq(V) BY LinesAreSequence DEF WriterInv, IsSequence
<1> QED BY <1>1, <1>2, SubSeqFull

(* What the invariant says of the two destinations.                        *)
LEMMA InOrderByInv == WriterInv => WrittenInOrder
<1> SUFFICES ASSUME WriterInv PROVE WrittenInOrder OBVIOUS
<1>1. OtherUntouched BY DEF WriterInv
<1>2. ASSUME writer # "open", written # "false" PROVE IsPrefix(Written, Lines)
  <2>1. PICK k \in 0 .. printed : Written = SubSeq(Lines, 1, k)
    BY <1>2 DEF WriterInv, Progress
  <2>2. PICK V : Lines \in Seq(V) BY LinesAreSequence DEF WriterInv, IsSequence
  <2>3. k \in 0 .. Len(Lines) BY LinesAreSequence DEF WriterInv, WriterTypes
  <2>4. Written \in Seq(V) /\ Len(Written) = k BY <2>1, <2>2, <2>3
  <2>5. SubSeq(Written, 1, Len(Written)) = Written BY <2>4, SubSeqFull
  <2> QED BY <2>1, <2>3, <2>4, <2>5 DEF IsPrefix
<1>3. Whole => Written = Lines BY WholeIsReport
<1> QED BY <1>1, <1>2, <1>3 DEF WrittenInOrder, OtherUntouched

(* The destination holds the beginning of the report, and all of it when   *)
(* the device took it; nothing else is touched.                            *)
THEOREM WriterInOrder == WriterSpec => []WrittenInOrder
BY InOrderByInv, WriterInvHolds, PTL

(* The elements of an XML report.                                          *)
Names == {"asioscan", "host", "ports", "port"}

(* The elements that are open after each line, and none closes the root.   *)
Nesting(f, lines, open) ==
  /\ f \in [0 .. Len(lines) -> Seq(Names)] /\ f[0] = <<>>
  /\ \A i \in 1 .. Len(lines) : f[i] = AfterTag(f[i - 1], lines[i]) /\ f[i] # <<>>
  /\ f[Len(lines)] = open
Nested(lines, open) == \E f : Nesting(f, lines, open)

(* One more line that does not close the root.                             *)
LEMMA NestedLine ==
  ASSUME NEW V, NEW lines \in Seq(V), NEW l \in V, NEW open, Nested(lines, open),
         NEW next \in Seq(Names), next = AfterTag(open, l), next # <<>>
  PROVE  Nested(Append(lines, l), next)
<1> DEFINE more == Append(lines, l)
           n == Len(lines)
<1>1. PICK f : Nesting(f, lines, open) BY DEF Nested
<1>2. /\ more \in Seq(V) /\ Len(more) = n + 1 /\ n \in Nat /\ more[n + 1] = l
      /\ \A i \in 1 .. n : more[i] = lines[i]
  BY AppendProperties
<1> HIDE DEF more
<1>3. /\ f \in [0 .. n -> Seq(Names)] /\ f[0] = <<>> /\ f[n] = open
      /\ \A i \in 1 .. n : f[i] = AfterTag(f[i - 1], lines[i]) /\ f[i] # <<>>
  BY <1>1 DEF Nesting
<1> DEFINE g == [i \in 0 .. (n + 1) |-> IF i = n + 1 THEN next ELSE f[i]]
<1>4. /\ g \in [0 .. (n + 1) -> Seq(Names)] /\ g[n + 1] = next
      /\ \A i \in 0 .. n : g[i] = f[i]
  <2>1. \A i \in 0 .. (n + 1) : g[i] \in Seq(Names)
    <3> TAKE i \in 0 .. (n + 1)
    <3>1. CASE i = n + 1 BY <3>1
    <3>2. CASE i # n + 1
      <4>1. i \in 0 .. n BY <1>2, <3>2
      <4> QED BY <1>3, <3>2, <4>1
    <3> QED BY <3>1, <3>2
  <2> QED BY <1>2, <2>1
<1> HIDE DEF g, n
<1>5. g[0] = <<>>
  <2>1. 0 \in 0 .. n BY <1>2
  <2>2. g[0] = f[0] BY <1>4, <2>1
  <2> QED BY <1>3, <2>2
<1>6. ASSUME NEW i \in 1 .. (n + 1) PROVE g[i] = AfterTag(g[i - 1], more[i]) /\ g[i] # <<>>
  <2>1. CASE i = n + 1
    <3>1. n \in 0 .. n /\ (n + 1) - 1 = n BY <1>2
    <3>2. g[n] = open BY <1>3, <1>4, <3>1
    <3> QED BY <1>2, <1>4, <2>1, <3>1, <3>2
  <2>2. CASE i # n + 1
    <3>1. i \in 1 .. n /\ i \in 0 .. n /\ i - 1 \in 0 .. n BY <1>2, <2>2
    <3> QED BY <1>2, <1>3, <1>4, <3>1
  <2> QED BY <2>1, <2>2
<1>7. Nesting(g, more, next) BY <1>2, <1>4, <1>5, <1>6 DEF Nesting
<1> QED BY <1>7 DEF Nested, more

(* A line that is not a tag leaves the elements open.                      *)
LEMMA NestedOther ==
  ASSUME NEW V, NEW lines \in Seq(V), NEW l \in V, l[1] = "empty",
         NEW open \in Seq(Names), open # <<>>, Nested(lines, open)
  PROVE  Nested(Append(lines, l), open)
<1>1. open = AfterTag(open, l) BY DEF AfterTag
<1> QED BY <1>1, NestedLine

(* A begin tag opens its element.                                          *)
LEMMA NestedBegin ==
  ASSUME NEW V, NEW lines \in Seq(V), NEW l \in V, l[1] = "begin", l[2] \in Names,
         NEW open \in Seq(Names), Nested(lines, open)
  PROVE  /\ Nested(Append(lines, l), Append(open, l[2]))
         /\ Append(open, l[2]) \in Seq(Names) /\ Append(open, l[2]) # <<>>
<1> DEFINE N == Names
           name == l[2]
           next == Append(open, name)
<1>1. open \in Seq(N) /\ name \in N OBVIOUS
<1>2. next = AfterTag(open, l) BY DEF AfterTag
<1> HIDE DEF N, name
<1>3. next \in Seq(N) /\ next # <<>> BY <1>1
<1> HIDE DEF next
<1>4. Nested(Append(lines, l), next) BY <1>2, <1>3, NestedLine DEF N
<1> QED BY <1>3, <1>4 DEF next, name, N

(* An end tag closes the element that was opened last.                     *)
LEMMA NestedEnd ==
  ASSUME NEW V, NEW lines \in Seq(V), NEW l \in V, NEW name \in Names,
         l[1] = "end", l[2] = name,
         NEW open \in Seq(Names), open # <<>>, Nested(lines, Append(open, name))
  PROVE  Nested(Append(lines, l), open)
<1> DEFINE N == Names
           inner == Append(open, name)
<1>1. open \in Seq(N) /\ name \in N OBVIOUS
<1> HIDE DEF N
<1>2. inner # <<>> /\ inner \in Seq(N) /\ Len(inner) = Len(open) + 1 /\ inner[Len(open) + 1] = name
  BY <1>1
<1>3. Front(inner) = open /\ Last(inner) = name BY <1>1 DEF Front, Last
<1> HIDE DEF inner
<1>4. AfterTag(inner, l) = open BY <1>2, <1>3 DEF AfterTag
<1>5. Nested(lines, inner) BY DEF inner
<1> QED BY <1>4, <1>5, NestedLine

(* The element of a port.                                                  *)
LEMMA NestedPort ==
  ASSUME NEW Char, NEW V, XmlBody(Char) \subseteq V, NEW lines \in Seq(V),
         NEW open \in Seq(Names), open # <<>>, Nested(lines, open),
         NEW r \in PortResults(Char)
  PROVE  Nested(lines \o XmlPort(r), open)
<1> DEFINE text == escape_xml(r.reason)
           first == <<"begin", "port", r.port>>
           second == <<"empty", "state", r.state, text>>
           third == <<"end", "port">>
           one == Append(lines, first)
           two == Append(one, second)
           three == Append(two, third)
           inner == Append(open, "port")
<1>1. /\ r.port \in PortNumbers /\ r.state \in PortStates /\ r.reason \in Seq(Char)
  BY DEF PortResults
<1>2. first \in V /\ second \in V /\ third \in V
  <2>1. text \in Seq(Escaped(Char)) BY <1>1, EscapeType
  <2> HIDE DEF text
  <2>2. first \in XmlBody(Char) BY <1>1 DEF XmlBody
  <2>3. second \in XmlBody(Char) BY <1>1, <2>1 DEF XmlBody
  <2>4. third \in XmlBody(Char) BY TagsType DEF Tag
  <2> QED BY <2>2, <2>3, <2>4
<1>3. /\ first[1] = "begin" /\ first[2] = "port" /\ second[1] = "empty"
      /\ third[1] = "end" /\ third[2] = "port" /\ "port" \in Names
  BY DEF Names
<1>4. XmlPort(r) = <<first, second, third>> BY DEF XmlPort
<1> HIDE DEF first, second, third, text
<1>5. one \in Seq(V) /\ two \in Seq(V) BY <1>2, AppendType
<1>6. lines \o XmlPort(r) = three BY <1>2, <1>4, AppendThree
<1>7. Nested(one, inner) /\ inner \in Seq(Names) /\ inner # <<>>
  BY <1>2, <1>3, NestedBegin
<1> HIDE DEF one, inner
<1>8. Nested(two, inner) BY <1>2, <1>3, <1>5, <1>7, NestedOther
<1> HIDE DEF two
<1>9. Nested(three, open)
  <2>1. Nested(two, Append(open, "port")) BY <1>8 DEF inner
  <2> QED BY <1>2, <1>3, <1>5, <2>1, NestedEnd
<1> QED BY <1>6, <1>9

(* A block of lines that closes what it opens.                             *)
Keeps(block, open, V) ==
  \A lines \in Seq(V) : Nested(lines, open) => Nested(lines \o block, open)

(* So do blocks one after the other.                                       *)
LEMMA KeepsFlattened ==
  ASSUME NEW V, NEW blocks \in Seq(Seq(V)), NEW open,
         \A i \in 1 .. Len(blocks) : Keeps(blocks[i], open, V)
  PROVE  Keeps(FlattenSeq(blocks), open, V)
<1> SUFFICES ASSUME NEW lines \in Seq(V), Nested(lines, open)
             PROVE  Nested(lines \o FlattenSeq(blocks), open)
  BY DEF Keeps
<1> DEFINE n == Len(blocks)
<1>1. PICK flat : Flattening(flat, blocks, V) BY FlattenPrefixes
<1>2. n \in Nat OBVIOUS
<1>3. /\ flat[0] = <<>> /\ \A i \in 1 .. n : flat[i] = flat[i - 1] \o blocks[i]
      /\ \A i \in 0 .. n : flat[i] \in Seq(V)
      /\ FlattenSeq(blocks) = flat[n]
  BY <1>1, Zenon DEF Flattening
<1> DEFINE S == {k \in 0 .. n : Nested(lines \o flat[k], open)}
<1>4. 0 \in S
  <2>1. lines \o flat[0] = lines BY <1>3, ConcatEmptySeq
  <2>2. Nested(lines \o flat[0], open) BY <2>1, Zenon
  <2>3. 0 \in 0 .. n BY <1>2
  <2> QED BY <2>2, <2>3, Zenon
<1>5. ASSUME NEW k \in 0 .. (n - 1), k \in S PROVE k + 1 \in S
  <2> DEFINE before == flat[k]
             block == blocks[k + 1]
             some == lines \o before
  <2>1. k + 1 \in 1 .. n /\ (k + 1) - 1 = k /\ k \in 0 .. n /\ k + 1 \in 0 .. n BY <1>2
  <2>2. before \in Seq(V) /\ flat[k + 1] = before \o block BY <1>3, <2>1
  <2>3. block \in Seq(V) BY <2>1
  <2>4. Keeps(block, open, V) BY <2>1
  <2>5. Nested(some, open) BY <1>5, Zenon
  <2>6. some \in Seq(V) BY <2>2, ConcatProperties
  <2> HIDE DEF before, block, some, S, n
  <2>7. Nested(some \o block, open) BY <2>4, <2>5, <2>6 DEF Keeps
  <2>8. Cat(Cat(lines, before), block) = Cat(lines, Cat(before, block)) BY <2>2, <2>3, Chain
  <2>9. some \o block = lines \o flat[k + 1] BY <2>2, <2>8 DEF Cat, some
  <2>10. Nested(lines \o flat[k + 1], open) BY <2>7, <2>9, Zenon
  <2> QED BY <2>1, <2>10, Zenon DEF S
<1> HIDE DEF S
<1>6. n \in S
  <2>1. \A k \in 0 .. (n - 1) : k \in S => k + 1 \in S BY <1>5
  <2>2. \A k \in 0 .. n : k \in S BY <1>2, <1>4, <2>1, Induct
  <2> QED BY <1>2, <2>2
<1>7. Nested(lines \o flat[n], open) BY <1>6, Zenon DEF S
<1> QED BY <1>3, <1>7

(* The elements of the ports of a host.                                    *)
LEMMA KeepsPorts ==
  ASSUME NEW Char, NEW V, XmlBody(Char) \subseteq V, NEW open \in Seq(Names), open # <<>>,
         NEW h \in HostResults(Char)
  PROVE  Keeps(EachOf(XmlPort, h.ports), open, V)
<1> DEFINE blocks == PortBlocks(h)
           ports == h.ports
           n == Len(ports)
<1>1. ports \in Seq(PortResults(Char)) /\ n \in Nat /\ DOMAIN ports = 1 .. n BY DEF HostResults
<1>2. blocks \in Seq(Seq(V)) /\ EachOf(XmlPort, h.ports) = FlattenSeq(blocks)
  <2>1. blocks \in Seq(Seq(XmlBody(Char))) /\ EachOf(XmlPort, h.ports) = FlattenSeq(blocks)
    BY XmlPortsType
  <2> HIDE DEF blocks
  <2> QED BY <2>1
<1>3. Len(blocks) = n /\ \A i \in 1 .. n : blocks[i] = XmlPort(ports[i])
  BY <1>1 DEF PortBlocks
<1>4. ASSUME NEW i \in 1 .. n PROVE Keeps(blocks[i], open, V)
  <2> DEFINE r == ports[i]
             block == blocks[i]
  <2>1. r \in PortResults(Char) /\ block = XmlPort(r) BY <1>1, <1>3
  <2> HIDE DEF r, block
  <2>2. Keeps(XmlPort(r), open, V) BY <2>1, NestedPort DEF Keeps
  <2> QED BY <2>1, <2>2 DEF block
<1> HIDE DEF blocks, n
<1>5. Keeps(FlattenSeq(blocks), open, V) BY <1>2, <1>3, <1>4, KeepsFlattened
<1> QED BY <1>2, <1>5

(* The element of a host.                                                  *)
LEMMA KeepsHost ==
  ASSUME NEW Char, NEW V, XmlBody(Char) \subseteq V, NEW open \in Seq(Names), open # <<>>,
         NEW h \in HostResults(Char)
  PROVE  Keeps(XmlHost(h), open, V)
<1> SUFFICES ASSUME NEW lines \in Seq(V), Nested(lines, open)
             PROVE  Nested(lines \o XmlHost(h), open)
  BY DEF Keeps
<1> DEFINE opening == <<"begin", "host">>
           address == AddressLine(h)
           closing == <<"end", "host">>
           listing == <<"begin", "ports">>
           listed == <<"end", "ports">>
           ports == EachOf(XmlPort, h.ports)
           inner == Append(open, "host")
           innermost == Append(inner, "ports")
<1>1. /\ opening \in V /\ closing \in V /\ listing \in V /\ listed \in V
  <2>1. /\ opening \in XmlBody(Char) /\ closing \in XmlBody(Char)
        /\ listing \in XmlBody(Char) /\ listed \in XmlBody(Char)
    BY TagsType DEF Tag
  <2> QED BY <2>1
<1>2. address \in V /\ address[1] = "empty"
  <2>1. escape_xml(h.host) \in Seq(Escaped(Char)) BY EscapeType DEF HostResults
  <2>2. address \in XmlBody(Char) BY <2>1 DEF AddressLine, XmlBody
  <2>3. address[1] = "empty" BY DEF AddressLine
  <2> QED BY <2>2, <2>3
<1>3. /\ opening[1] = "begin" /\ opening[2] = "host" /\ closing[1] = "end" /\ closing[2] = "host"
      /\ listing[1] = "begin" /\ listing[2] = "ports" /\ listed[1] = "end" /\ listed[2] = "ports"
      /\ "host" \in Names /\ "ports" \in Names
  BY DEF Names
<1>4. ports \in Seq(V)
  <2>1. ports \in Seq(XmlBody(Char)) BY XmlPortsType, FlattenType
  <2> HIDE DEF ports
  <2> QED BY <2>1, LargerSet
<1>6. XmlHost(h) = <<opening, address>> \o XmlPorts(h) \o <<closing>>
  BY DEF XmlHost, AddressLine
<1>7. XmlPorts(h) = IF h.ports = <<>> THEN <<>> ELSE <<listing>> \o ports \o <<listed>>
  BY DEF XmlPorts
<1> HIDE DEF opening, address, closing, listing, listed, ports
<1> DEFINE first == Append(lines, opening)
           second == Append(first, address)
<1>8. /\ Nested(first, inner) /\ inner \in Seq(Names) /\ inner # <<>>
  BY <1>1, <1>3, NestedBegin
<1>9. second = lines \o <<opening, address>> BY <1>1, <1>2
<1>10. first \in Seq(V) /\ second \in Seq(V) BY <1>1, <1>2, AppendType
<1> HIDE DEF first, inner
<1>11. Nested(second, inner) BY <1>2, <1>8, <1>10, NestedOther
<1> HIDE DEF second
<1>12. Nested(second \o XmlPorts(h), inner)
  <2>1. CASE h.ports = <<>>
    <3>1. second \o <<>> = second BY <1>10, ConcatEmptySeq
    <3> QED BY <1>7, <1>11, <2>1, <3>1
  <2>2. CASE h.ports # <<>>
    <3> DEFINE third == Append(second, listing)
    <3>1. /\ Nested(third, innermost) /\ innermost \in Seq(Names) /\ innermost # <<>>
          /\ third \in Seq(V)
      BY <1>1, <1>3, <1>8, <1>10, <1>11, NestedBegin, AppendType
    <3> HIDE DEF third, innermost
    <3>2. Keeps(ports, innermost, V) BY <3>1, KeepsPorts DEF ports
    <3> DEFINE fourth == third \o ports
    <3>3. Nested(fourth, innermost) BY <3>1, <3>2 DEF Keeps
    <3>4. fourth \in Seq(V) BY <1>4, <3>1, ConcatProperties
    <3> HIDE DEF fourth
    <3>5. Nested(Append(fourth, listed), inner)
      <4>1. Nested(fourth, Append(inner, "ports")) BY <3>3 DEF innermost
      <4> QED BY <1>1, <1>3, <1>8, <3>4, <4>1, NestedEnd
    <3>6. Append(fourth, listed) = second \o (<<listing>> \o ports \o <<listed>>)
      <4>1. third = second \o <<listing>> BY <1>1, <1>10, AppendIsConcat DEF third
      <4>2. Append(fourth, listed) = fourth \o <<listed>>
        BY <1>1, <3>4, AppendIsConcat
      <4> DEFINE one == <<listing>>
                 last == <<listed>>
      <4>3. one \in Seq(V) /\ last \in Seq(V) BY <1>1
      <4> HIDE DEF one, last
      <4> DEFINE mid == Cat(one, ports)
      <4>4. mid \in Seq(V) BY <1>4, <4>3, ConcatProperties DEF Cat
      <4>5. Cat(Cat(second, one), ports) = Cat(second, Cat(one, ports))
        BY <1>4, <1>10, <4>3, Chain
      <4> HIDE DEF mid
      <4>6. Cat(Cat(second, mid), last) = Cat(second, Cat(mid, last))
        BY <1>10, <4>3, <4>4, Chain
      <4> QED BY <4>1, <4>2, <4>5, <4>6 DEF Cat, mid, one, last, fourth
    <3> QED BY <1>7, <2>2, <3>5, <3>6
  <2> QED BY <2>1, <2>2
<1>13. XmlPorts(h) \in Seq(V)
  <2>1. XmlPorts(h) \in Seq(XmlBody(Char)) BY XmlPortsType
  <2> QED BY <2>1, LargerSet
<1> DEFINE all == second \o XmlPorts(h)
<1>14. all \in Seq(V) BY <1>10, <1>13, ConcatProperties
<1>15. Append(all, closing) = lines \o XmlHost(h)
  <2> DEFINE head == <<opening, address>>
             last == <<closing>>
             body == XmlPorts(h)
  <2>1. head \in Seq(V) /\ last \in Seq(V) BY <1>1, <1>2
  <2>2. Append(all, closing) = all \o last BY <1>1, <1>14, AppendIsConcat
  <2>3. second = lines \o head BY <1>9
  <2>4. body \in Seq(V) BY <1>13
  <2>5. XmlHost(h) = (head \o body) \o last BY <1>6
  <2>6. all = second \o body OBVIOUS
  <2> HIDE DEF head, last, body, all
  <2> DEFINE mid == Cat(head, body)
  <2>7. mid \in Seq(V) BY <2>1, <2>4, ConcatProperties DEF Cat
  <2>8. Cat(Cat(lines, head), body) = Cat(lines, Cat(head, body)) BY <2>1, <2>4, Chain
  <2> HIDE DEF mid
  <2>9. Cat(Cat(lines, mid), last) = Cat(lines, Cat(mid, last)) BY <2>1, <2>7, Chain
  <2> QED BY <2>2, <2>3, <2>5, <2>6, <2>8, <2>9 DEF Cat, mid
<1> HIDE DEF all
<1>16. Nested(Append(all, closing), open)
  <2>1. Nested(all, Append(open, "host")) BY <1>12 DEF all, inner
  <2> QED BY <1>1, <1>3, <1>14, <2>1, NestedEnd
<1> QED BY <1>15, <1>16

(* What is open after each line, the root closed or not.                   *)
Opens(f, w) ==
  /\ f[0] = <<>> /\ f = [i \in 0 .. Len(w) |-> f[i]]
  /\ \A i \in 1 .. Len(w) : f[i] = AfterTag(f[i - 1], w[i])

(* The open elements of the definition, line after line.                   *)
LEMMA OpenElementsAre ==
  ASSUME NEW V, NEW w \in Seq(V), NEW f, Opens(f, w)
  PROVE  \A i \in 0 .. Len(w) : OpenElements(w)[i] = f[i]
<1> DEFINE n == Len(w)
           Defined(g) == g = [i \in 0 .. n |-> IF i = 0 THEN <<>> ELSE AfterTag(g[i - 1], w[i])]
           g == CHOOSE g : Defined(g)
<1>1. /\ n \in Nat /\ f[0] = <<>> /\ f = [i \in 0 .. n |-> f[i]]
      /\ \A i \in 1 .. n : f[i] = AfterTag(f[i - 1], w[i])
  BY DEF Opens
<1>2. Defined(f)
  <2>1. \A i \in 0 .. n : f[i] = IF i = 0 THEN <<>> ELSE AfterTag(f[i - 1], w[i])
    <3> TAKE i \in 0 .. n
    <3>1. CASE i = 0 BY <1>1, <3>1
    <3>2. CASE i # 0
      <4>1. i \in 1 .. n BY <1>1, <3>2
      <4> QED BY <1>1, <3>2, <4>1
    <3> QED BY <3>1, <3>2
  <2> HIDE DEF n
  <2>2. f = [i \in 0 .. n |-> f[i]] BY <1>1
  <2> QED BY <2>1, <2>2
<1>3. Defined(g) BY <1>2
<1>4. OpenElements(w) = g BY DEF OpenElements
<1> HIDE DEF g
<1>5. \A i \in 0 .. n : g[i] = IF i = 0 THEN <<>> ELSE AfterTag(g[i - 1], w[i])
  BY <1>3, Zenon
<1> DEFINE S == {i \in 0 .. n : g[i] = f[i]}
<1>6. 0 \in S BY <1>1, <1>5
<1>7. ASSUME NEW i \in 0 .. (n - 1), i \in S PROVE i + 1 \in S
  <2>1. i + 1 \in 0 .. n /\ i + 1 \in 1 .. n /\ i + 1 # 0 /\ (i + 1) - 1 = i BY <1>1
  <2>2. g[i + 1] = AfterTag(g[i], w[i + 1]) BY <1>5, <2>1
  <2>3. f[i + 1] = AfterTag(f[i], w[i + 1]) BY <1>1, <2>1
  <2>4. g[i] = f[i] BY <1>7
  <2> QED BY <2>1, <2>2, <2>3, <2>4
<1> HIDE DEF S
<1>8. \A i \in 0 .. n : i \in S
  <2>1. \A i \in 0 .. (n - 1) : i \in S => i + 1 \in S BY <1>7
  <2> QED BY <1>1, <1>6, <2>1, Induct
<1> QED BY <1>4, <1>8 DEF S

(* The root is the first element of an XML report and is closed last.      *)
LEMMA XmlNested ==
  ASSUME NEW Lists, NEW Char, NEW s \in SummariesOf(Lists, Char), NEW w, w = XmlLines(s)
  PROVE  /\ w[1] = <<"begin", "asioscan">>
         /\ \A i \in DOMAIN w : OpenElements(w)[i] = <<>> <=> i = Len(w)
<1> DEFINE V == XmlAll(s, Char)
           head == XmlHead(s)
           body == EachOf(XmlHost, s.hosts)
           tail == XmlTail(s)
           root == <<"begin", "asioscan">>
           config == ConfigLine(s)
           figures == FiguresLine(s)
           ended == <<"end", "asioscan">>
           open == <<"asioscan">>
<1>1. /\ w = (head \o body) \o tail /\ head \in Seq(V) /\ body \in Seq(V)
      /\ Len(head) \in Nat \ {0} /\ head[1] = root
      /\ head = <<root>> \/ head = <<root, config>>
  BY XmlShape
<1>2. tail = <<figures, ended>> BY DEF XmlTail
<1>3. XmlBody(Char) \subseteq V /\ config \in V /\ figures \in V BY DEF XmlAll
<1>4. root \in V /\ ended \in V
  <2>1. root \in XmlBody(Char) /\ ended \in XmlBody(Char) BY TagsType DEF Tag
  <2> QED BY <1>3, <2>1
<1>5. /\ config[1] = "empty" /\ figures[1] = "empty" /\ root[1] = "begin" /\ root[2] = "asioscan"
      /\ ended[1] = "end" /\ ended[2] = "asioscan" /\ root[2] \in Names
  BY DEF ConfigLine, FiguresLine, Names
<1>6. open \in Seq(Names) /\ open # <<>> /\ Len(open) = 1 /\ open[1] = "asioscan" BY DEF Names
<1>7. tail \in Seq(V) /\ Len(tail) = 2 BY <1>2, <1>3, <1>4
<1> HIDE DEF V, head, body, tail, root, config, figures, ended
<1>8. Nested(<<root>>, open) /\ <<root>> \in Seq(V)
  <2> DEFINE none == <<>>
             f == [i \in 0 .. 0 |-> <<>>]
  <2>1. Nesting(f, none, <<>>)
    <3>1. f \in [0 .. 0 -> Seq(Names)] OBVIOUS
    <3>2. Len(none) = 0 /\ f[0] = <<>> OBVIOUS
    <3> HIDE DEF f
    <3> QED BY <3>1, <3>2 DEF Nesting
  <2>2. Nested(none, <<>>) BY <2>1 DEF Nested
  <2>3. none \in Seq(V) /\ <<>> \in Seq(Names) /\ Append(none, root) = <<root>> OBVIOUS
  <2>4. Append(<<>>, "asioscan") = open OBVIOUS
  <2> HIDE DEF none, open
  <2>5. Nested(Append(none, root), Append(<<>>, root[2]))
    BY <1>4, <1>5, <2>2, <2>3, NestedBegin
  <2> QED BY <1>4, <1>5, <2>3, <2>4, <2>5
<1> HIDE DEF open
<1>9. Nested(head, open)
  <2>1. CASE head = <<root>> BY <1>8, <2>1
  <2>2. CASE head = <<root, config>>
    <3> DEFINE one == <<root>>
    <3>1. Append(one, config) = <<root, config>> BY TuplesAppended
    <3>2. one \in Seq(V) /\ Nested(one, open) BY <1>8
    <3> HIDE DEF one
    <3>3. Nested(Append(one, config), open) BY <1>3, <1>5, <1>6, <3>2, NestedOther
    <3> QED BY <2>2, <3>1, <3>3
  <2> QED BY <1>1, <2>1, <2>2
<1>10. Keeps(body, open, V)
  <2> DEFINE blocks == HostBlocks(s)
             hosts == s.hosts
             n == Len(hosts)
  <2>1. hosts \in Seq(HostResults(Char)) /\ n \in Nat /\ DOMAIN hosts = 1 .. n
    BY DEF SummariesOf
  <2>2. blocks \in Seq(Seq(V)) /\ body = FlattenSeq(blocks)
    <3>1. blocks \in Seq(Seq(XmlBody(Char))) /\ body = FlattenSeq(blocks)
      BY XmlHostsType DEF body
    <3> HIDE DEF blocks
    <3> QED BY <1>3, <3>1
  <2>3. Len(blocks) = n /\ \A i \in 1 .. n : blocks[i] = XmlHost(hosts[i])
    BY <2>1 DEF HostBlocks
  <2>4. ASSUME NEW i \in 1 .. n PROVE Keeps(blocks[i], open, V)
    <3> DEFINE h == hosts[i]
               block == blocks[i]
    <3>1. h \in HostResults(Char) /\ block = XmlHost(h) BY <2>1, <2>3
    <3> HIDE DEF h, block
    <3>2. Keeps(XmlHost(h), open, V) BY <1>3, <1>6, <3>1, KeepsHost
    <3> QED BY <3>1, <3>2 DEF block
  <2> HIDE DEF blocks, n
  <2>5. Keeps(FlattenSeq(blocks), open, V) BY <2>2, <2>3, <2>4, KeepsFlattened
  <2> QED BY <2>2, <2>5
<1> DEFINE listed == head \o body
           most == Append(listed, figures)
<1>11. listed \in Seq(V) BY <1>1, ConcatProperties
<1>12. Nested(listed, open) BY <1>1, <1>9, <1>10 DEF Keeps
<1>13. w = listed \o <<figures, ended>> BY <1>1, <1>2
<1> HIDE DEF listed
<1>14. Append(most, ended) = w BY <1>3, <1>4, <1>11, <1>13
<1>15. most \in Seq(V) BY <1>3, <1>11, AppendType
<1>16. Nested(most, open) BY <1>3, <1>5, <1>6, <1>11, <1>12, NestedOther
<1> HIDE DEF most
<1> DEFINE m == Len(most)
<1>17. PICK f : Nesting(f, most, open) BY <1>16 DEF Nested
<1>18. /\ f[0] = <<>> /\ f[m] = open
       /\ \A i \in 1 .. m : f[i] = AfterTag(f[i - 1], most[i]) /\ f[i] # <<>>
  BY <1>17 DEF Nesting
<1>19. /\ w \in Seq(V) /\ Len(w) = m + 1 /\ m \in Nat /\ w[m + 1] = ended
       /\ \A i \in 1 .. m : w[i] = most[i]
  <2>1. Append(most, ended) \in Seq(V) /\ Len(Append(most, ended)) = m + 1
        /\ Append(most, ended)[m + 1] = ended
        /\ \A i \in 1 .. m : Append(most, ended)[i] = most[i]
    BY <1>4, <1>15, AppendProperties
  <2> QED BY <1>14, <1>15, <2>1
<1>20. AfterTag(open, ended) = <<>>
  <2>1. Last(open) = "asioscan" BY <1>6 DEF Last
  <2>2. Front(open) = <<>> BY <1>6 DEF Front
  <2> QED BY <1>5, <1>6, <2>1, <2>2 DEF AfterTag
<1> HIDE DEF m
<1> DEFINE g == [i \in 0 .. (m + 1) |-> IF i = m + 1 THEN <<>> ELSE f[i]]
<1>21. /\ g = [i \in 0 .. (m + 1) |-> g[i]] /\ g[m + 1] = <<>>
       /\ \A i \in 0 .. m : g[i] = f[i]
  BY <1>19
<1> HIDE DEF g
<1>22. g[0] = <<>> BY <1>18, <1>19, <1>21
<1>23. ASSUME NEW i \in 1 .. (m + 1) PROVE g[i] = AfterTag(g[i - 1], w[i])
  <2>1. CASE i = m + 1
    <3>1. m \in 0 .. m /\ (m + 1) - 1 = m BY <1>19
    <3>2. g[m] = open BY <1>18, <1>21, <3>1
    <3> QED BY <1>19, <1>20, <1>21, <2>1, <3>1, <3>2
  <2>2. CASE i # m + 1
    <3>1. i \in 1 .. m /\ i \in 0 .. m /\ i - 1 \in 0 .. m BY <1>19, <2>2
    <3> QED BY <1>18, <1>19, <1>21, <3>1
  <2> QED BY <2>1, <2>2
<1>24. \A i \in 0 .. Len(w) : OpenElements(w)[i] = g[i]
  <2>1. g = [i \in 0 .. Len(w) |-> g[i]] BY <1>19, <1>21
  <2>2. \A i \in 1 .. Len(w) : g[i] = AfterTag(g[i - 1], w[i]) BY <1>19, <1>23
  <2>3. Opens(g, w) BY <1>22, <2>1, <2>2 DEF Opens
  <2>4. w \in Seq(V) BY <1>19
  <2> QED BY <2>3, <2>4, OpenElementsAre
<1>25. \A i \in DOMAIN w : OpenElements(w)[i] = <<>> <=> i = Len(w)
  <2> TAKE i \in DOMAIN w
  <2>1. i \in 1 .. (m + 1) /\ i \in 0 .. Len(w) BY <1>19
  <2>2. OpenElements(w)[i] = g[i] BY <1>24, <2>1
  <2>3. CASE i = m + 1 BY <1>19, <1>21, <2>2, <2>3
  <2>4. CASE i # m + 1
    <3>1. i \in 1 .. m /\ i \in 0 .. m BY <1>19, <2>1, <2>4
    <3>2. g[i] # <<>> BY <1>18, <1>21, <3>1
    <3> QED BY <1>19, <2>2, <2>4, <3>2
  <2> QED BY <2>3, <2>4
<1>26. w[1] = root
  <2>0. w = (head \o body) \o tail /\ head \in Seq(V) /\ body \in Seq(V) /\ tail \in Seq(V)
    BY <1>1, <1>7
  <2>1. /\ Len(w) = Len(head) + Len(body) + Len(tail) /\ Len(head) \in Nat /\ Len(body) \in Nat
        /\ Len(tail) \in Nat
        /\ \A i \in 1 .. Len(w) :
              w[i] = IF i <= Len(head) THEN head[i]
                     ELSE IF i <= Len(head) + Len(body) THEN body[i - Len(head)]
                     ELSE tail[i - (Len(head) + Len(body))]
    BY <2>0, ThreeParts
  <2>2. 1 \in 1 .. Len(w) /\ 1 <= Len(head) BY <1>1, <2>1
  <2> QED BY <1>1, <2>1, <2>2
<1> QED BY <1>25, <1>26 DEF root

(* The attributes of an XML report hold no markup.                         *)
LEMMA XmlAttributes ==
  ASSUME NEW Char, NEW s, NEW l \in XmlAll(s, Char)
  PROVE  /\ l[2] = "address" => NoMarkup(l[3])
         /\ l[2] = "state" => NoMarkup(l[4])
<1>1. ASSUME NEW text \in Seq(Escaped(Char)) PROVE NoMarkup(text)
  <2>1. \A i \in DOMAIN text : text[i] \in Escaped(Char) OBVIOUS
  <2>2. \A x \in Escaped(Char) : x \notin Special \cup {"control"} BY DEF Escaped
  <2> QED BY <2>1, <2>2 DEF NoMarkup, ToSet
<1>2. CASE l \in Tags BY <1>2 DEF Tags, Tag
<1>3. CASE l \in {<<"begin", "port", p>> : p \in PortNumbers} BY <1>3
<1>4. CASE l \in {<<"empty", "address", name>> : name \in Seq(Escaped(Char))}
  <2>1. PICK name \in Seq(Escaped(Char)) : l = <<"empty", "address", name>> BY <1>4
  <2>2. l[2] = "address" /\ l[3] = name BY <2>1
  <2> QED BY <1>1, <2>2
<1>5. CASE l \in {<<"empty", "state", state, reason>> :
                    state \in PortStates, reason \in Seq(Escaped(Char))}
  <2>1. PICK state \in PortStates, reason \in Seq(Escaped(Char)) :
          l = <<"empty", "state", state, reason>>
    BY <1>5
  <2>2. l[2] = "state" /\ l[4] = reason BY <2>1
  <2> QED BY <1>1, <2>2
<1>6. CASE l = ConfigLine(s) \/ l = FiguresLine(s)
  <2>1. l[2] = "scaninfo" \/ l[2] = "runstats" BY <1>6 DEF ConfigLine, FiguresLine
  <2> QED BY <2>1
<1> QED BY <1>2, <1>3, <1>4, <1>5, <1>6 DEF XmlAll, XmlBody

(* The report that was taken whole is that of a summary as the lemmas      *)
(* about reports have it.                                                  *)
LEMMA WholeReport ==
  ASSUME WriterInv, Whole
  PROVE  /\ summary \in SummariesOf(Seq(PortNumbers), Characters)
         /\ options.format \in {"Text", "Xml"}
         /\ \A c \in Special : Entity[c] \notin Characters
         /\ ~IsText => Written = XmlLines(summary)
         /\ IsText => Written = TextLines(summary, options)
<1>1. Written = Lines BY WholeIsReport
<1>2. summary \in ScanSummaries(Characters) /\ options.format \in {"Text", "Xml"}
      /\ \A c \in Special : Entity[c] \notin Characters
  BY WriterAssumption DEF WriterInv
<1>3. summary \in SummariesOf(Seq(PortNumbers), Characters)
  BY <1>2 DEF ScanSummaries, SummariesOf
<1>4. /\ options.format = "Xml" => Written = XmlLines(summary)
      /\ options.format # "Xml" => Written = TextLines(summary, options)
  BY <1>1 DEF Lines, ReportLines
<1> QED BY <1>2, <1>3, <1>4 DEF IsText

(* What the lemmas about reports say of a report that was taken whole.     *)
LEMMA ShownByInv == WriterInv => ResultsShown
<1> SUFFICES ASSUME WriterInv, Whole
             PROVE  /\ IsText /\ ShowsAll => ReadText(Written) = Results(summary)
                    /\ ~IsText => ReadXml(Written) = PrintableResults(summary)
                    /\ IsText /\ options.text_mode = "Quiet" =>
                         Written = EachOf(LAMBDA r : IF r[3] = "Open"
                                                     THEN << <<"open", r[1], r[2]>> >>
                                                     ELSE <<>>,
                                          Results(summary))
  BY DEF ResultsShown
<1>1. summary \in SummariesOf(Seq(PortNumbers), Characters)
      /\ (\A c \in Special : Entity[c] \notin Characters)
      /\ (~IsText => Written = XmlLines(summary))
      /\ (IsText => Written = TextLines(summary, options))
  BY WholeReport
<1>2. ASSUME IsText, ShowsAll PROVE ReadText(Written) = Results(summary)
  <2>1. options.text_mode \in {"Normal", "Verbose", "PortsOnly"}
    BY <1>2 DEF IsText, ShowsAll
  <2>2. CASE options.text_mode = "PortsOnly"
    <3>0. Written = TextLines(summary, options) BY <1>1, <1>2, Zenon
    <3>1. Written = print_ports_only(summary) BY <2>2, <3>0 DEF TextLines
    <3> QED BY <1>1, <3>1, ReadPortsOnly
  <2>3. CASE options.text_mode \in {"Normal", "Verbose"}
    <3>1. options.text_mode \notin {"Quiet", "Summary", "PortsOnly", "HostsOnly"} BY <2>3
    <3>2. Written = TextLines(summary, options) BY <1>1, <1>2, Zenon
    <3>3. ReadText(TextLines(summary, options)) = Results(summary) BY <1>1, <3>1, ReadNormal
    <3> QED BY <3>2, <3>3, Zenon
  <2> QED BY <2>1, <2>2, <2>3
<1>3. ASSUME ~IsText PROVE ReadXml(Written) = PrintableResults(summary)
  <2>1. Written = XmlLines(summary) BY <1>1, <1>3, Zenon
  <2>2. ReadXml(XmlLines(summary)) = PrintableResults(summary) BY <1>1, ReadXmlReport
  <2> QED BY <2>1, <2>2, Zenon
<1>4. ASSUME IsText, options.text_mode = "Quiet"
      PROVE  Written = EachOf(LAMBDA r : IF r[3] = "Open" THEN << <<"open", r[1], r[2]>> >>
                                         ELSE <<>>,
                              Results(summary))
  <2>0. Written = TextLines(summary, options) BY <1>1, <1>4, Zenon
  <2>1. Written = print_quiet(summary) BY <1>4, <2>0 DEF TextLines
  <2>2. print_quiet(summary)
          = EachOf(LAMBDA r : IF r[3] = "Open" THEN << <<"open", r[1], r[2]>> >> ELSE <<>>,
                   Results(summary))
    BY <1>1, QuietIsOpenResults
  <2> QED BY <2>1, <2>2
<1> QED BY <1>2, <1>3, <1>4

(* Every result of the summary can be read off a whole report, once, under *)
(* its own host and in order.                                              *)
THEOREM WriterShowsResults == WriterSpec => []ResultsShown
BY ShownByInv, WriterInvHolds, PTL

(* The figures of a whole report, mode by mode.                            *)
LEMMA NormalFiguresHold ==
  ASSUME WriterInv, Whole, IsText, options.text_mode \in {"Normal", "Verbose"}
  PROVE  NormalFigures
<1> DEFINE w == Written
           n == Len(w)
<1>1. summary \in SummariesOf(Seq(PortNumbers), Characters) /\ w = TextLines(summary, options)
  BY WholeReport
<1>2. options.text_mode \notin {"Quiet", "Summary", "PortsOnly", "HostsOnly"} OBVIOUS
<1> HIDE DEF w
<1>3. n = Len(w) OBVIOUS
<1> HIDE DEF n
<1>4. /\ Kinds(w, "stat") = (n - 2) .. n
      /\ w[n - 2] = <<"stat", "hosts", Cardinality(Kinds(w, "host"))>>
      /\ w[n - 1] = <<"stat", "ports", Cardinality(Kinds(w, "row"))>>
      /\ w[n] = <<"stat", "open", Cardinality(OpenRows(w))>>
  <2> DEFINE s == summary
             o == options
  <2>1. s \in SummariesOf(Seq(PortNumbers), Characters) BY <1>1
  <2>2. w = TextLines(s, o) BY <1>1
  <2>3. o.text_mode \notin {"Quiet", "Summary", "PortsOnly", "HostsOnly"} BY <1>2
  <2> HIDE DEF s, o
  <2> QED BY <1>3, <2>1, <2>2, <2>3, NormalStatistics
<1>5. (\A kind : Kind(kind) = Kinds(w, kind))
      /\ {i \in Kind("row") : w[i][3] = "Open"} = OpenRows(w)
  <2>1. \A kind : Kind(kind) = Kinds(w, kind) BY Zenon DEF Kind, Kinds, w
  <2>2. Kind("row") = Kinds(w, "row") BY <2>1
  <2> QED BY <2>1, <2>2, Zenon DEF OpenRows
<1> QED BY <1>3, <1>4, <1>5, Zenon DEF NormalFigures, w

LEMMA XmlFiguresHold ==
  ASSUME WriterInv, Whole, ~IsText
  PROVE  XmlFigures
<1> DEFINE w == Written
           n == Len(w)
           stats == runstats(summary)
<1>1. summary \in SummariesOf(Seq(PortNumbers), Characters) /\ w = XmlLines(summary)
  BY WholeReport
<1> HIDE DEF w
<1>2. n = Len(w) OBVIOUS
<1>3. /\ stats.up = hosts_up(summary) /\ stats.down = hosts_down(summary)
      /\ stats.total = total_hosts(summary)
  BY DEF runstats
<1> HIDE DEF n, stats
<1>4. stats = runstats(summary) BY DEF stats
<1>5. /\ Opened(w, "runstats") = {n - 1} /\ w[n - 1][3] = stats
      /\ stats.total = Cardinality(Opened(w, "host"))
      /\ stats.ports = Cardinality(Opened(w, "state"))
      /\ stats.open = Cardinality(States(w, "Open"))
      /\ stats.closed = Cardinality(States(w, "Closed"))
      /\ stats.filtered = Cardinality(States(w, "Filtered"))
  BY <1>1, <1>2, <1>4, XmlStatistics
<1>6. stats.up = Cardinality(Enclosing(Opened(w, "host"), States(w, "Open")))
  BY <1>1, <1>3, XmlHostsUp
<1>7. stats.up + stats.down = stats.total
  <2>1. hosts_up(summary) \in Nat /\ total_hosts(summary) \in Nat BY <1>1, HostsUpBounded
  <2> QED BY <1>3, <2>1 DEF hosts_down
<1>8. (\A name : Element(name) = Opened(w, name)) /\ (\A state : InState(state) = States(w, state))
  BY Zenon DEF Element, InState, Opened, States, w
<1> QED BY <1>2, <1>5, <1>6, <1>7, <1>8, Zenon DEF XmlFigures, w

LEMMA SummaryFiguresHold ==
  ASSUME WriterInv, Whole, IsText, options.text_mode = "Summary"
  PROVE  SummaryFigures
<1>1. summary \in SummariesOf(Seq(PortNumbers), Characters)
      /\ Written = TextLines(summary, options)
  BY WholeReport
<1>2. Written = print_summary_only(summary) BY <1>1 DEF TextLines
<1>3. hosts_up(summary) = Cardinality(UpHosts)
  <2>1. {i \in DOMAIN summary.hosts : open_ports(summary.hosts[i]) > 0} = UpHosts
    BY <1>1, OpenHosts DEF UpHosts
  <2> QED BY <2>1, Zenon DEF hosts_up
<1>4. /\ Len(Results(summary)) = total_ports(summary)
      /\ Cardinality({k \in DOMAIN Results(summary) : Results(summary)[k][3] = "Open"})
           = total_open_ports(summary)
  BY <1>1, ResultFigures
<1> QED BY <1>2, <1>3, <1>4, Zenon DEF SummaryFigures, print_summary_only, total_hosts

LEMMA HostsOnlyFiguresHold ==
  ASSUME WriterInv, Whole, IsText, options.text_mode = "HostsOnly"
  PROVE  HostsOnlyFigures
<1>1. summary \in SummariesOf(Seq(PortNumbers), Characters)
      /\ Written = TextLines(summary, options)
  BY WholeReport
<1>2. Written = print_hosts_only(summary) BY <1>1 DEF TextLines
<1>3. DOMAIN Written = DOMAIN summary.hosts
  <2>1. DOMAIN print_hosts_only(summary) = DOMAIN summary.hosts BY DEF print_hosts_only
  <2> QED BY <1>2, <2>1, Zenon
<1>4. ASSUME NEW i \in DOMAIN Written
      PROVE  LET h == summary.hosts[i] IN
             /\ Written[i][2] = h.host
             /\ Written[i][3] = "down" <=> h.ports = <<>>
             /\ Written[i][4] = Cardinality({j \in DOMAIN h.ports : h.ports[j].state = "Open"})
             /\ Written[i][4] = open_ports(h)
  <2> DEFINE h == summary.hosts[i]
             line == <<"availability", h.host, IF HostPorts(h) > 0 THEN "up" ELSE "down",
                       open_ports(h)>>
  <2>1. Written[i] = line BY <1>2, <1>3 DEF print_hosts_only
  <2>2. HostPorts(h) > 0 <=> h.ports # <<>> BY <1>1, <1>3, OpenHosts
  <2>3. open_ports(h) = Cardinality({j \in DOMAIN h.ports : h.ports[j].state = "Open"})
    BY DEF open_ports, count_by_state
  <2> HIDE DEF h
  <2>4. /\ line[2] = h.host /\ line[4] = open_ports(h)
        /\ line[3] = IF HostPorts(h) > 0 THEN "up" ELSE "down"
    OBVIOUS
  <2>5. line[3] = "down" <=> h.ports = <<>> BY <2>2, <2>4
  <2> HIDE DEF line
  <2>6. /\ Written[i][2] = h.host /\ Written[i][4] = open_ports(h)
        /\ Written[i][3] = "down" <=> h.ports = <<>>
    BY <2>1, <2>4, <2>5
  <2> QED BY <2>3, <2>6, Zenon DEF h
<1>5. {i \in DOMAIN Written : Written[i][4] > 0} = UpHosts
  <2>1. {i \in DOMAIN summary.hosts : open_ports(summary.hosts[i]) > 0} = UpHosts
    BY <1>1, OpenHosts DEF UpHosts
  <2>2. \A i \in DOMAIN Written : Written[i][4] = open_ports(summary.hosts[i]) BY <1>4, Zenon
  <2> QED BY <1>3, <2>1, <2>2
<1> QED BY <1>3, <1>4, <1>5, Zenon DEF HostsOnlyFigures

(* The figures of a whole report agree with the rows it has or, in the     *)
(* modes without rows, with the results of the summary; which hosts are up *)
(* is one notion in XML and --summary and another in --hosts-only.         *)
THEOREM WriterStatistics == WriterSpec => []StatisticsMatchRows
<1>1. WriterInv => StatisticsMatchRows
  <2> SUFFICES ASSUME WriterInv, Whole
               PROVE  /\ ~IsText => XmlFigures
                      /\ IsText =>
                           /\ options.text_mode \in {"Normal", "Verbose"} => NormalFigures
                           /\ options.text_mode = "Summary" => SummaryFigures
                           /\ options.text_mode = "HostsOnly" => HostsOnlyFigures
    BY Zenon DEF StatisticsMatchRows
  <2> QED
    BY NormalFiguresHold, XmlFiguresHold, SummaryFiguresHold, HostsOnlyFiguresHold, Zenon
<1> QED BY <1>1, WriterInvHolds, PTL

(* A whole XML report has one root, its elements nest, and no attribute    *)
(* holds markup.                                                           *)
THEOREM WriterWellFormed == WriterSpec => []XmlWellFormed
<1>1. WriterInv => XmlWellFormed
  <2> SUFFICES ASSUME WriterInv, Whole, ~IsText PROVE XmlWellFormed BY DEF XmlWellFormed
  <2> DEFINE w == Written
  <2>1. summary \in SummariesOf(Seq(PortNumbers), Characters) /\ w = XmlLines(summary)
    BY WholeReport
  <2> HIDE DEF w
  <2>2. /\ w[1] = <<"begin", "asioscan">>
        /\ \A i \in DOMAIN w : OpenElements(w)[i] = <<>> <=> i = Len(w)
    BY <2>1, XmlNested
  <2>3. \A i \in DOMAIN w : w[i] \in XmlAll(summary, Characters)
    <3> DEFINE V == XmlAll(summary, Characters)
               a == XmlHead(summary)
               b == EachOf(XmlHost, summary.hosts)
               c == XmlTail(summary)
    <3>1. w = (a \o b) \o c /\ a \in Seq(V) /\ b \in Seq(V) /\ c \in Seq(V) BY <2>1, XmlShape
    <3> HIDE DEF V, a, b, c
    <3>2. w \in Seq(V) BY <3>1, ThreeParts
    <3>3. \A i \in DOMAIN w : w[i] \in V BY <3>2
    <3> QED BY <3>3 DEF V
  <2>4. \A i \in DOMAIN w :
          /\ w[i][2] = "address" => NoMarkup(w[i][3])
          /\ w[i][2] = "state" => NoMarkup(w[i][4])
    BY <2>3, XmlAttributes
  <2> QED BY <2>2, <2>4 DEF XmlWellFormed, w
<1> QED BY <1>1, WriterInvHolds, PTL

(* In the ports-only report one blank line lies between two hosts, and     *)
(* none at the end.                                                        *)
THEOREM WriterBlankLines == WriterSpec => []BlankLinesSeparate
<1>1. WriterInv => BlankLinesSeparate
  <2> SUFFICES ASSUME WriterInv, Whole, IsText, options.text_mode = "PortsOnly"
               PROVE  BlankLinesSeparate
    BY DEF BlankLinesSeparate
  <2>1. summary \in SummariesOf(Seq(PortNumbers), Characters)
        /\ Written = TextLines(summary, options)
    BY WholeReport
  <2>2. Written = print_ports_only(summary) BY <2>1 DEF TextLines
  <2>3. /\ \A i \in DOMAIN Written :
             Written[i] = <<"blank">> => i < Len(Written) /\ Written[i + 1][1] = "host"
        /\ \A i \in 2 .. Len(Written) : Written[i][1] = "host" => Written[i - 1] = <<"blank">>
    BY <2>1, <2>2, PortsOnlySeparated
  <2> QED BY <2>3 DEF BlankLinesSeparate
<1> QED BY <1>1, WriterInvHolds, PTL

=============================================================================
