------------------------- MODULE ConfigConverterProofs -------------------------
(***************************************************************************)
(* Proofs about ConfigConverter for every length of the file, every set of *)
(* words and every checksum function: the types, ConvertedWhole and        *)
(* RoundTrip.                                                              *)
(***************************************************************************)
EXTENDS ConfigConverter, TLAPS

Head == {Depth, 16, 18, 20}

\* What ConvertWord makes of a word that is followed by another.
Wide(w, next) ==
  IF (w = 17 /\ next \in 0..3) \/ (w = 16 /\ next \in 4..5) THEN Widened(w) ELSE w
Narrow(w, next) ==
  IF (w = 53 /\ next \in 0..3) \/ (w = 52 /\ next \in 4..5) THEN NarrowedTo(w)
  ELSE w

Word(m, w, next) == IF m = "toWide" THEN Wide(w, next) ELSE Narrow(w, next)

\* g is what the tool makes of f in mode m.
ConvertedFrom(m, f, g) ==
  /\ \A i \in Head : f[i] = (IF m = "toWide" THEN 2 ELSE 4)
                     /\ g[i] = (IF m = "toWide" THEN 4 ELSE 2)
  /\ \A i \in Body : g[i] = Word(m, f[i], f[i + 1])
  /\ CrcRight(g)

\* The part of it that is done.
DepthInv == pc = "depth" => mode # "detect" /\ data = file
HeaderInv ==
  pc = "header" =>
    /\ mode # "detect" /\ index \in 1..3
    /\ file[Depth] = Source /\ data[Depth] = Target
    /\ \A j \in 1..3 : j < index =>
         file[Header[j]] = Source /\ data[Header[j]] = Target
    /\ \A j \in 1..3 : j >= index => data[Header[j]] = file[Header[j]]
    /\ \A i \in Body \cup {Last} : data[i] = file[i]
BodyInv ==
  pc \in {"body", "crc"} =>
    /\ mode # "detect" /\ index \in BodyStart..Last
    /\ \A i \in Head : file[i] = Source /\ data[i] = Target
    /\ \A i \in Body :
         data[i] = IF i < index THEN Word(mode, file[i], file[i + 1]) ELSE file[i]
    /\ data[Last] = file[Last]
    /\ pc = "crc" => index = Last
WriteInv ==
  pc = "write" => \/ data = file
                  \/ mode # "detect" /\ ConvertedFrom(mode, file, data)

\* The file is still the one that narrow was made into.
NarrowInv == narrow # NoFile => narrow \in Files /\ ConvertedFrom("toWide", narrow, file)

IInv == TypeOK /\ DepthInv /\ HeaderInv /\ BodyInv /\ WriteInv /\ NarrowInv

----------------------------------------------------------------------------

LEMMA Layout ==
  /\ Last \in Nat /\ Last > 21
  /\ Head = Covered \ Body /\ Head \cap Body = {} /\ Last \notin Covered
  /\ Positions = Head \cup Body \cup {Last}
  /\ Body \subseteq Nat /\ \A i \in Body : i >= 21 /\ i < Last
  /\ \A i \in Body : i + 1 \in Body \cup {Last}
BY LayoutAssumption
DEF Head, Covered, Body, BodyStart, Positions, Depth

LEMMA InitIInv == Init => IInv
BY GivenFilesAssumption, MaxRunsAssumption, LayoutAssumption
DEF Init, IInv, TypeOK, DepthInv, HeaderInv, BodyInv, WriteInv, NarrowInv, Pcs,
    Modes

\* The words the tool writes are words.
LEMMA WordsWritten ==
  /\ {2, 4, 16, 17, 52, 53} \subseteq Words
  /\ Source \in Words /\ Target \in Words
  /\ \A w \in Words : Converted(w) \in Words
BY WordsAssumption DEF Source, Target, Converted, Widened, NarrowedTo

LEMMA CrcWord ==
  ASSUME TypeOK PROVE NewCrc \in Words
<1>1. [i \in Covered |-> data[i]] \in [Covered -> Words]
  BY DEF TypeOK, Files, Positions
<1> QED BY <1>1, CrcAssumption DEF NewCrc

\* One step of the loop makes of a word what Word says.
LEMMA WordMade ==
  ASSUME mode \in Modes, mode # "detect", NEW w, NEW next
  PROVE  (IF Instruction(w, next) THEN Converted(w) ELSE w) = Word(mode, w, next)
BY DEF Modes, Instruction, Converted, Word, Wide, Narrow

LEMMA NextType ==
  ASSUME IInv, [Next]_vars PROVE TypeOK'
<1> USE LayoutAssumption, MaxRunsAssumption DEF IInv, TypeOK, Pcs, Modes, BodyStart
<1>1. ASSUME NEW m \in Modes, Run(m) PROVE TypeOK'
  BY <1>1 DEF Run
<1>2. CASE DetectDepth
  BY <1>2, WordsWritten DEF DetectDepth, Files
<1>3. CASE ConvertHeader
  <2>1. data' \in Files
    BY <1>3, WordsWritten DEF ConvertHeader, Files
  <2>2. index' \in 1..3 \cup 21..Last
    BY <1>3 DEF ConvertHeader, HeaderInv
  <2> QED BY <1>3, <2>1, <2>2 DEF ConvertHeader
<1>4. CASE ConvertWord
  <2>1. data' \in Files
    <3>1. CASE index = Last
      BY <1>4, <3>1 DEF ConvertWord
    <3>2. CASE index # Last
      <4>1. index \in Positions
        BY <1>4, <3>2, Layout DEF ConvertWord, BodyInv, Body
      <4>2. data[index] \in Words
        BY <4>1 DEF Files
      <4> QED BY <1>4, <3>2, <4>1, <4>2, WordsWritten DEF ConvertWord, Files
    <3> QED BY <3>1, <3>2
  <2>2. index' \in 1..3 \cup 21..Last
    BY <1>4 DEF ConvertWord, BodyInv
  <2> QED BY <1>4, <2>1, <2>2 DEF ConvertWord
<1>5. CASE StoreCrc
  <2>1. data' \in Files
    BY <1>5, CrcWord DEF StoreCrc, Files
  <2> QED BY <1>5, <2>1 DEF StoreCrc
<1>6. CASE Write
  BY <1>6 DEF Write
<1>7. CASE Refuse
  BY <1>7 DEF Refuse
<1>8. CASE UNCHANGED vars
  BY <1>8 DEF vars
<1> QED
  BY <1>1, <1>2, <1>3, <1>4, <1>5, <1>6, <1>7, <1>8 DEF Next

LEMMA HeaderStep ==
  ASSUME IInv, ConvertHeader PROVE HeaderInv' /\ BodyInv'
<1>1. index \in 1..3 /\ mode \in Modes /\ mode # "detect" /\ data \in Files
  BY DEF IInv, TypeOK, HeaderInv, ConvertHeader
<1>2. Source' = Source /\ Target' = Target
  BY DEF ConvertHeader, Source, Target
<1>3. CASE ~AsExpected(data[Header[index]])
  BY <1>3 DEF ConvertHeader, HeaderInv, BodyInv
<1>4. CASE AsExpected(data[Header[index]])
  <2>1. /\ data' = [data EXCEPT ![Header[index]] = Target]
        /\ data[Header[index]] = Source
        /\ file' = file /\ mode' = mode
    BY <1>4 DEF ConvertHeader, AsExpected
  <2>2. /\ Header[1] = 16 /\ Header[2] = 18 /\ Header[3] = 20
        /\ Header[1] \in Positions /\ Header[2] \in Positions
        /\ Header[3] \in Positions
    BY DEF Header, Positions, Covered
  <2>3. \A i \in Body \cup {Last} : data'[i] = file'[i]
    BY <1>1, <2>1, <2>2, Layout DEF IInv, HeaderInv, ConvertHeader, Head, Files
  <2>4. file'[Depth] = Source' /\ data'[Depth] = Target'
    BY <1>1, <1>2, <2>1, <2>2
    DEF IInv, HeaderInv, ConvertHeader, Files, Positions, Covered, Depth
  <2>5. \A j \in 1..3 : j <= index =>
          file'[Header[j]] = Source' /\ data'[Header[j]] = Target'
    <3>1. \A j \in 1..3 : j < index =>
            file[Header[j]] = Source /\ data[Header[j]] = Target
      BY DEF IInv, HeaderInv, ConvertHeader
    <3>2. file[Header[index]] = Source
      BY <1>1, <2>1 DEF IInv, HeaderInv, ConvertHeader
    <3> QED BY <1>1, <1>2, <2>1, <2>2, <3>1, <3>2 DEF Files
  <2>6. CASE index = 3
    <3>1. pc' = "body" /\ index' = BodyStart
      BY <1>4, <2>6 DEF ConvertHeader
    <3>2. \A i \in Head : file'[i] = Source' /\ data'[i] = Target'
      BY <2>2, <2>4, <2>5, <2>6 DEF Head
    <3>3. \A i \in Body : ~(i < index')
      BY <3>1, Layout DEF BodyStart
    <3> QED
      BY <1>1, <2>1, <2>3, <3>1, <3>2, <3>3, Layout
      DEF HeaderInv, BodyInv, BodyStart
  <2>7. CASE index # 3
    <3>1. pc' = "header" /\ index' = index + 1
      BY <1>4, <2>7 DEF ConvertHeader
    <3>2. \A j \in 1..3 : j >= index' => data'[Header[j]] = file'[Header[j]]
      BY <1>1, <2>1, <2>2, <3>1 DEF IInv, HeaderInv, ConvertHeader, Files
    <3> QED
      BY <1>1, <2>1, <2>3, <2>4, <2>5, <2>7, <3>1, <3>2 DEF HeaderInv, BodyInv
  <2> QED BY <2>6, <2>7
<1> QED BY <1>3, <1>4

LEMMA BodyStep ==
  ASSUME IInv, ConvertWord PROVE BodyInv'
<1>1. /\ mode \in Modes /\ mode # "detect" /\ data \in Files
      /\ index \in BodyStart..Last
  BY DEF IInv, TypeOK, BodyInv, ConvertWord
<1>2. Source' = Source /\ Target' = Target /\ file' = file /\ mode' = mode
  BY DEF ConvertWord, Source, Target
<1>3. CASE index = Last
  BY <1>2, <1>3 DEF IInv, BodyInv, ConvertWord
<1>4. CASE index # Last
  <2>1. index \in Body /\ index \in Positions /\ index + 1 \in Body \cup {Last}
    BY <1>1, <1>4, Layout DEF Body, BodyStart
  <2>2. data[index] = file[index] /\ data[index + 1] = file[index + 1]
    BY <2>1, Layout DEF IInv, BodyInv, ConvertWord
  <2>3. data' = [data EXCEPT ![index] = Word(mode, file[index], file[index + 1])]
    <3>1. (IF Instruction(file[index], file[index + 1])
           THEN Converted(file[index]) ELSE file[index])
            = Word(mode, file[index], file[index + 1])
      BY <1>1, WordMade
    <3>2. data = [data EXCEPT ![index] = data[index]]
      BY <1>1, <2>1 DEF Files
    <3> QED BY <1>4, <2>2, <3>1, <3>2 DEF ConvertWord
  <2>4. /\ pc' = "body" /\ index' = index + 1
        /\ data'[index] = Word(mode, file[index], file[index + 1])
        /\ \A i \in Positions : i # index => data'[i] = data[i]
    BY <1>1, <1>4, <2>1, <2>3 DEF ConvertWord, Files
  <2>5. index' \in BodyStart..Last
    BY <1>1, <1>4, <2>4, Layout DEF BodyStart
  <2>6. \A i \in Head : file'[i] = Source' /\ data'[i] = Target'
    BY <1>2, <2>1, <2>4, Layout DEF IInv, BodyInv, ConvertWord
  <2>7. ASSUME NEW i \in Body
        PROVE  data'[i] = IF i < index' THEN Word(mode', file'[i], file'[i + 1])
                                        ELSE file'[i]
    <3>1. i \in Positions /\ i \in Nat /\ index \in Nat
      BY <2>1, Layout
    <3>2. data[i] = IF i < index THEN Word(mode, file[i], file[i + 1]) ELSE file[i]
      BY DEF IInv, BodyInv, ConvertWord
    <3> QED BY <1>2, <2>4, <3>1, <3>2
  <2>8. data'[Last] = file'[Last]
    BY <1>2, <1>4, <2>4, Layout DEF IInv, BodyInv, ConvertWord
  <2> QED BY <1>1, <1>2, <2>4, <2>5, <2>6, <2>7, <2>8 DEF BodyInv
<1> QED BY <1>3, <1>4

LEMMA CrcStep ==
  ASSUME IInv, StoreCrc PROVE WriteInv'
<1>1. /\ mode \in Modes /\ mode # "detect" /\ data \in Files /\ index = Last
      /\ file' = file /\ mode' = mode /\ data' = [data EXCEPT ![Last] = NewCrc]
  BY DEF IInv, TypeOK, BodyInv, StoreCrc
<1>2. data'[Last] = NewCrc /\ \A i \in Covered : data'[i] = data[i]
  BY <1>1, Layout DEF Files, Positions
<1>3. CrcRight(data')
  <2>1. [i \in Covered |-> data'[i]] = [i \in Covered |-> data[i]]
    BY <1>2
  <2> QED BY <1>2, <2>1 DEF CrcRight, NewCrc
<1>4. \A i \in Head : file[i] = Source /\ data'[i] = Target
  BY <1>2, Layout DEF IInv, BodyInv, StoreCrc
<1>5. \A i \in Body : data'[i] = Word(mode, file[i], file[i + 1])
  BY <1>1, <1>2, Layout DEF IInv, BodyInv, StoreCrc, Covered
<1> QED
  BY <1>1, <1>3, <1>4, <1>5 DEF WriteInv, ConvertedFrom, Source, Target

LEMMA WriteStep ==
  ASSUME IInv, Write PROVE NarrowInv'
<1>1. CASE file = data
  BY <1>1 DEF IInv, NarrowInv, Write
<1>2. CASE file # data /\ mode = "toWide"
  <2>1. narrow' = file /\ file' = data /\ file \in Files
    BY <1>2 DEF IInv, TypeOK, Write
  <2>2. ConvertedFrom("toWide", file, data)
    BY <1>2 DEF IInv, WriteInv, Write
  <2> QED BY <2>1, <2>2 DEF NarrowInv
<1>3. CASE file # data /\ mode # "toWide"
  <2>1. narrow' = NoFile
    BY <1>3 DEF Write
  <2> QED BY <2>1 DEF NarrowInv
<1> QED BY <1>1, <1>2, <1>3

LEMMA NextIInv == IInv /\ [Next]_vars => IInv'
<1> SUFFICES ASSUME IInv, [Next]_vars PROVE IInv'
  OBVIOUS
<1>0. TypeOK'
  BY NextType
<1>1. ASSUME NEW m \in Modes, Run(m) PROVE IInv'
  BY <1>0, <1>1
  DEF Run, IInv, DepthInv, HeaderInv, BodyInv, WriteInv, NarrowInv
<1>2. CASE DetectDepth
  <2>1. DepthInv' /\ BodyInv' /\ NarrowInv'
    BY <1>2 DEF DetectDepth, IInv, DepthInv, BodyInv, NarrowInv
  <2>2. WriteInv'
    BY <1>2 DEF DetectDepth, IInv, DepthInv, WriteInv
  <2>3. HeaderInv'
    <3>1. CASE data[Depth] = Source
      <4>1. /\ data = file /\ file' = file /\ mode' = mode /\ mode # "detect"
            /\ data' = [data EXCEPT ![Depth] = Target] /\ index' = 1
            /\ data \in Files
        BY <1>2, <3>1 DEF DetectDepth, IInv, DepthInv, TypeOK
      <4>2. data'[Depth] = Target /\ \A i \in Body \cup {Last} : data'[i] = file[i]
        BY <4>1, Layout DEF Files, Positions, Covered, Head
      <4>3. \A j \in 1..3 : data'[Header[j]] = file[Header[j]]
        BY <4>1 DEF Files, Positions, Covered, Depth, Header
      <4>4. Source' = Source /\ Target' = Target
        BY <4>1 DEF Source, Target
      <4> QED BY <3>1, <4>1, <4>2, <4>3, <4>4 DEF HeaderInv
    <3>2. CASE data[Depth] # Source
      BY <1>2, <3>2 DEF DetectDepth, HeaderInv
    <3> QED BY <3>1, <3>2
  <2> QED BY <1>0, <2>1, <2>2, <2>3 DEF IInv
<1>3. CASE ConvertHeader
  <2>1. DepthInv' /\ WriteInv' /\ NarrowInv'
    BY <1>3 DEF ConvertHeader, IInv, DepthInv, WriteInv, NarrowInv
  <2> QED BY <1>0, <1>3, <2>1, HeaderStep DEF IInv
<1>4. CASE ConvertWord
  <2>1. DepthInv' /\ HeaderInv' /\ WriteInv' /\ NarrowInv'
    BY <1>4 DEF ConvertWord, IInv, DepthInv, HeaderInv, WriteInv, NarrowInv
  <2> QED BY <1>0, <1>4, <2>1, BodyStep DEF IInv
<1>5. CASE StoreCrc
  <2>1. DepthInv' /\ HeaderInv' /\ BodyInv' /\ NarrowInv'
    BY <1>5 DEF StoreCrc, IInv, DepthInv, HeaderInv, BodyInv, NarrowInv
  <2> QED BY <1>0, <1>5, <2>1, CrcStep DEF IInv
<1>6. CASE Write
  <2>1. DepthInv' /\ HeaderInv' /\ BodyInv' /\ WriteInv'
    BY <1>6 DEF Write, DepthInv, HeaderInv, BodyInv, WriteInv
  <2> QED BY <1>0, <1>6, <2>1, WriteStep DEF IInv
<1>7. CASE Refuse
  BY <1>0, <1>7
  DEF Refuse, IInv, DepthInv, HeaderInv, BodyInv, WriteInv, NarrowInv
<1>8. CASE UNCHANGED vars
  BY <1>0, <1>8
  DEF vars, IInv, DepthInv, HeaderInv, BodyInv, WriteInv, NarrowInv, Source,
      Target
<1> QED
  BY <1>1, <1>2, <1>3, <1>4, <1>5, <1>6, <1>7, <1>8 DEF Next

\* The inductive invariant: how much of the conversion each step has done.
THEOREM Invariant == Spec => []IInv
BY InitIInv, NextIInv, PTL DEF Spec

\* Every variable keeps its type, for every length of the file.
THEOREM TypeCorrect == Spec => []TypeOK
<1>1. IInv => TypeOK
  BY DEF IInv
<1> QED BY <1>1, Invariant, PTL

\* What is written agrees on its depth and has the right checksum, or is what
\* was read.
THEOREM Whole == Spec => ConvertedWhole
<1> DEFINE WholeStep ==
      /\ OneDepth(file) /\ CrcRight(file) => OneDepth(file') /\ CrcRight(file')
      /\ file' # file => OneDepth(file) /\ OneDepth(file')
<1>1. IInv /\ [Next]_vars => [WholeStep]_vars
  <2> SUFFICES ASSUME IInv, Next PROVE WholeStep
    OBVIOUS
  <2>1. CASE file' = file
    BY <2>1
  <2>2. CASE file' # file
    <3>1. Write
      BY <2>2
      DEF Next, Run, DetectDepth, ConvertHeader, ConvertWord, StoreCrc, Refuse
    <3>2. ConvertedFrom(mode, file, file')
      BY <2>2, <3>1 DEF IInv, WriteInv, Write
    <3>3. OneDepth(file) /\ OneDepth(file') /\ CrcRight(file')
      BY <3>2 DEF ConvertedFrom, OneDepth, Head, Depth
    <3> QED BY <3>3
  <2> QED BY <2>1, <2>2
<1> QED BY <1>1, Invariant, PTL DEF Spec, ConvertedWhole

----------------------------------------------------------------------------

\* Narrowing a word of the widened file gives the word of the narrow one.
LEMMA WordBack ==
  ASSUME NEW f \in Files, CrcRight(f), Plain(f), NEW g \in Files,
         ConvertedFrom("toWide", f, g), NEW i \in Body
  PROVE  Narrow(g[i], g[i + 1]) = f[i]
<1>1. f[i] \in Int /\ f[i + 1] \in Int /\ g[i + 1] \in Int
  BY Layout, WordsAssumption DEF Files
<1>2. g[i] = Wide(f[i], f[i + 1])
  BY DEF ConvertedFrom, Word
<1>3. /\ ~(f[i] = 53 /\ f[i + 1] \in 0..3) /\ ~(f[i] = 52 /\ f[i + 1] \in 4..5)
      /\ f[Last - 1] \notin {16, 17, 52, 53}
  BY DEF Plain
<1>4. CASE i + 1 = Last
  <2>1. f[i] \notin {16, 17, 52, 53}
    BY <1>3, <1>4, Layout
  <2> QED BY <1>2, <2>1 DEF Wide, Narrow
<1>5. CASE i + 1 # Last
  <2>1. g[i + 1] = Wide(f[i + 1], f[i + 1 + 1])
    BY <1>5, Layout DEF ConvertedFrom, Word
  <2>2. g[i + 1] \in 0..3 <=> f[i + 1] \in 0..3
    BY <1>1, <2>1 DEF Wide, Widened
  <2>3. g[i + 1] \in 4..5 <=> f[i + 1] \in 4..5
    BY <1>1, <2>1 DEF Wide, Widened
  <2> QED
    BY <1>1, <1>2, <1>3, <2>2, <2>3 DEF Wide, Widened, Narrow, NarrowedTo
<1> QED BY <1>4, <1>5

\* Narrowing the widened file gives the narrow one.
LEMMA FileBack ==
  ASSUME NEW f \in Files, CrcRight(f), Plain(f), NEW g \in Files,
         ConvertedFrom("toWide", f, g), NEW h \in Files,
         ConvertedFrom("toNarrow", g, h)
  PROVE  h = f
<1>1. \A i \in Head : h[i] = f[i]
  BY DEF ConvertedFrom
<1>2. \A i \in Body : h[i] = f[i]
  BY WordBack DEF ConvertedFrom, Word
<1>3. h[Last] = f[Last]
  <2>1. \A i \in Covered : h[i] = f[i]
    BY <1>1, <1>2, Layout
  <2>2. [i \in Covered |-> h[i]] = [i \in Covered |-> f[i]]
    BY <2>1
  <2> QED BY <2>2 DEF ConvertedFrom, CrcRight
<1>4. \A i \in Positions : h[i] = f[i]
  BY <1>1, <1>2, <1>3, Layout
<1> QED BY <1>4 DEF Files

\* From 16 bits to 24 and back the file comes out word for word, unless one of
\* its words reads like an instruction of the 24-bit form.
THEOREM ThereAndBack == Spec => RoundTrip
<1> DEFINE Back ==
      file' # file /\ mode = "toNarrow" /\ narrow # NoFile
        => (CrcRight(narrow) /\ Plain(narrow) => file' = narrow)
<1>1. IInv /\ [Next]_vars => [Back]_vars
  <2> SUFFICES ASSUME IInv, Next, file' # file, mode = "toNarrow",
                      narrow # NoFile, CrcRight(narrow), Plain(narrow)
               PROVE  file' = narrow
    OBVIOUS
  <2>1. Write
    BY DEF Next, Run, DetectDepth, ConvertHeader, ConvertWord, StoreCrc, Refuse
  <2>2. ConvertedFrom("toNarrow", file, file') /\ file' \in Files
    BY <2>1 DEF IInv, TypeOK, WriteInv, Write
  <2>3. narrow \in Files /\ ConvertedFrom("toWide", narrow, file) /\ file \in Files
    BY DEF IInv, TypeOK, NarrowInv
  <2> QED BY <2>2, <2>3, FileBack
<1> QED BY <1>1, Invariant, PTL DEF Spec, RoundTrip
================================================================================
