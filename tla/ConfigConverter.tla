--------------------------- MODULE ConfigConverter ---------------------------
(***************************************************************************)
(* audio/convert_config_string.py: the configuration string of the speaker *)
(* amplifier is an array of words that ends with its checksum; the tool    *)
(* rewrites one for 16-bit samples to 24-bit ones, or back.  One file is   *)
(* converted again and again; its text and binary forms hold the same      *)
(* words, and the TX string next to it is only copied.                     *)
(*                                                                         *)
(* Words the tool passes over are left out, but for what the checksum      *)
(* makes of them, which may be any function of the words.  As main has it, *)
(* bin16 and txt16 ask for toNarrow, bin24 and txt24 for toWide (usage     *)
(* says the opposite) and txt only tells the depth.                        *)
(***************************************************************************)
EXTENDS Integers

CONSTANTS
  Last,        \* the index of the checksum
  Words,       \* what a word may be
  Crc(_),      \* Generate_CRC, of the words before the checksum
  GivenFiles,  \* the files the tool may be given first
  MaxRuns      \* bound: how often the tool is run

Depth == 14                     \* its word tells 2 or 4 bytes to a sample,
Header == <<16, 18, 20>>        \* and so do these
BodyStart == 21
Body == BodyStart..(Last - 1)
Covered == {Depth} \cup {16, 18, 20} \cup Body
Positions == Covered \cup {Last}

ASSUME LayoutAssumption == Last \in Nat /\ Last > 21
ASSUME WordsAssumption ==
  Words \subseteq Int /\ {2, 4, 16, 17, 52, 53} \subseteq Words
ASSUME CrcAssumption == \A w \in [Covered -> Words] : Crc(w) \in Words
ASSUME MaxRunsAssumption == MaxRuns \in Nat

Files == [Positions -> Words]
NoFile == [i \in {} |-> 0]

ASSUME GivenFilesAssumption == GivenFiles \subseteq Files

VARIABLES
  pc,      \* where the tool is
  mode,    \* what it was asked for
  file,    \* the words of the file
  data,    \* binarydata
  index,   \* how far it has got in Header or in Body
  runs,    \* how often it may still be run
  \* History: the 16-bit file that the file was made from, or NoFile.
  narrow

vars == <<pc, mode, file, data, index, runs, narrow>>

Modes == {"detect", "toNarrow", "toWide"}
Pcs == {"idle", "depth", "header", "body", "crc", "write", "refused"}
Init ==
  /\ pc = "idle" /\ mode = "detect"
  /\ file \in GivenFiles
  /\ data = file
  /\ index = 1
  /\ runs = MaxRuns
  /\ narrow = NoFile

----------------------------------------------------------------------------

Source == IF mode = "toWide" THEN 2 ELSE 4
Target == IF mode = "toWide" THEN 4 ELSE 2

Run(m) ==
  /\ pc = "idle" /\ runs > 0
  /\ runs' = runs - 1
  /\ mode' = m
  /\ data' = file
  /\ pc' = IF m = "detect" THEN "write" ELSE "depth"
  /\ UNCHANGED <<file, index, narrow>>

\* A file that is converted already is written as it is.
DetectDepth ==
  /\ pc = "depth"
  /\ index' = 1
  /\ IF data[Depth] = Source
     THEN data' = [data EXCEPT ![Depth] = Target] /\ pc' = "header"
     ELSE pc' = (IF data[Depth] = Target THEN "write" ELSE "refused")
            /\ UNCHANGED data
  /\ UNCHANGED <<mode, file, runs, narrow>>

\* As a mutant: the header word is taken for what the first one said.
TakenOver(w) == TRUE

AsExpected(w) == w = Source

ConvertHeader ==
  /\ pc = "header"
  /\ LET i == Header[index] IN
     IF AsExpected(data[i])
     THEN /\ data' = [data EXCEPT ![i] = Target]
          /\ pc' = (IF index = 3 THEN "body" ELSE "header")
          /\ index' = (IF index = 3 THEN BodyStart ELSE index + 1)
     ELSE pc' = "refused" /\ UNCHANGED <<data, index>>
  /\ UNCHANGED <<mode, file, runs, narrow>>

\* As a mutant: 52 becomes 17 like 53.
NarrowedToOne(w) == IF w \in {52, 53} THEN 17 ELSE w

\* An instruction is known by its operand, the word that follows.
Widened(w) == CASE w = 17 -> 53 [] w = 16 -> 52 [] OTHER -> w
NarrowedTo(w) == CASE w = 53 -> 17 [] w = 52 -> 16 [] OTHER -> w

Instruction(w, next) ==
  \/ w = (IF mode = "toWide" THEN 17 ELSE 53) /\ next \in 0..3
  \/ w = (IF mode = "toWide" THEN 16 ELSE 52) /\ next \in 4..5

Converted(w) == IF mode = "toWide" THEN Widened(w) ELSE NarrowedTo(w)

\* The last word of the body is followed by the checksum, still the old one.
ConvertWord ==
  /\ pc = "body"
  /\ IF index = Last
     THEN pc' = "crc" /\ UNCHANGED <<data, index>>
     ELSE /\ data' = IF Instruction(data[index], data[index + 1])
                     THEN [data EXCEPT ![index] = Converted(@)] ELSE data
          /\ index' = index + 1
          /\ UNCHANGED pc
  /\ UNCHANGED <<mode, file, runs, narrow>>

NewCrc == Crc([i \in Covered |-> data[i]])

StoreCrc ==
  /\ pc = "crc"
  /\ data' = [data EXCEPT ![Last] = NewCrc]
  /\ pc' = "write"
  /\ UNCHANGED <<mode, file, index, runs, narrow>>

Write ==
  /\ pc = "write"
  /\ file' = data
  /\ pc' = "idle"
  /\ narrow' = CASE file = data -> narrow
                 [] file # data /\ mode = "toWide" -> file
                 [] OTHER -> NoFile
  /\ UNCHANGED <<mode, data, index, runs>>

\* "unknown config": the tool exits before it opens a file to write.
Refuse ==
  /\ pc = "refused"
  /\ pc' = "idle"
  /\ UNCHANGED <<mode, file, data, index, runs, narrow>>

Next ==
  \/ \E m \in Modes : Run(m)
  \/ DetectDepth \/ ConvertHeader \/ ConvertWord \/ StoreCrc \/ Write \/ Refuse

Spec == Init /\ [][Next]_vars

----------------------------------------------------------------------------
(* Properties. *)

TypeOK ==
  /\ pc \in Pcs /\ mode \in Modes
  /\ file \in Files /\ data \in Files
  /\ index \in 1..3 \cup 21..Last /\ runs \in 0..MaxRuns
  /\ narrow \in Files \cup {NoFile}

OneDepth(f) == f[16] = f[Depth] /\ f[18] = f[Depth] /\ f[20] = f[Depth]
CrcRight(f) == f[Last] = Crc([i \in Covered |-> f[i]])

\* A file whose words agree on the depth and whose checksum is right is still
\* one after any number of runs, and one whose words do not agree is refused
\* however far the conversion had got: it is never written converted by half.
ConvertedWhole ==
  [][/\ OneDepth(file) /\ CrcRight(file) => OneDepth(file') /\ CrcRight(file')
     /\ file' # file => OneDepth(file) /\ OneDepth(file')]_vars

\* No word that is data in the 16-bit file reads like an instruction of the
\* 24-bit one, and the checksum is not taken for an operand.
Plain(f) ==
  /\ \A i \in Body : ~ (f[i] = 53 /\ f[i + 1] \in 0..3)
                     /\ ~ (f[i] = 52 /\ f[i + 1] \in 4..5)
  /\ f[Last - 1] \notin {16, 17, 52, 53}

\* The conversions undo each other: from 16 bits to 24 and back the file comes
\* out word for word, unless the words were ambiguous to begin with.
RoundTrip ==
  [][file' # file /\ mode = "toNarrow" /\ narrow # NoFile
       => (CrcRight(narrow) /\ Plain(narrow) => file' = narrow)]_vars

===============================================================================
