-------------------------- MODULE MCConfigConverter --------------------------
(* Constants of the TLC run of ConfigConverter. *)
EXTENDS ConfigConverter

\* The depths, both forms of both instructions, and operands of each.
WordList == <<0, 2, 4, 16, 17, 52, 53>>
SomeWords == {WordList[i] : i \in 1..7}

\* A checksum that may be any of them.
SomeCrc(w) ==
  WordList[((w[14] + w[16] + 3 * w[20] + w[21] + 2 * w[22] + 5 * w[23]) % 7)
             + 1]

BodyWords == {0, 4, 16, 17, 52, 53}

\* Headers of either depth, of both, and of none.
Headers ==
  {<<2, 2, 2, 2>>, <<4, 4, 4, 4>>, <<2, 2, 2, 4>>, <<4, 4, 2, 4>>, <<0, 2, 2, 2>>}

FileOf(header, body, crc) ==
  [i \in Positions |-> CASE i = Depth -> header[1]
                         [] i \in Body -> body[i]
                         [] i = Last -> crc
                         [] OTHER -> header[(i - 12) \div 2]]

SomeFiles ==
  LET rightly(f) == [f EXCEPT ![Last] = SomeCrc([i \in Covered |-> f[i]])] IN
  UNION {{FileOf(h, b, 0), rightly(FileOf(h, b, 0))} :
           h \in Headers, b \in [Body -> BodyWords]}
===============================================================================
