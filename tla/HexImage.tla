------------------------------ MODULE HexImage ------------------------------
(***************************************************************************)
(* From a HEX file to the payloads of the VOLUME packets:                  *)
(* FirmwareUpdater::parseHexToDataBlocks and buildVolumePayloads, and the  *)
(* guards of PPBController::updateFirmware that the image has to pass.     *)
(*                                                                         *)
(* A byte is the number of its line and its place in the record, so that a *)
(* byte that is lost, doubled or moved is seen.                            *)
(***************************************************************************)
EXTENDS Naturals, Sequences, SequencesExt, FiniteSetsExt

CONSTANTS
  Lines,            (* the lines a file can hold: HexLine                    *)
  ChunkSize,        (* 16                                                    *)
  BlocksPerVolume,  (* BLOCKS_PER_VOLUME: 64                                 *)
  MaxBlocks,        (* what the 16-bit number of blocks holds: 65535         *)
  MaxTextLines      (* bound: lines of the file                              *)

(* A blank line, a line that is no record (prefix, length, digits, count   *)
(* or checksum), or a record: its type, whether its address is 0, and its  *)
(* number of data bytes.                                                   *)
HexLine == [kind : {"blank", "broken", "record"}, type : Nat, zero : BOOLEAN, size : Nat]

ASSUME HexAssumption ==
  /\ Lines \subseteq HexLine
  /\ ChunkSize \in Nat \ {0} /\ BlocksPerVolume \in Nat \ {0}
  /\ MaxBlocks \in Nat /\ MaxTextLines \in Nat

VARIABLES
  text,    (* history: the lines read so far                                 *)
  parser,  (* dataBlocks, eofSeen, dataSeen of parseHexToDataBlocks, and     *)
           (* whether it reads, has failed or has returned                   *)
  volumes  (* the payloads that updateFirmware begins to send                *)

hexVars == <<text, parser, volumes>>

HexInit ==
  /\ text = <<>> /\ volumes = <<>>
  /\ parser = [pc |-> "reading", blocks |-> <<>>, eofSeen |-> FALSE, dataSeen |-> FALSE]

-----------------------------------------------------------------------------
Bytes(n, size) == [i \in 1 .. size |-> <<n, i>>]

(* Mutant: the pieces are rounded down.                                    *)
PiecesRoundedDown(s, k) ==
  [i \in 1 .. Len(s) \div k |-> SubSeq(s, (i - 1) * k + 1, Min({i * k, Len(s)}))]

(* The pieces of s, each of k elements but for the last. *)
Pieces(s, k) ==
  [i \in 1 .. (Len(s) + k - 1) \div k |-> SubSeq(s, (i - 1) * k + 1, Min({i * k, Len(s)}))]

BuildVolumePayloads(blocks) ==
  LET volumesOf == Pieces(blocks, BlocksPerVolume) IN [v \in DOMAIN volumesOf |-> FlattenSeq(volumesOf[v])]

(* requireControlRecord, with the data size that each type asks for *)
ControlSize == [t \in 1 .. 5 |-> CASE t = 1 -> 0 [] t \in {2, 4} -> 2 [] OTHER -> 4]
RequireControlRecord(l) == l.type \in DOMAIN ControlSize /\ l.zero /\ l.size = ControlSize[l.type]

Fail(p) == [p EXCEPT !.pc = "failed", !.blocks = <<>>]

(* Mutant: what follows the end of the file is read as well.               *)
ParseBeyondEof(p, n, l) ==
  IF l.kind = "blank" THEN p
  ELSE IF l.kind = "broken" THEN Fail(p)
  ELSE IF l.type = 0 THEN
    [p EXCEPT !.blocks = @ \o Pieces(Bytes(n, l.size), ChunkSize), !.dataSeen = @ \/ l.size > 0]
  ELSE IF RequireControlRecord(l) THEN [p EXCEPT !.eofSeen = @ \/ l.type = 1]
  ELSE Fail(p)

(* One line of the loop of parseHexToDataBlocks *)
ParseLine(p, n, l) ==
  IF l.kind = "blank" THEN p
  ELSE IF p.eofSeen \/ l.kind = "broken" THEN Fail(p)
  ELSE IF l.type = 0 THEN
    [p EXCEPT !.blocks = @ \o Pieces(Bytes(n, l.size), ChunkSize), !.dataSeen = @ \/ l.size > 0]
  ELSE IF RequireControlRecord(l) THEN [p EXCEPT !.eofSeen = @ \/ l.type = 1]
  ELSE Fail(p)

ReadLine(l) ==
  /\ parser.pc = "reading" /\ Len(text) < MaxTextLines
  /\ text' = Append(text, l)
  /\ parser' = ParseLine(parser, Len(text) + 1, l)
  /\ UNCHANGED volumes

(* The end of the text, and what updateFirmware makes of the blocks *)
EndOfText ==
  LET payloads == BuildVolumePayloads(parser.blocks)
      usable == /\ parser.eofSeen /\ parser.dataSeen /\ parser.blocks # <<>>
                /\ payloads # <<>> /\ Len(payloads) <= MaxBlocks
  IN  /\ parser.pc = "reading"
      /\ parser' = [parser EXCEPT !.pc = IF usable THEN "returned" ELSE "failed"]
      /\ volumes' = IF usable THEN payloads ELSE <<>>
      /\ UNCHANGED text

HexNext == (\E l \in Lines : ReadLine(l)) \/ EndOfText

HexSpec == HexInit /\ [][HexNext]_hexVars

-----------------------------------------------------------------------------
(* The data of a line, and that of the lines of a file, in their order *)
Data(n, l) == IF l.kind = "record" /\ l.type = 0 THEN Bytes(n, l.size) ELSE <<>>
Image(lines) == FlattenSeq([n \in DOMAIN lines |-> Data(n, lines[n])])

(* What is sent is the image: every byte of every data record once and in  *)
(* the order of the file, however the records fall on the chunks and the   *)
(* chunks on the volumes.                                                  *)
VolumesAreTheImage == parser.pc = "returned" => FlattenSeq(volumes) = Image(text)

(* A well-formed file is a sequence of sound records of which exactly the  *)
(* last is the end record, and it has data.                                *)
WellFormed(lines) ==
  LET records == {n \in DOMAIN lines : lines[n].kind # "blank"} IN
  /\ records # {} /\ Image(lines) # <<>>
  /\ \A n \in records :
       /\ lines[n].kind = "record" /\ (lines[n].type = 1 <=> n = Max(records))
       /\ lines[n].type # 0 => RequireControlRecord(lines[n])

(* The chunks of a file: those of one record never share a chunk with the  *)
(* next, which is what a volume counts.                                    *)
ChunksIn(l) == IF l.kind = "record" /\ l.type = 0 THEN (l.size + ChunkSize - 1) \div ChunkSize ELSE 0
Chunks(lines) == FoldLeft(LAMBDA sum, l : sum + ChunksIn(l), 0, lines)

(* The file is sent exactly if it is well formed and fits the 16 bits of   *)
(* the number of blocks; a file that is cut short, or continued behind its *)
(* end record, never is.                                                   *)
SentIfWellFormed ==
  parser.pc # "reading" =>
    (parser.pc = "returned" <=> WellFormed(text) /\ Chunks(text) <= MaxBlocks * BlocksPerVolume)
=============================================================================
