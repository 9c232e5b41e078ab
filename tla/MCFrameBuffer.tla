--------------------------- MODULE MCFrameBuffer ---------------------------
(* Small instances of FrameBuffer: short frames, every byte of a small     *)
(* alphabet at any time.                                                   *)
EXTENDS FrameBuffer, Bitwise, SequencesExt

\* Frames short enough for TLC.  The longest ODYSSEE frame exactly fits the
\* ring with one checksum byte, as with the lengths of the code (68 + 2 = 70).
MCFrameTable ==
    [p \in Protocols |->
        CASE p = "LEGACY"  -> { <<194, 3>>, <<193, 2>> }
          [] p = "NEXT"    -> { <<194, 2>>, <<193, 3>> }
          [] p = "ODYSSEE" -> { <<74, 2>>, <<193, 4>> }]

MCByte == {0, 2, 3, 4, 74, 193, 194}

MCXorChecksum(payload) == FoldLeft(LAMBDA a, b : a ^^ b, 0, payload)

\* Stands for the CRC of the library; any function will do.
MCCrc16(payload) == <<0, MCXorChecksum(payload)>>

\* The parser is switched on just before an error frame of an ODYSSEE bus, with
\* the lengths of the code: 74, 68, and data bytes, here all 0.
CodeByte == 0 .. 255

ErrorFrameFirst ==
    FBInit /\ [][PushByte(CASE mBuffer = <<>>   -> ERROR_MESSAGE_IDENTIFIER
                            [] mBuffer = <<74>> -> 68
                            [] OTHER            -> 0)]_fbVars

=============================================================================
