----------------------------- MODULE MC_Startup -----------------------------
(***************************************************************************)
(* Invocations with every kind of file and every kind of argument, before  *)
(* and behind the path, of a program that prints, breaks and stops.        *)
(***************************************************************************)
EXTENDS Startup

LOCAL INSTANCE Programs

\* LDA #$41  STA $FFFB  STA $0200  DBG  STP
PrintAndBreak == <<\hA9, \h41, \h8D, \hFB, \hFF, \h8D, \h00, \h02, \h02>> \o Stp

Full  == FullImage(Code(Start, PrintAndBreak) @@ ResetVector)
Short == ShortImage(Code(Start, PrintAndBreak) @@ ResetVector)
Huge  == [bytes |-> Full.bytes, size |-> WordSize + 1]

\* Too short for the reset vector: NOP, STP, with zeros behind the file or another
\* file's bytes; one byte less than the vector needs; nothing at all.
Stub    == [bytes |-> Code(0, Nop \o Stp), size |-> 2]
Garbage == [bytes |-> Code(0, Nop \o Stp) @@ Vector(\hFFFC, \hFFFF), size |-> 2]
Cut     == [bytes |-> Short.bytes, size |-> \hFFFD]
Empty   == [bytes |-> <<>>, size |-> 0]

MC_Files ==
  [path \in {"full.bin", "short.bin", "huge.bin", "stub.bin", "garbage.bin", "cut.bin",
             "empty.bin", "-d", "--debug", "--print-device"} |->
     CASE path \in {"full.bin", "-d", "--debug"}        -> Full
       [] path \in {"short.bin", "--print-device"}      -> Short
       [] path = "huge.bin"                             -> Huge
       [] path = "stub.bin"                             -> Stub
       [] path = "garbage.bin"                          -> Garbage
       [] path = "cut.bin"                              -> Cut
       [] path = "empty.bin"                            -> Empty]

MC_Images == {MC_Files[path] : path \in DOMAIN MC_Files}

MC_Numbers == [word \in {"200", "10200zz", "1FFFB"} |->
                 CASE word = "200" -> \h200 [] word = "10200zz" -> \h10200 [] word = "1FFFB" -> \h1FFFB]
MC_TooLarge == {"10000000000000000"}

Paths == DOMAIN MC_Files \cup {"missing.bin", "--verbose"}
Words == {"-d", "--debug", "--print-device", "zz", "10000000000000000"} \cup DOMAIN MC_Numbers

MC_CommandLines == {<<>>} \cup {<<path>> : path \in Paths}
                          \cup {<<path, word>> : path \in Paths, word \in Words}
                          \cup {<<path, "--print-device", word>> : path \in Paths, word \in Words}

MC_PrintDevices == Word
MC_DebugModes == BOOLEAN
MC_Lines == {[name |-> n, args |-> <<>>] : n \in {"", "s", "c", "q"}}
            \cup {[name |-> "g", args |-> <<\hFFFF>>]}

-----------------------------------------------------------------------------
(* One invocation for each text that the program contradicts *)

BothFlags == {<<"full.bin", flag, "--print-device", "200">> : flag \in {"-d", "--debug"}}
StubFile  == {<<"stub.bin">>}
=============================================================================
