--------------------------- MODULE CarLifeFrames ----------------------------
(***************************************************************************)
(* What a CarLife channel carries: frames, whose length has 16 bits on CMD *)
(* and TOUCH, read cell by cell as they come (transport.cpp), and the      *)
(* fixed layout of TOUCH_ACTION_3 (wire.cpp).  A header has two cells, the *)
(* length and the service type.  Left out: the time stamp of a long        *)
(* header, and the reader's limit of 64 MB for a frame.                    *)
(***************************************************************************)
EXTENDS Integers, SequencesExt

CONSTANTS
  Bad,                 \* decode returned false
  ShortLimit           \* 65536, scaled

ASSUME FramesAssumption == ShortLimit \in Nat \ {0}

Beyond(s, n) == SubSeq(s, n + 1, Len(s))

-----------------------------------------------------------------------------
(* Frames.                                                                 *)

\* Bug: send() does not look at the length.
CanFrameAnything(short, payload) == TRUE

\* Transport::send: what does not fit is not sent.
CanFrame(short, payload) == short => Len(payload) < ShortLimit

EncodeFrame(short, svc, payload) ==
  <<IF short THEN Len(payload) % ShortLimit ELSE Len(payload), svc>> \o payload

\* readerLoop: the frames that are whole, and the cells of one that is not yet.
Waiting == [frames |-> <<>>, part |-> <<>>]
FullFrame(part) == Len(part) >= 2 /\ Len(part) = 2 + part[1]
ReadCell(reader, cell) ==
  LET part == Append(reader.part, cell) IN
  IF FullFrame(part)
  THEN [frames |-> Append(reader.frames, [svc |-> part[2], payload |-> Beyond(part, 2)]), part |-> <<>>]
  ELSE [reader EXCEPT !.part = part]

DecodeFrames(cells) == FoldLeft(ReadCell, Waiting, cells).frames

-----------------------------------------------------------------------------
(* TOUCH_ACTION_3: an action of four bytes, pointers of five.              *)

Be16(v) == <<(v \div 256) % 256, v % 256>>
Get16(high, low) == high * 256 + low

EncodeAction3(touch) ==
  Be16(touch.action \div 65536) \o Be16(touch.action)
    \o FlattenSeq([n \in DOMAIN touch.pointers |->
         <<touch.pointers[n][1] % 256>> \o Be16(touch.pointers[n][2]) \o Be16(touch.pointers[n][3])])

\* The action is signed, with 32 bits.
Signed(byte) == IF byte < 128 THEN byte ELSE byte - 256
DecodeAction3(b) ==
  IF Len(b) < 4 \/ (Len(b) - 4) % 5 # 0 THEN Bad
  ELSE [action |-> Get16(Signed(b[1]), b[2]) * 65536 + Get16(b[3], b[4]),
        pointers |-> [n \in 1..((Len(b) - 4) \div 5) |->
          LET at == 5 * n IN <<b[at], Get16(b[at + 1], b[at + 2]), Get16(b[at + 3], b[at + 4])>>]]
=============================================================================
