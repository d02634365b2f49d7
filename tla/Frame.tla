------------------------------- MODULE Frame -------------------------------
(***************************************************************************)
(* internal/tcp/frame.go and FrameReader of crypto_server.go: the frames   *)
(*     $ | addr | cmd | length, two bytes, low one first | data | CRC      *)
(* on the byte stream of a connection.  A byte is a digit of base Base     *)
(* (256 in the code), so that the limit on the data length (1024) keeps    *)
(* its place between one byte and two, and the CRC is the XOR of all bytes *)
(* before it.  The reader is driven by the bytes as they come: it looks    *)
(* for the preamble ("scan"), then needs 4 bytes ("header"), then data and *)
(* CRC ("rest"); after a frame it refuses it is "closed".  The device may  *)
(* send other bytes between its frames, one byte of the stream may be      *)
(* damaged, and the connection may end anywhere ("ended").                 *)
(***************************************************************************)
EXTENDS Integers, Sequences, SequencesExt

CONSTANTS Base,        \* values of a byte, a power of two
          Preamble,    \* '$'
          XorByte(_, _),   \* ^ on bytes
          MaxDataLen,  \* FrameMaxDataLen
          WireFrame,   \* frames a device sends: records addr, cmd, data
          Noise,       \* sequences of bytes it may send before a frame
          MaxFrames,   \* bound: frames sent
          Bad          \* the error of DecodeFrame

Byte == 0..(Base - 1)

\* type Frame
Frame == [addr : Byte, cmd : Byte, data : Seq(Byte)]

ASSUME BaseAssumption == Base \in Nat \ {0} /\ Preamble \in Byte
ASSUME XorAssumption ==
  /\ \A a, b \in Byte : XorByte(a, b) \in Byte
  /\ \A a, b, c \in Byte : /\ XorByte(a, b) = XorByte(a, c) => b = c
                           /\ XorByte(b, a) = XorByte(c, a) => b = c
ASSUME LimitAssumption == MaxDataLen \in Nat /\ MaxDataLen < Base * Base
ASSUME FramesAssumption ==
  \A f \in WireFrame : f \in Frame /\ Len(f.data) <= MaxDataLen
ASSUME NoiseAssumption ==
  \A n \in Noise : n \in Seq(Byte \ {Preamble})
ASSUME BadAssumption == Bad \notin Frame

MinLen == 6

\* Mutation of the next definition: the loop begins one byte late.
CrcCalcLate(raw) ==
  LET crc[i \in 1..Len(raw)] ==
        IF i <= 2 THEN raw[1] ELSE XorByte(crc[i - 1], raw[i])
  IN  crc[Len(raw)]

\* crcCalc
CrcCalc(raw) ==
  LET crc[i \in 1..Len(raw)] ==
        IF i = 1 THEN raw[1] ELSE XorByte(crc[i - 1], raw[i])
  IN  IF raw = <<>> THEN 0 ELSE crc[Len(raw)]

\* binary.LittleEndian: PutUint16, Uint16
PutLen(n) == <<n % Base, n \div Base>>
GetLen(lo, hi) == lo + Base * hi

EncodeFrame(f) ==
  LET body == <<Preamble, f.addr, f.cmd>> \o PutLen(Len(f.data)) \o f.data
  IN  Append(body, CrcCalc(body))

DecodeFrame(raw) ==
  IF /\ Len(raw) >= MinLen
     /\ raw[1] = Preamble
     /\ GetLen(raw[4], raw[5]) <= MaxDataLen
     /\ Len(raw) = MinLen + GetLen(raw[4], raw[5])
     /\ CrcCalc(Front(raw)) = Last(raw)
    THEN [addr |-> raw[2], cmd |-> raw[3], data |-> SubSeq(raw, 6, Len(raw) - 1)]
    ELSE Bad

----------------------------------------------------------------------------
VARIABLES sent, got,   \* frames sent by the device, frames read
          wire,        \* bytes on their way
          damage,      \* "none", or the field with the damaged byte
          at, buf      \* FrameReader: what it waits for, bytes of the frame

frameVars == <<sent, got, wire, damage, at, buf>>

FrameInit == /\ sent = <<>> /\ got = <<>> /\ wire = <<>> /\ damage = "none"
             /\ at = "scan" /\ buf = <<>>

Connected == at \notin {"closed", "ended"}

Send(f, noise) ==
  /\ Len(sent) < MaxFrames /\ Connected
  /\ sent' = Append(sent, f)
  /\ wire' = wire \o noise \o EncodeFrame(f)
  /\ UNCHANGED <<got, damage, at, buf>>

\* The field of the i-th byte of a frame.
Field(i) == CASE i = 1 -> "preamble" [] i \in {4, 5} -> "length"
              [] OTHER -> "content"

\* A frame one byte of which arrives with another value.
SendDamaged(f, i, b) ==
  LET raw == EncodeFrame(f)
  IN  /\ Len(sent) < MaxFrames /\ Connected /\ damage = "none"
      /\ i \in DOMAIN raw /\ b # raw[i]
      /\ sent' = Append(sent, f)
      /\ wire' = wire \o [raw EXCEPT ![i] = b]
      /\ damage' = Field(i)
      /\ UNCHANGED <<got, at, buf>>

----------------------------------------------------------------------------
(* ReadFrame.                                                              *)

ScanByte ==
  /\ at = "scan" /\ wire # <<>>
  /\ wire' = Tail(wire)
  /\ IF Head(wire) = Preamble THEN at' = "header" /\ buf' = <<Preamble>>
                              ELSE UNCHANGED <<at, buf>>
  /\ UNCHANGED <<sent, got, damage>>

\* io.ReadFull of 4 bytes, then the check of the length.
HeaderByte ==
  LET b == Append(buf, Head(wire))
  IN  /\ at = "header" /\ wire # <<>>
      /\ wire' = Tail(wire)
      /\ buf' = b
      /\ at' = IF Len(b) < 5 THEN "header"
               ELSE IF GetLen(b[4], b[5]) > MaxDataLen THEN "closed" ELSE "rest"
      /\ UNCHANGED <<sent, got, damage>>

\* Mutation of the next definition: the last data byte is taken for the CRC.
RestLenShort == MinLen + GetLen(buf[4], buf[5]) - 1

\* Length of the whole frame.
RestLen == MinLen + GetLen(buf[4], buf[5])

\* io.ReadFull of data and CRC, then DecodeFrame; its error ends the loop of
\* handleConnection.
RestByte ==
  LET b == Append(buf, Head(wire))
      f == DecodeFrame(b)
  IN  /\ at = "rest" /\ wire # <<>>
      /\ wire' = Tail(wire)
      /\ IF Len(b) < RestLen
           THEN buf' = b /\ UNCHANGED <<at, got>>
           ELSE /\ buf' = <<>>
                /\ at' = IF f = Bad THEN "closed" ELSE "scan"
                /\ got' = IF f = Bad THEN got ELSE Append(got, f)
      /\ UNCHANGED <<sent, damage>>

\* The connection ends; what ReadFrame has of a frame is dropped.
Disconnect ==
  /\ Connected
  /\ at' = "ended" /\ buf' = <<>> /\ wire' = <<>>
  /\ UNCHANGED <<sent, got, damage>>

----------------------------------------------------------------------------
FrameNext == \/ \E f \in WireFrame, n \in Noise : Send(f, n)
             \/ \E f \in WireFrame, i \in 1..(MinLen + MaxDataLen), b \in Byte :
                  SendDamaged(f, i, b)
             \/ ScanByte \/ HeaderByte \/ RestByte
             \/ Disconnect

FrameSpec == FrameInit /\ [][FrameNext]_frameVars

----------------------------------------------------------------------------
(* Properties.                                                             *)

\* On a connection without damage the frames read are the frames sent, in
\* order, however the bytes arrive, whatever noise without a preamble comes
\* between them and whether or not the data contain the preamble; none is
\* refused, and nothing is left when all bytes have been read.  Damage outside
\* preamble and length adds no frame either: the connection ends at the
\* damaged frame.
StreamIntact ==
  /\ damage \in {"none", "content"} => IsPrefix(got, sent)
  /\ damage = "none" =>
       /\ at # "closed"
       /\ wire = <<>> /\ Connected => got = sent

\* DecodeFrame accepts what EncodeFrame made of a frame and refuses it with
\* any one byte changed: XOR notices every change of one byte, and a changed
\* length does not fit the number of bytes.
CodecSound ==
  \A f \in Range(sent) :
    LET raw == EncodeFrame(f)
    IN  /\ DecodeFrame(raw) = f
        /\ \A i \in DOMAIN raw, b \in Byte :
             b # raw[i] => DecodeFrame([raw EXCEPT ![i] = b]) = Bad
=============================================================================
