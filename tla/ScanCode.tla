------------------------------ MODULE ScanCode ------------------------------
(***************************************************************************)
(* A payload's way from one phone's screen to another phone's camera: its  *)
(* 20 bytes, the 35 bytes of the printed code, the bytes the camera makes  *)
(* out, and the payload read from them.  Finding the code in a picture is  *)
(* left out; what may come of it is a frame with some bytes misread.       *)
(*                                                                         *)
(* KikCodes serialises its entry points, so encode and decode are one step *)
(* each.  Only remote codes of colour 0 are made; username codes, which no *)
(* part of the app prints, count as unreadable.  The extractor's           *)
(* RedundancyContainer has threshold 1 and passes every read on.           *)
(***************************************************************************)
EXTENDS ReedSolomon

CONSTANTS
    Payloads,   \* the payloads shown: records of CashPayload or TipPayload
    Currencies, \* the indices CurrencyCode(index:) accepts
    Misreads,   \* what may go wrong with a frame: sets of pairs of a position and
                \* what is added to its byte
    MaxCodes,   \* bound: codes shown one after the other
    NoCode

ALL == 35       \* KIK_CODE_ALL_BYTE_COUNT and its parts
DATA == 22
ECC == 13
PAYLOAD == 20

Byte == 0..255
Bytes(n) == [1..n -> Byte]
Zeros(n) == [i \in 1..n |-> 0]

\* kind 0 is cash, kind 1 cashMulticurrency; the amount is a UInt64, lowest byte
\* first, of which the frame has room for 7.
IsCash(p) == p.kind \in {0, 1}
CashPayload(kind, currency, amount, nonce) ==
    [kind |-> kind, currency |-> currency, amount |-> amount \o <<0>>, nonce |-> nonce]

TipKind == 2
TipPayload(user) == [kind |-> TipKind, user |-> user]

WellFormed(p) ==
    \/ /\ p \in [kind : {0, 1}, currency : Currencies, amount : Bytes(8),
                 nonce : Bytes(10)]
       /\ p.amount[8] = 0
    \/ p \in [kind : {TipKind}, user : Bytes(16)]

ASSUME ScanCodeAssumption ==
    /\ Currencies \subseteq Byte
    /\ \A p \in Payloads : WellFormed(p)
    /\ NoCode \notin Payloads
    /\ \A m \in Misreads : m \subseteq (1..ALL) \X Byte

\* CashCode.Payload.encode and TipCode.Payload.encode
PayloadBytes(p) ==
    IF IsCash(p) THEN <<p.kind, p.currency>> \o SubSeq(p.amount, 1, 7) \o <<0>> \o p.nonce
    ELSE <<TipKind>> \o p.user \o <<1, 2, 3>>

\* ScannedCode.init, with the initialisers it dispatches to.  A tip frame may be
\* short, a cash frame may not.
ScannedCode(data) ==
    LET frame == data \o Zeros(PAYLOAD - Len(data))
    IN  IF data = <<>> THEN NoCode
        ELSE IF data[1] = TipKind THEN TipPayload(SubSeq(frame, 2, 17))
        ELSE IF data[1] \in {0, 1} /\ Len(data) = PAYLOAD /\ data[2] \in Currencies
             THEN [kind   |-> data[1], currency |-> data[2],
                   amount |-> SubSeq(data, 3, 10), nonce |-> SubSeq(data, 11, 20)]
        ELSE NoCode

-----------------------------------------------------------------------------

\* Mutant: only the bytes that carry something are protected.
EncodeTight(data) ==
    LET word == RSEncode(<<2, 0>> \o data, ECC - 1)
    IN  SubSeq(word, DATA + 1, Len(word)) \o SubSeq(word, 1, DATA)

\* KikCodes.encode down to KikCode::encode: the type and the colour, the payload,
\* a spare zero byte and 12 check bytes; the last 13 bytes go in front.
Encode(data) ==
    LET word == RSEncode(<<2, 0>> \o data \o <<0>>, ECC - 1)
    IN  SubSeq(word, DATA + 1, ALL) \o SubSeq(word, 1, DATA)

\* KikCode::parse: the corrected word, or Uncorrectable.
Parse(code) ==
    LET d == RSDecode(SubSeq(code, ECC + 1, ALL) \o SubSeq(code, 1, ECC), ECC - 1)
    IN  IF d.failed \/ d.word[1] % 32 \notin {2, 3} THEN Uncorrectable ELSE d

\* What KikCodes.decode does to the payload before it returns it
Trimmed(bytes) ==
    SubSeq(bytes, 1, CHOOSE n \in 0..Len(bytes) :
        /\ n = 0 \/ bytes[n] # 0
        /\ \A i \in (n + 1)..Len(bytes) : bytes[i] = 0)

-----------------------------------------------------------------------------

VARIABLES
    shown,   \* the payload on the other phone's screen, or NoCode
    frame,   \* the code as the camera makes it out
    wrong,   \* the positions misread in it
    parsed,  \* what Parse made of the frame, once it was scanned
    read,    \* what the scan gave: a payload, or NoCode
    buffer,  \* what the bytes of KikCodes.decode's local payload hold before the call
    codes    \* codes shown so far

vars == <<shown, frame, wrong, parsed, read, buffer, codes>>

NotScanned == [failed |-> FALSE, word |-> <<>>]

\* Bytes that belong to no code
Junk == [i \in 1..PAYLOAD |-> 255]

Init ==
    /\ shown = NoCode /\ frame = <<>> /\ wrong = {}
    /\ parsed = NotScanned /\ read = NoCode
    /\ buffer = Junk
    /\ codes = 0

\* codeData(), drawn on the screen and seen by the camera
Show(p) ==
    /\ codes < MaxCodes
    /\ shown' = p /\ frame' = Encode(PayloadBytes(p)) /\ wrong' = {}
    /\ parsed' = NotScanned /\ read' = NoCode
    /\ codes' = codes + 1
    /\ UNCHANGED buffer

\* The scanner takes some bytes of the picture for others.
Misread(m) ==
    /\ shown # NoCode /\ parsed = NotScanned /\ wrong = {}
    /\ frame' = [i \in 1..ALL |-> IF \E e \in m : e[1] = i
                                  THEN Plus(frame[i], (CHOOSE e \in m : e[1] = i)[2])
                                  ELSE frame[i]]
    /\ wrong' = {e[1] : e \in m}
    /\ UNCHANGED <<shown, parsed, read, buffer, codes>>

\* CodeExtractor.processSample after the scan.  KikCodes.decode does not look at
\* kikCodeDecode's result: after a failure it returns what its local payload held,
\* the bytes an earlier call left there or anything else.
Scan ==
    /\ shown # NoCode /\ parsed = NotScanned
    /\ parsed' = Parse(frame)
    /\ buffer' \in IF parsed'.failed THEN {buffer, Junk} ELSE {SubSeq(parsed'.word, 3, DATA)}
    /\ read' = ScannedCode(Trimmed(buffer'))
    /\ UNCHANGED <<shown, frame, wrong, codes>>

Next ==
    \/ \E p \in Payloads : Show(p)
    \/ \E m \in Misreads : Misread(m)
    \/ Scan

Spec == Init /\ [][Next]_vars

-----------------------------------------------------------------------------

\* A frame is 35 bytes, a read is a payload.
TypeOK ==
    /\ shown \in Payloads \cup {NoCode}
    /\ frame = <<>> <=> shown = NoCode
    /\ shown # NoCode => frame \in Seq(Byte) /\ Len(frame) = ALL
    /\ wrong \subseteq 1..ALL
    /\ parsed = NotScanned \/ parsed.failed \/ Len(parsed.word) = ALL
    /\ buffer \in Seq(Byte) /\ Len(buffer) = PAYLOAD

\* The bills and profiles that survive KikCodes.decode's trimming of zero bytes
Scannable(p) == IsCash(p) => p.nonce[10] # 0

\* A code with up to six bytes misread, wherever they are, is read as the payload
\* that was shown, every field of it; except that a bill whose random nonce ends in
\* a zero byte is never read, because the trimmed frame is short (CashCode.Payload's
\* guard on the length; TipCode.Payload restores the zeros).
ReadsWhatIsShown ==
    parsed # NotScanned /\ Cardinality(wrong) <= 6 =>
        read = IF Scannable(shown) THEN shown ELSE NoCode
=============================================================================
