------------------------------ MODULE Framing ------------------------------
(***************************************************************************)
(* The obfuscation layer under TLS: TcpStream puts each write into one     *)
(* record of TlsObfuscator or TlsObfuscator2, and finds the records again  *)
(* in a byte stream that TCP cuts anywhere and that may begin with bytes   *)
(* of somebody else (the tail of a decoy handshake).                       *)
(*                                                                         *)
(* The stream is a sequence of units.  A record has four: two for its      *)
(* header, so that a read may end inside it, one for the payload and one   *)
(* for the padding.                                                        *)
(***************************************************************************)
EXTENDS Naturals, Sequences, FiniteSets

CONSTANTS
    MaxRecords,    \* writes in one handshake
    MaxForeign,    \* foreign units that may come first
    ReadSize,      \* units one read of the socket returns at most
    BufferSize     \* kMmaxBufferSize: 64 KB or 256 KB, in units

ASSUME FramingAssumption ==
    /\ {MaxRecords, MaxForeign, ReadSize, BufferSize} \subseteq Nat
    /\ BufferSize >= ReadSize + 3

VARIABLES
    version,   \* the obfuscator of both ends: 1 or 2
    written,   \* records written
    wire,      \* units on their way
    input,     \* input_buffer_
    out,       \* what read_some has returned: a record's number, or 0 for raw bytes
    reader,    \* "idle", or "net" while the socket is being read
    lost       \* AddData has dropped bytes

frameVars == <<version, written, wire, input, out, reader, lost>>

HeaderSize == 2
RecordSize == 4

-----------------------------------------------------------------------------
(* One write becomes one record: TlsObfuscator2::Obfuscate ...             *)
Obfuscate2(i) == << <<i, "head">>, <<i, "header">>, <<i, "payload">>, <<i, "padding">> >>

(* ... and TlsObfuscator::Obfuscate, with other fields and less padding.   *)
Obfuscate1(i) == << <<i, "head">>, <<i, "header">>, <<i, "payload">>, <<i, "padding">> >>

Foreign(n) == [i \in 1..n |-> <<0, "foreign">>]

Rest(s, k) == SubSeq(s, k, Len(s))

(* TlsObfuscator2::AddData: what does not fit is dropped without a word.   *)
AddData(b, s) ==
    IF Len(b) + Len(s) > BufferSize THEN b \o SubSeq(s, 1, BufferSize - Len(b)) ELSE b \o s

Nothing(b) == [out |-> << >>, rest |-> b]

IsHeader(b, k) == k + HeaderSize - 1 <= Len(b) /\ b[k][2] = "head"

(* The record at offset k, if all of it is there.                          *)
TakeRecord(b, k) ==
    [out |-> << b[k][1] >>, rest |-> SubSeq(b, 1, k - 1) \o Rest(b, k + RecordSize)]

IsWhole(b, k) == Len(b) - k + 1 >= RecordSize

(* TlsObfuscator2::Deobfuscate searches byte by byte.  When it takes a     *)
(* record the bytes before it stay; when it does not, they go.             *)
Deobfuscate2(b) ==
    LET offsets == {k \in 1..Len(b) : IsHeader(b, k)}
        first == CHOOSE k \in offsets : \A j \in offsets : k <= j
    IN  CASE Len(b) < HeaderSize -> Nothing(b)
          [] Len(b) >= HeaderSize /\ offsets = {} -> Nothing(Rest(b, Len(b) - HeaderSize + 2))
          [] OTHER -> IF IsWhole(b, first) THEN TakeRecord(b, first) ELSE Nothing(Rest(b, first))

(* TlsObfuscator::Deobfuscate returns a buffer that does not begin with    *)
(* one of its records as it is.                                            *)
Deobfuscate1(b) ==
    CASE Len(b) < HeaderSize -> Nothing(b)
      [] Len(b) >= HeaderSize /\ ~IsHeader(b, 1) -> [out |-> [i \in 1..Len(b) |-> 0], rest |-> << >>]
      [] OTHER -> IF IsWhole(b, 1) THEN TakeRecord(b, 1) ELSE Nothing(b)

Deobfuscate(b) == IF version = 1 THEN Deobfuscate1(b) ELSE Deobfuscate2(b)

-----------------------------------------------------------------------------
FrameInit ==
    /\ version \in {1, 2}
    /\ written = 0 /\ wire = << >> /\ input = << >> /\ out = << >>
    /\ reader = "idle" /\ lost = FALSE

(* The tail of the decoy handshake is still on its way.                    *)
DecoyTail ==
    /\ written = 0 /\ wire = << >> /\ input = << >> /\ out = << >>
    /\ version = 2
    /\ \E n \in 1..MaxForeign : wire' = Foreign(n)
    /\ UNCHANGED <<version, written, input, out, reader, lost>>

(* TcpStream::async_write_some                                             *)
AsyncWriteSome ==
    /\ written < MaxRecords
    /\ written' = written + 1
    /\ wire' = wire \o (IF version = 1 THEN Obfuscate1(written + 1) ELSE Obfuscate2(written + 1))
    /\ UNCHANGED <<version, input, out, reader, lost>>

(* Wrong variant: the socket is asked although a record may be waiting.    *)
AsyncReadSome_NoPending ==
    /\ reader = "idle"
    /\ reader' = "net"
    /\ UNCHANGED <<version, written, wire, input, out, lost>>

(* TcpStream::async_read_some first looks into the buffer ...              *)
AsyncReadSome ==
    /\ reader = "idle"
    /\ LET d == Deobfuscate(input)
       IN  /\ input' = d.rest
           /\ out' = out \o d.out
           /\ reader' = IF d.out = << >> THEN "net" ELSE "idle"
    /\ UNCHANGED <<version, written, wire, lost>>

(* ... and then into the socket, again and again until a record is there.  *)
BytesRead ==
    /\ reader = "net" /\ wire # << >>
    /\ \E n \in 1..Len(wire) :
          /\ n <= ReadSize
          /\ LET b == AddData(input, SubSeq(wire, 1, n))
                 d == Deobfuscate(b)
             IN  /\ input' = d.rest
                 /\ out' = out \o d.out
                 /\ lost' = (lost \/ Len(b) < Len(input) + n)
          /\ wire' = Rest(wire, n + 1)
    /\ reader' = "idle"
    /\ UNCHANGED <<version, written>>

FrameNext == DecoyTail \/ AsyncWriteSome \/ AsyncReadSome \/ BytesRead

FrameSpec == FrameInit /\ [][FrameNext]_frameVars

-----------------------------------------------------------------------------
(* Properties                                                              *)

(* What the reader has returned is what the writer wrote, in order, each   *)
(* record once.                                                            *)
InOrder == out = [i \in 1..Len(out) |-> i]

(* When the reader waits for an empty socket, it has returned everything:  *)
(* no record sits in the buffer until the next one arrives.                *)
NothingHeldBack == reader = "net" /\ wire = << >> => Len(out) = written

(* The stream survives any cut of the bytes into reads and any foreign     *)
(* bytes before the first record, and the buffer never overflows.          *)
StreamIntact == InOrder /\ NothingHeldBack /\ ~lost
=============================================================================
