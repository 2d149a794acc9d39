-------------------------------- MODULE Utf8 --------------------------------
(***************************************************************************)
(* StringUtil::IsValidUtf8: one pass over the bytes of a string, a whole   *)
(* character at a time.  A byte is abstracted to what the bit masks of the *)
(* code tell apart.  Overlong forms and code points out of range are not   *)
(* told apart by the code, nor here.                                       *)
(***************************************************************************)
EXTENDS Naturals, Sequences, SequencesExt

CONSTANT MaxLength   \* bound: bytes in a string

ASSUME LengthAssumption == MaxLength \in Nat

VARIABLES
  str,      \* the bytes
  at,       \* i: how many bytes have been accepted
  verdict   \* "scanning", or what the function has returned

uvars == <<str, at, verdict>>

\* 0xxxxxxx, 10xxxxxx, 110xxxxx, 1110xxxx, 11110xxx and 11111xxx.
Byte == {"ascii", "cont", "lead2", "lead3", "lead4", "bad"}

\* How many continuation bytes follow a leading byte.
Remaining == [lead2 |-> 1, lead3 |-> 2, lead4 |-> 3]

\* bytes[i]; behind the last byte stands the terminator of std::string.
ByteAt(k) == IF k < Len(str) THEN str[k + 1] ELSE "ascii"

UInit ==
  /\ str \in BoundedSeq(Byte, MaxLength)
  /\ at = 0 /\ verdict = "scanning"

More == verdict = "scanning" /\ at < Len(str)

Reject == verdict' = "invalid" /\ UNCHANGED <<str, at>>
Accept(n) == at' = at + n /\ UNCHANGED <<str, verdict>>

SkipAscii == More /\ ByteAt(at) = "ascii" /\ Accept(1)

RejectLead == More /\ ByteAt(at) \in {"cont", "bad"} /\ Reject

\* Mutation: the leading byte itself is not counted.
SkipRemaining ==
  /\ More /\ ByteAt(at) \in DOMAIN Remaining
  /\ LET r == Remaining[ByteAt(at)] IN
       IF at + r < Len(str) /\ \A j \in 1 .. r : ByteAt(at + j) = "cont"
         THEN Accept(r)
         ELSE Reject

\* A leading byte: the sequence must not be cut off, and must consist of
\* continuation bytes.
SkipSequence ==
  /\ More /\ ByteAt(at) \in DOMAIN Remaining
  /\ LET r == Remaining[ByteAt(at)] IN
       IF at + r < Len(str) /\ \A j \in 1 .. r : ByteAt(at + j) = "cont"
         THEN Accept(r + 1)
         ELSE Reject

Return ==
  /\ verdict = "scanning" /\ at >= Len(str)
  /\ verdict' = "valid"
  /\ UNCHANGED <<str, at>>

UNext == SkipAscii \/ RejectLead \/ SkipSequence \/ Return

USpec == UInit /\ [][UNext]_uvars
-----------------------------------------------------------------------------
(* The definition the scan is measured by: every byte is where UTF-8 lets  *)
(* it be.                                                                  *)

IsContinuation(s, k) == k \in 1 .. Len(s) /\ s[k] = "cont"

\* The length of the run of continuation bytes that starts behind position k.
RunBehind(s, k) ==
  CHOOSE n \in 0 .. Len(s) :
    /\ \A j \in 1 .. n : IsContinuation(s, k + j)
    /\ ~IsContinuation(s, k + n + 1)

WellFormed(s) ==
  /\ ~IsContinuation(s, 1)
  /\ \A k \in 1 .. Len(s) :
       /\ s[k] # "bad"
       /\ s[k] = "ascii" => RunBehind(s, k) = 0
       /\ s[k] \in DOMAIN Remaining => RunBehind(s, k) = Remaining[s[k]]

\* The scan answers what the definition says, for sequences cut off by the end of
\* the string and stray bytes anywhere in it, and it never goes past the end
\* (NesesString.cpp:176-200).
ScanAgrees ==
  /\ at <= Len(str)
  /\ verdict # "scanning" => (verdict = "valid" <=> WellFormed(str))
=============================================================================
