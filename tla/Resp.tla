-------------------------------- MODULE Resp --------------------------------
(* The RESP codec of internal/server/resp.go, over sequences of bytes.  A byte
   is a one-character string, CR or LF; a string is a sequence of bytes.

   A parsed value is a record with its type t.  Read returns ok = FALSE for
   every error; whoever reads stops at the first one.  Two inputs make the code
   panic, a length line of a single byte and a negative length other than -1;
   they have no value here, so that TLC stops with an error if one is read.
   The limit on the size of a bulk string (512 MB) is left out.              *)
EXTENDS Integers, Sequences

CONSTANT MaxRESPDepth

CR == "CR"
LF == "LF"
CRLF == <<CR, LF>>

Digits == <<"0", "1", "2", "3", "4", "5", "6", "7", "8", "9">>

Simple(s) == [t |-> "simple", str |-> s]
Error(s) == [t |-> "error", str |-> s]
Int64(n) == [t |-> "int", int |-> n]
Bulk(s) == [t |-> "bulk", str |-> s]
NullBulk == [t |-> "nullbulk"]
Array(vs) == [t |-> "array", array |-> vs]
NullArray == [t |-> "nullarray"]

-----------------------------------------------------------------------------
(* Encoding *)

RECURSIVE Itoa(_)
Itoa(n) ==
    IF n < 0 THEN <<"-">> \o Itoa(- n)
    ELSE (IF n < 10 THEN <<>> ELSE Itoa(n \div 10)) \o <<Digits[(n % 10) + 1]>>

RECURSIVE EncodeRESP(_), EncodeAll(_)
EncodeRESP(v) ==
    CASE v.t = "simple" -> <<"+">> \o v.str \o CRLF
      [] v.t = "error" -> <<"-">> \o v.str \o CRLF
      [] v.t = "int" -> <<":">> \o Itoa(v.int) \o CRLF
      [] v.t = "nullbulk" -> <<"$", "-", "1">> \o CRLF
      [] v.t = "bulk" -> <<"$">> \o Itoa(Len(v.str)) \o CRLF \o v.str \o CRLF
      [] v.t = "nullarray" -> <<"*", "-", "1">> \o CRLF
      [] v.t = "array" -> <<"*">> \o Itoa(Len(v.array)) \o CRLF \o EncodeAll(v.array)
EncodeAll(vs) ==
    IF vs = <<>> THEN <<>> ELSE EncodeRESP(Head(vs)) \o EncodeAll(Tail(vs))

-----------------------------------------------------------------------------
(* Parsing: every reader takes the bytes s and the position i of the first one
   it has not consumed, and returns the value and the position behind it. *)

Fail == [ok |-> FALSE]

Done(v, i) == [ok |-> TRUE, val |-> v, next |-> i]

RECURSIVE Number(_)
Number(s) ==
    IF s = <<>> THEN 0
    ELSE 10 * Number(SubSeq(s, 1, Len(s) - 1))
             + (CHOOSE d \in 0 .. 9 : Digits[d + 1] = s[Len(s)])

(* strconv.Atoi, for the numbers that occur: no plus sign, no overflow. *)
Atoi(s) ==
    LET neg == s # <<>> /\ s[1] = "-"
        digits == IF neg THEN Tail(s) ELSE s
    IN  IF digits # <<>> /\ \A i \in DOMAIN digits : \E d \in DOMAIN Digits : digits[i] = Digits[d]
        THEN Done(IF neg THEN - Number(digits) ELSE Number(digits), 0)
        ELSE Fail

(* bufio ReadString: the position of the next LF, or 0 without one. *)
LineEnd(s, i) ==
    IF \E j \in i .. Len(s) : s[j] = LF
    THEN CHOOSE j \in i .. Len(s) : s[j] = LF /\ \A x \in i .. j - 1 : s[x] # LF
    ELSE 0

(* A line that must end in CR LF, as simple strings, errors and integers do. *)
ReadLine(s, i) ==
    LET j == LineEnd(s, i)
    IN  IF j > i /\ s[j - 1] = CR THEN Done(SubSeq(s, i, j - 2), j + 1) ELSE Fail

(* A length, of a bulk string or an array: the two last bytes of the line are
   dropped, whatever they are. *)
ReadLength(s, i) ==
    LET j == LineEnd(s, i)
        n == Atoi(SubSeq(s, i, j - 2))
    IN  CASE j = 0 -> Fail
          [] j > i -> IF n.ok THEN Done(n.val, j + 1) ELSE Fail

readInteger(s, i) ==
    LET line == ReadLine(s, i)
        n == Atoi(line.val)
    IN  IF line.ok /\ n.ok THEN Done(Int64(n.val), line.next) ELSE Fail

(* Seeded fault: the error of io.ReadFull is not looked at; bytes that did not
   come are zero. *)
readBulkStringShort(s, i) ==
    LET len == ReadLength(s, i)
        n == len.val
        byte(j) == IF j <= Len(s) THEN s[j] ELSE "NUL"
    IN  CASE ~ len.ok -> Fail
          [] len.ok /\ n = -1 -> Done(NullBulk, len.next)
          [] len.ok /\ n = 0 -> Done(Bulk(<<>>), len.next)
          [] len.ok /\ n > 0 ->
                Done(Bulk([j \in 1 .. n |-> byte(len.next + j - 1)]), len.next + n + 2)

(* The bytes and two more, which need not be CR LF.  An empty string returns
   at once and leaves its CR LF behind. *)
readBulkString(s, i) ==
    LET len == ReadLength(s, i)
        n == len.val
    IN  CASE ~ len.ok -> Fail
          [] len.ok /\ n = -1 -> Done(NullBulk, len.next)
          [] len.ok /\ n = 0 -> Done(Bulk(<<>>), len.next)
          [] len.ok /\ n > 0 ->
                IF len.next + n + 1 > Len(s) THEN Fail
                ELSE Done(Bulk(SubSeq(s, len.next, len.next + n - 1)), len.next + n + 2)

RECURSIVE Read(_, _, _), readArray(_, _, _), ReadElements(_, _, _, _, _)
Read(s, i, depth) ==
    IF i > Len(s) THEN Fail
    ELSE CASE s[i] = "+" -> LET line == ReadLine(s, i + 1)
                            IN  IF line.ok THEN Done(Simple(line.val), line.next) ELSE Fail
           [] s[i] = "-" -> LET line == ReadLine(s, i + 1)
                            IN  IF line.ok THEN Done(Error(line.val), line.next) ELSE Fail
           [] s[i] = ":" -> readInteger(s, i + 1)
           [] s[i] = "$" -> readBulkString(s, i + 1)
           [] s[i] = "*" -> readArray(s, i + 1, depth + 1)
           [] OTHER -> Fail
readArray(s, i, depth) ==
    LET len == ReadLength(s, i)
    IN  CASE depth > MaxRESPDepth \/ ~ len.ok -> Fail
          [] depth <= MaxRESPDepth /\ len.ok /\ len.val = -1 -> Done(NullArray, len.next)
          [] depth <= MaxRESPDepth /\ len.ok /\ len.val >= 0 ->
                ReadElements(s, len.next, depth, len.val, <<>>)
ReadElements(s, i, depth, n, vs) ==
    IF n = 0 THEN Done(Array(vs), i)
    ELSE LET r == Read(s, i, depth)
         IN  IF r.ok THEN ReadElements(s, r.next, depth, n - 1, Append(vs, r.val)) ELSE Fail

(* Seeded fault: an error anywhere discards what was read before it. *)
RECURSIVE ReadAllOrNothing(_, _)
ReadAllOrNothing(s, i) ==
    LET r == Read(s, i, 0)
        rest == ReadAllOrNothing(s, r.next)
    IN  IF ~ r.ok \/ (r.next <= Len(s) /\ rest = <<>>) THEN <<>> ELSE <<r.val>> \o rest

(* All values up to the first error: the loop of AOF.Load. *)
RECURSIVE ReadAll(_, _)
ReadAll(s, i) ==
    LET r == Read(s, i, 0)
    IN  IF r.ok THEN <<r.val>> \o ReadAll(s, r.next) ELSE <<>>

=============================================================================
