------------------------------- MODULE Stream -------------------------------
(* Values on their way through a byte stream: the records of the append-only
   file, which AOF.Load reads back after a restart, and the answers of a
   connection, read by a peer with the same parser.

   The AOF fills a bufio.Writer, which passes bytes on when it is flushed and
   also whenever it is full, in the middle of a record; the answers of a
   connection are written to its socket, and arrive in pieces too.  When the
   process or the connection ends, what has not been passed on is lost.  A file
   is then continued behind its last byte, a connection is not.              *)
EXTENDS Resp, SequencesExt

CONSTANTS
    Commands,  \* sequences of strings, given to AOF.LogCommand
    Answers,   \* RESP values, given to EncodeRESP
    MaxWrites  \* bound on the values written

VARIABLES
    kind,    \* "file", "connection", or "closed" for one that is over
    buffer,  \* bytes in the bufio.Writer, or on their way to the peer
    out,     \* bytes in the file, or with the peer
    written, \* history: the values written
    intact,  \* history: the values written before the first cut
    cut,     \* history: a value has been cut, after those in intact
    after    \* history: bytes have been added behind a cut

vars == <<kind, buffer, out, written, intact, cut, after>>

-----------------------------------------------------------------------------
(* AOF.LogCommand formats a record by itself. *)
EncodeCommand(cmd) ==
    <<"*">> \o Itoa(Len(cmd)) \o CRLF
        \o FlattenSeq([i \in DOMAIN cmd |->
               <<"$">> \o Itoa(Len(cmd[i])) \o CRLF \o cmd[i] \o CRLF])

ValueOf(cmd) == Array([i \in DOMAIN cmd |-> Bulk(cmd[i])])

Encoded(vs) == FlattenSeq([i \in DOMAIN vs |-> EncodeRESP(vs[i])])

(* How many of the values are completely among the first n bytes. *)
Complete(vs, n) ==
    CHOOSE m \in 0 .. Len(vs) :
        /\ Len(Encoded(SubSeq(vs, 1, m))) <= n
        /\ m < Len(vs) => Len(Encoded(SubSeq(vs, 1, m + 1))) > n

-----------------------------------------------------------------------------
Init ==
    /\ kind \in {"file", "connection"}
    /\ buffer = <<>>
    /\ out = <<>>
    /\ written = <<>>
    /\ intact = <<>>
    /\ cut = FALSE
    /\ after = FALSE

Write(v, bytes) ==
    /\ Len(written) < MaxWrites
    /\ written' = Append(written, v)
    /\ buffer' = buffer \o bytes
    /\ intact' = IF cut THEN intact ELSE Append(intact, v)
    /\ UNCHANGED <<kind, out, cut, after>>

LogCommand ==
    /\ kind = "file"
    /\ \E cmd \in Commands : Write(ValueOf(cmd), EncodeCommand(cmd))

Answer ==
    /\ kind = "connection"
    /\ \E v \in Answers : Write(v, EncodeRESP(v))

(* The first n bytes of the buffer go out: all of them at a flush, the ones
   that fill the buffer otherwise. *)
PassOn(n) ==
    /\ n \in 1 .. Len(buffer)
    /\ out' = out \o SubSeq(buffer, 1, n)
    /\ buffer' = SubSeq(buffer, n + 1, Len(buffer))
    /\ after' = cut
    /\ UNCHANGED <<kind, written, intact, cut>>

(* The process ends and starts again, with a file that ends where it was cut;
   a connection is over. *)
Crash ==
    /\ buffer # <<>>
    /\ buffer' = <<>>
    /\ IF cut THEN UNCHANGED <<intact, cut>>
       ELSE /\ intact' = SubSeq(intact, 1, Complete(intact, Len(out)))
            /\ cut' = (Len(Encoded(intact')) # Len(out))
    /\ kind' = IF kind = "file" THEN "file" ELSE "closed"
    /\ UNCHANGED <<out, written, after>>

Next ==
    \/ LogCommand
    \/ Answer
    \/ \E n \in 1 .. Len(buffer) : PassOn(n)
    \/ Crash

Spec == Init /\ [][Next]_vars

-----------------------------------------------------------------------------
(* Properties *)

(* A value that can be read back: without an empty bulk string, without a line
   end in a simple string or an error, whose readers stop at the first LF, and
   nested at most d deep.  The server does write answers of the second kind: the
   name of an unknown command (server.go processCommand) and a key (common.go
   Policy, MemoryUsage) are put into them as they are. *)
RECURSIVE Clean(_, _)
Clean(v, d) ==
    CASE v.t = "bulk" -> v.str # <<>>
      [] v.t \in {"simple", "error"} -> \A i \in DOMAIN v.str : v.str[i] # LF
      [] v.t = "array" -> d > 0 /\ \A i \in DOMAIN v.array : Clean(v.array[i], d - 1)
      [] OTHER -> TRUE

AllClean(vs) == \A i \in DOMAIN vs : Clean(vs[i], MaxRESPDepth)

(* The values that have reached the reader completely and uncut. *)
Arrived == SubSeq(intact, 1, Complete(intact, Len(out)))

(* Reading a stream gives exactly the values that are completely in it, whether
   it ends between two of them or was cut inside one, and whatever bytes the
   bulk strings hold (resp.go readBulkString counts, it does not look for a line
   end), unless one of the values has an empty bulk string, is a simple string
   or an error with a line end in it, or is nested too deeply. *)
ReadsWhatIsComplete ==
    ~ after /\ AllClean(written) => ReadAll(out, 1) = Arrived

(* Values that were complete before the stream was cut, and before the first
   one that cannot be read back, are read first, in their order and unchanged,
   whatever follows them. *)
IntactFirst ==
    \A n \in 0 .. Len(Arrived) :
        AllClean(SubSeq(Arrived, 1, n)) => IsPrefix(SubSeq(Arrived, 1, n), ReadAll(out, 1))

=============================================================================
