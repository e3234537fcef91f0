------------------------------- MODULE Helpers -------------------------------
(***************************************************************************)
(* The pure algorithms on bytes: comparing two files, splitting a string,  *)
(* reading a line of an index, a commit id, and a remote from its file.    *)
(*                                                                         *)
(* A string is a sequence of characters; a character is one of Letter, or  *)
(* the name of a separator, or NUL in the content of a file.               *)
(***************************************************************************)
EXTENDS Integers, Sequences, SequencesExt, FiniteSetsExt

CONSTANTS Letter,       \* characters that nothing treats specially
          EndOfString,  \* the NUL byte
          CompareSize,  \* CT_FCOMPARE_SIZE, and the 1024 of feq
          MaxString     \* bound: the length of the inputs

ASSUME LetterAssumption ==
    /\ "1" \in Letter
    /\ Letter \cap {"@", ":", "/", "~", "+", "#", ".", " ", "\n"} = {}
    /\ EndOfString \notin Letter
ASSUME CompareSizeAssumption == CompareSize \in Nat \ {0}
ASSUME MaxStringAssumption == MaxString \in Nat

VARIABLE arg    \* the string that the algorithms are called with

Words(S) == BoundedSeq(S, MaxString) \ {<<>>}
Strings == BoundedSeq(Letter \cup {":", "/", "@", "+"}, MaxString)

-----------------------------------------------------------------------------
(* ct_fcompare and feq.                                                    *)

(* What strncmp looks at.                                                  *)
CString(s) ==
    IF Contains(s, EndOfString)
    THEN SubSeq(s, 1, Min({i \in DOMAIN s : s[i] = EndOfString}) - 1)
    ELSE s

Rounds(s) == 1 .. (Len(s) + CompareSize - 1) \div CompareSize

(* What the i-th fread leaves in a buffer that held the sequence before.   *)
ReadInto(before, s, i) ==
    LET end == Min({i * CompareSize, Len(s)})
        got == SubSeq(s, (i - 1) * CompareSize + 1, end)
    IN got \o SubSeq(before, Len(got) + 1, Len(before))

(* Mutant of SameFile: the last, shorter round is not compared.            *)
SameFileRounded(s, t) ==
    /\ Len(s) = Len(t)
    /\ \A i \in 1 .. Len(s) \div CompareSize :
           CString(ReadInto(<<>>, s, i)) = CString(ReadInto(<<>>, t, i))

(* ct_fcompare returns 0: it compares as many bytes as it has read.        *)
SameFile(s, t) ==
    /\ Len(s) = Len(t)
    /\ \A i \in Rounds(s) :
           CString(ReadInto(<<>>, s, i)) = CString(ReadInto(<<>>, t, i))

(* feq compares the whole of its buffers; u and v are what they held.      *)
Feq(s, t, u, v) ==
    LET Buffer(x, r, i) ==
            ReadInto(IF i = 1 THEN r ELSE ReadInto(<<>>, x, i - 1), x, i)
    IN /\ Len(s) = Len(t)
       /\ \A i \in Rounds(s) : CString(Buffer(s, u, i)) = CString(Buffer(t, v, i))

(* For files without a NUL byte, of whatever length: ct_fcompare tells     *)
(* equal files from others; feq never takes two for equal that are not,    *)
(* and agrees with it on files that fill its buffer once.                  *)
ComparesExactly ==
    arg # <<>> /\ Range(arg) \subseteq Letter =>
    \A t \in BoundedSeq(Letter, MaxString) :
        /\ SameFile(arg, t) <=> arg = t
        /\ \A u, v \in [1..CompareSize -> Letter \cup {EndOfString}] :
               /\ Feq(arg, t, u, v) => arg = t
               /\ Len(arg) >= CompareSize => (Feq(arg, t, u, v) <=> arg = t)

-----------------------------------------------------------------------------
(* ct_split, trimnl and ent_from_line.                                     *)

(* Mutant of Pieces: nothing is added for two separators in a row.         *)
PiecesFilled(str, c) ==
    LET Step(s, x) == IF x # c THEN [s EXCEPT !.last = Append(@, x)]
                      ELSE IF s.last = <<>> THEN s
                      ELSE [last |-> <<>>, arr |-> Append(s.arr, s.last)]
        s == FoldLeft(Step, [last |-> <<>>, arr |-> <<>>], str)
    IN IF s.last = <<>> THEN s.arr ELSE Append(s.arr, s.last)

(* What ct_split adds to its array.                                        *)
Pieces(str, c) ==
    LET Step(s, x) == IF x # c THEN [s EXCEPT !.last = Append(@, x)]
                      ELSE [last |-> <<>>, arr |-> Append(s.arr, s.last)]
        s == FoldLeft(Step, [last |-> <<>>, arr |-> <<>>], str)
    IN IF s.last = <<>> THEN s.arr ELSE Append(s.arr, s.last)

TrimNL(str) == IF Last(str) = "\n" THEN Front(str) ELSE str

(* The process exits when the line does not split into two.                *)
EntFromLine(line) ==
    LET arr == Pieces(line, ":")
    IN IF Len(arr) # 2 THEN [exit |-> TRUE]
       ELSE [exit |-> FALSE, cid |-> arr[1], path |-> TrimNL(arr[2])]

(* Splitting loses at most one separator, at the end, so that every line of*)
(* an index is read back as it was written; a path with a colon ends the   *)
(* process.                                                                *)
SplitsExactly ==
    arg # <<>> =>
        LET arr == Pieces(arg, ":")
            joined == FlattenSeq([i \in DOMAIN arr |-> arr[i] \o <<":">>])
        IN /\ joined \in {arg, Append(arg, ":")}
           /\ \A i \in DOMAIN arr : ~ Contains(arr[i], ":")
           /\ \A cid \in Words(Letter) :
                  EntFromLine(cid \o <<":">> \o arg \o <<"\n">>) =
                      IF Contains(arg, ":") THEN [exit |-> TRUE]
                      ELSE [exit |-> FALSE, cid |-> cid, path |-> arg]

-----------------------------------------------------------------------------
(* gen_cid and parse_cid.                                                  *)

DigitList == <<"0", "1", "2", "3", "4", "5", "6", "7", "8", "9">>
Digits == Range(DigitList)

(* The powers of ten: what a digit of a number of ten digits may stand for.*)
Tens == <<1, 10, 100, 1000, 10000, 100000, 1000000, 10000000, 100000000,
          1000000000>>

(* A number as %09d and %010d print it.                                    *)
Padded(n, width) ==
    [i \in 1..width |-> DigitList[((n \div Tens[width - i + 1]) % 10) + 1]]

GenCid(nsec, sec, name) ==
    Padded(nsec, 9) \o <<".">> \o Padded(sec, 10) \o <<".">> \o name

(* atoi: it stops at what is no digit.                                     *)
Atoi(s) ==
    LET Value(acc, x) == acc * 10 + SelectInSeq(DigitList, LAMBDA d : d = x) - 1
        letters == {i \in DOMAIN s : s[i] \notin Digits}
    IN FoldLeft(Value, 0, IF letters = {} THEN s ELSE SubSeq(s, 1, Min(letters) - 1))

(* Mutant of ParseCid: in_nsec is never set back.                          *)
ParseCidOnce(cid) ==
    LET Step(r, x) == IF x # "." THEN [r EXCEPT !.pp = Append(@, x)]
                      ELSE [r EXCEPT !.nsec = Atoi(r.pp), !.pp = <<>>]
        r == FoldLeft(Step, [pp |-> <<>>, in_nsec |-> TRUE, nsec |-> 0, sec |-> 0], cid)
    IN [nsec |-> r.nsec, sec |-> r.sec, name |-> r.pp]

(* Every '.' after the second sets the seconds and the name again.         *)
ParseCid(cid) ==
    LET Step(r, x) ==
            IF x # "." THEN [r EXCEPT !.pp = Append(@, x)]
            ELSE IF r.in_nsec
            THEN [r EXCEPT !.nsec = Atoi(r.pp), !.pp = <<>>, !.in_nsec = FALSE]
            ELSE [r EXCEPT !.sec = Atoi(r.pp), !.pp = <<>>]
        r == FoldLeft(Step, [pp |-> <<>>, in_nsec |-> TRUE, nsec |-> 0, sec |-> 0], cid)
    IN [nsec |-> r.nsec, sec |-> r.sec, name |-> r.pp]

(* The time that status takes for that of a commit, and the user that list *)
(* names, are those that gen_cid wrote, for every user name without a '.', *)
(* also one that begins with digits; the padding with zeros is undone.     *)
CidRead ==
    arg # <<>> =>
        \A nsec \in {0, 80, 999999999}, sec \in {0, 9, 1600000000} :
            ParseCid(GenCid(nsec, sec, arg)) =
                [nsec |-> nsec, sec |-> sec, name |-> arg]

-----------------------------------------------------------------------------
(* parse_remote and remote_by_name.                                        *)

(* Unset stands for a field of the caller's that has not been assigned.    *)
Unset == <<>>
Opened == [state |-> "open", from |-> <<>>, user |-> Unset, host |-> Unset,
           port |-> <<"2", "2">>, path |-> Unset]

HostEnds(r, x) ==
    IF x = ":" THEN [r EXCEPT !.state = "port", !.host = r.from, !.from = <<>>]
    ELSE [r EXCEPT !.state = "path", !.host = r.from, !.from = <<x>>]

(* Mutant of RemoteStep: a host may be followed by a port, not by a path.  *)
RemoteStepPort(r, x) ==
    CASE r.state = "open" /\ x = "@" ->
            [r EXCEPT !.state = "host", !.user = r.from, !.from = <<>>]
      [] r.state \in {"open", "host"} /\ x \in {"/", "~", ":"} ->
            IF x = ":" \/ r.state = "open" THEN HostEnds(r, x)
            ELSE [r EXCEPT !.from = Append(@, x)]
      [] r.state = "port" /\ r.from # <<>> /\ x \notin Digits ->
            [r EXCEPT !.state = "path", !.port = r.from, !.from = <<x>>]
      [] OTHER -> [r EXCEPT !.from = Append(@, x)]

(* A round of the loop; from is what lies between from and the offset.  The*)
(* first character after a ':' is not looked at.                           *)
RemoteStep(r, x) ==
    CASE r.state = "open" /\ x = "@" ->
            [r EXCEPT !.state = "host", !.user = r.from, !.from = <<>>]
      [] r.state \in {"open", "host"} /\ x \in {"/", "~", ":"} -> HostEnds(r, x)
      [] r.state = "port" /\ r.from # <<>> /\ x \notin Digits ->
            [r EXCEPT !.state = "path", !.port = r.from, !.from = <<x>>]
      [] OTHER -> [r EXCEPT !.from = Append(@, x)]

(* parse_remote; "failed" is its exit.                                     *)
ParseRemote(uri) ==
    LET r == FoldLeft(RemoteStep, Opened, uri)
    IN IF r.state # "path" THEN [r EXCEPT !.state = "failed"]
       ELSE [r EXCEPT !.state = "done",
                      !.path = IF Len(r.from) > 1 THEN r.from ELSE Unset]

(* remote_by_name: the first line that is no comment and begins with name. *)
RemoteByName(remotes, name) ==
    LET found == {i \in DOMAIN remotes : /\ Head(remotes[i]) # "#"
                                         /\ IsPrefix(name, remotes[i])}
        line == remotes[Min(found)]
    IN IF found = {} THEN [Opened EXCEPT !.state = "failed"]
       ELSE ParseRemote(TrimNL(SubSeq(line, Len(name) + 2, Len(line))))

Fields(r) == <<r.state, r.user, r.host, r.port, r.path>>

(* From a file of remotes, "name [user@]host[:port]path" with a path from  *)
(* the root or a home, each remote is read as written, whatever '@' and ':'*)
(* are in its path, as long as no name in the file begins another.         *)
RemoteRead ==
    arg # <<>> =>
    \A user \in {Unset, <<"u">>, <<"1">>}, port \in {Unset, <<"1">>, <<"2", "1">>},
       host \in {<<"h">>, <<"1", "h">>}, root \in {"/", "~"} :
        LET uri == (IF user = Unset THEN <<>> ELSE Append(user, "@")) \o host
                   \o (IF port = Unset THEN <<>> ELSE <<":">> \o port)
                   \o <<root>> \o arg
            Line(first) == <<first, "m", " ">> \o uri \o <<"\n">>
            lines == <<Line("#"), <<"o", "n", " ", "h", "/", "x", "\n">>, Line("n")>>
        IN Fields(RemoteByName(lines, <<"n", "m">>)) =
               <<"done", user, host,
                 IF port = Unset THEN Opened.port ELSE port, <<root>> \o arg>>
=============================================================================
