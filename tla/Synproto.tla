------------------------------ MODULE Synproto ------------------------------
(***************************************************************************)
(* How a message to the server is made: synproto_vprintf, which takes its  *)
(* format apart one character at a time with in_token as its only memory,  *)
(* synproto_send, which puts the length word in front, and the server that *)
(* cuts what it receives into packets again.                               *)
(*                                                                         *)
(* A job is one call of synproto_send: the tokens its format is written    *)
(* from, together with their arguments, and force_sz.  What is written to  *)
(* the buffer is a sequence of <<0, c>>, the character c of the format,    *)
(* and <<k, j>>, a byte of argument k: byte j of an integer, 0 the lowest, *)
(* or character j of a string.                                             *)
(***************************************************************************)
EXTENDS Integers, SequencesExt

CONSTANTS
    Job,        \* the calls of synproto_send
    Char,       \* the characters a format is made of
    DigitValue  \* DigitValue[c]: what a character that is a digit stands for

Digit == DOMAIN DigitValue

ASSUME CharsOK ==
    /\ {"%", "i", "s"} \cup Digit \subseteq Char
    /\ {"%", "i", "s"} \cap Digit = {}
    /\ DigitValue \in [Digit -> 0 .. 9]

\* What a format is made of: a character that stands for itself (a % cannot
\* be written), %ni with a width of one digit, or %s with a string.
Token ==
    [type : {"lit"}, is : Char \ {"%"}]
        \cup [type : {"int"}, is : Int, width : {DigitValue[c] : c \in Digit}]
        \cup [type : {"str"}, is : Nat]

ASSUME JobsOK == Job \subseteq [tokens : Seq(Token), force_sz : 0 .. 255]

VARIABLES
    job,       \* the call
    fmt,       \* its format
    in_pos,    \* the character synproto_vprintf looks at
    in_token,  \* 0, or the width of the integer that may follow
    argn,      \* arguments taken by va_arg
    out,       \* what is in the buffer after the length word
    word,      \* the length word, or -1: nothing was sent yet
    read       \* elements of out the server has taken packets from

vars == <<job, fmt, in_pos, in_token, argn, out, word, read>>

Lit(c) == [type |-> "lit", is |-> c]
Num(n, v) == [type |-> "int", is |-> v, width |-> n]
Str(len) == [type |-> "str", is |-> len]

Written(t) ==
    CASE t.type = "lit" -> <<t.is>>
      [] t.type = "int" -> <<"%", CHOOSE c \in Digit : DigitValue[c] = t.width, "i">>
      [] t.type = "str" -> <<"%", "s">>

FormatOf(tokens) == FlattenSeq([k \in DOMAIN tokens |-> Written(tokens[k])])

\* The arguments of a call, in order.
ArgsOf(tokens) ==
    FlattenSeq([k \in DOMAIN tokens |->
                    IF tokens[k].type = "lit" THEN << >> ELSE <<tokens[k]>>])
Args == ArgsOf(job.tokens)

\* The replies of synproto_parse_and_reply, with a client name of len bytes.
Lits(w) == [k \in DOMAIN w |-> Lit(w[k])]
Hello(len) ==
    [tokens |-> Lits(<<"B", "a", "r", "r", "i", "e", "r">>)
                    \o <<Num(2, 1), Num(2, 6), Num(4, 7), Str(len)>>,
     force_sz |-> 0]
ScreenInfo(w, h) ==
    [tokens |-> Lits(<<"D", "I", "N", "F">>)
                    \o <<Num(2, 0), Num(2, 0), Num(2, w), Num(2, h),
                         Num(2, 0), Num(2, 0), Num(2, 0)>>,
     force_sz |-> 0]
KeepAlive ==
    [tokens |-> Lits(<<"C", "A", "L", "V">>) \o <<Num(4, 4)>>
                    \o Lits(<<"C", "N", "O", "P">>),
     force_sz |-> 4]

Cell == ({0} \X Char) \cup ((Nat \ {0}) \X Nat)

TypeOK ==
    /\ job \in Job
    /\ fmt = FormatOf(job.tokens)
    /\ in_pos \in 1 .. Len(fmt) + 1
    /\ in_token \in Nat
    /\ argn \in 0 .. in_pos - 1
    /\ out \in Seq(Cell)
    /\ \A i \in DOMAIN out : out[i][1] \in 0 .. argn
    /\ word \in Nat \cup {-1}
    /\ read \in 0 .. Len(out)

Init ==
    /\ job \in Job
    /\ fmt = FormatOf(job.tokens)
    /\ in_pos = 1
    /\ in_token = 0
    /\ argn = 0
    /\ out = << >>
    /\ word = -1
    /\ read = 0

-----------------------------------------------------------------------------
(* synproto_vprintf: the cases of its switch.                              *)

Reading(S) ==
    /\ word = -1
    /\ in_pos <= Len(fmt)
    /\ fmt[in_pos] \in S
    /\ in_pos' = in_pos + 1
    /\ UNCHANGED <<job, fmt, word, read>>

Percent ==
    /\ Reading({"%"})
    /\ in_token' = 4
    /\ UNCHANGED <<argn, out>>

\* atoi() of the format from here on: all the digits that follow, too.
RunEnd ==
    CHOOSE m \in in_pos .. Len(fmt) :
        /\ \A i \in in_pos .. m : fmt[i] \in Digit
        /\ m < Len(fmt) => fmt[m + 1] \notin Digit
Atoi ==
    LET value[i \in in_pos .. RunEnd] ==
            IF i = in_pos THEN DigitValue[fmt[i]]
            ELSE 10 * value[i - 1] + DigitValue[fmt[i]]
    IN  value[RunEnd]

Width ==
    /\ Reading(Digit)
    /\ in_token # 0
    /\ in_token' = Atoi
    /\ UNCHANGED <<argn, out>>

\* Mutant: the integer is copied as it lies in memory.
BytesInOrder(k, n) == [i \in 1 .. n |-> <<k, i - 1>>]

\* Network order, from a host that stores the low byte first.
BytesOf(k, n) == [i \in 1 .. n |-> <<k, n - i>>]

Integer ==
    /\ Reading({"i"})
    /\ in_token \in {1, 2, 4}
    /\ out' = out \o BytesOf(argn + 1, in_token)
    /\ argn' = argn + 1
    /\ in_token' = 0

\* "invalid token size": what was written so far is sent.
BadWidth ==
    /\ word = -1
    /\ in_pos <= Len(fmt)
    /\ fmt[in_pos] = "i"
    /\ in_token \notin {0, 1, 2, 4}
    /\ in_pos' = Len(fmt) + 1
    /\ UNCHANGED <<job, fmt, in_token, argn, out, word, read>>

\* Mutant: the argument is used but not counted.
StringAgain ==
    /\ Reading({"s"})
    /\ in_token # 0
    /\ out' = out \o
        [i \in 1 .. IF argn < Len(Args) THEN Args[argn + 1].is ELSE 0 |->
            <<argn + 1, i>>]
    /\ UNCHANGED <<argn, in_token>>

\* in_token stays as it is.  An argument the caller did not pass is taken
\* for a string of no characters: the properties need not know more of it.
String ==
    /\ Reading({"s"})
    /\ in_token # 0
    /\ argn' = argn + 1
    /\ out' = out \o
        [i \in 1 .. IF argn' <= Len(Args) THEN Args[argn'].is ELSE 0 |->
            <<argn', i>>]
    /\ UNCHANGED in_token

\* Mutant: a token is left pending.
LiteralLeavesToken ==
    /\ Reading(Char \ {"%"})
    /\ fmt[in_pos] \in Digit \cup {"i", "s"} => in_token = 0
    /\ out' = Append(out, <<0, fmt[in_pos]>>)
    /\ UNCHANGED <<argn, in_token>>

Literal ==
    /\ Reading(Char \ {"%"})
    /\ fmt[in_pos] \in Digit \cup {"i", "s"} => in_token = 0
    /\ out' = Append(out, <<0, fmt[in_pos]>>)
    /\ in_token' = 0
    /\ UNCHANGED argn

-----------------------------------------------------------------------------
(* synproto_send, and the server.                                          *)

\* Mutant: the size is forced whether the caller asks for it or not.
LengthWordForced == 4

\* force_sz other than 0 makes it 4, whatever force_sz is.
LengthWord == IF job.force_sz # 0 THEN 4 ELSE Len(out)

Send ==
    /\ word = -1
    /\ in_pos > Len(fmt)
    /\ word' = LengthWord
    /\ UNCHANGED <<job, fmt, in_pos, in_token, argn, out, read>>

\* Where the packet after the first read elements starts, and its length: -1
\* if what is there is not a length word that the client wrote.
Start == IF read = 0 THEN 0 ELSE read + 4
PacketLength ==
    IF read = 0 THEN word
    ELSE IF /\ Start <= Len(out)
            /\ out[read + 1][1] \in DOMAIN Args
            /\ SubSeq(out, read + 1, Start) = [i \in 1 .. 4 |-> <<out[read + 1][1], 4 - i>>]
         THEN Args[out[read + 1][1]].is
         ELSE -1

CanRead ==
    /\ word # -1
    /\ read < Len(out)
    /\ PacketLength >= 4
    /\ Start + PacketLength <= Len(out)

ServerReads ==
    /\ CanRead
    /\ read' = Start + PacketLength
    /\ UNCHANGED <<job, fmt, in_pos, in_token, argn, out, word>>

Next ==
    \/ Percent
    \/ Width
    \/ Integer
    \/ BadWidth
    \/ String
    \/ Literal
    \/ Send
    \/ ServerReads

Spec == Init /\ [][Next]_vars

-----------------------------------------------------------------------------
(* Properties.                                                             *)

\* The formats synproto_vprintf can be given: the widths are those it knows,
\* and nothing that can be part of a token comes after a string.
Supported(tokens) ==
    /\ \A k \in DOMAIN tokens : tokens[k].type = "int" => tokens[k].width \in {1, 2, 4}
    /\ \A k \in 1 .. Len(tokens) - 1 :
        tokens[k].type = "str" =>
            Written(tokens[k + 1])[1] \notin Digit \cup {"i", "s"}

\* What token k of the call comes to in the message, and the message.
Meaning(tokens, k) ==
    LET n == Len(ArgsOf(SubSeq(tokens, 1, k)))
        t == tokens[k]
    IN  CASE t.type = "lit" -> <<<<0, t.is>>>>
          [] t.type = "int" -> [i \in 1 .. t.width |-> <<n, t.width - i>>]
          [] t.type = "str" -> [i \in 1 .. t.is |-> <<n, i>>]

MessageOf(tokens) == FlattenSeq([k \in DOMAIN tokens |-> Meaning(tokens, k)])

\* "write those tokens into a buffer using specific tokens listed here"
\* (synproto.h:59-71): the machine that reads a format by single characters
\* writes what its tokens mean, also where literal text looks like a part of
\* a token, as the i of "Barrier" does.
AsDocumented ==
    word # -1 /\ Supported(job.tokens) => out = MessageOf(job.tokens)

\* A message of one packet, which starts with a tag of four characters, as
\* ScreenInfo and Hello do.
Tagged ==
    /\ Supported(job.tokens)
    /\ job.force_sz = 0
    /\ Len(job.tokens) >= 4
    /\ \A k \in 1 .. 4 : job.tokens[k].type = "lit"

\* The server can cut each of the client's replies into packets with nothing
\* left over; that holds of the keepalive too, whose length word covers only
\* its first half (synproto.c:140, 242).
WellFramed ==
    word # -1 /\ (Tagged \/ job = KeepAlive) => CanRead \/ read = Len(out)

\* Where the machine is when it has read k tokens of a supported format, or
\* stands inside the token after them, and what it has written by then.
First(k) == SubSeq(job.tokens, 1, k)

ReadAndWritten(k) ==
    /\ argn = Len(ArgsOf(First(k)))
    /\ out = MessageOf(First(k))

Between(k) ==
    /\ in_pos = Len(FormatOf(First(k))) + 1
    /\ in_token = 0 \/ (k > 0 /\ job.tokens[k].type = "str")

Inside(k) ==
    /\ k < Len(job.tokens)
    /\ job.tokens[k + 1].type # "lit"
    /\ \/ /\ in_pos = Len(FormatOf(First(k))) + 2
          /\ in_token = 4
       \/ /\ job.tokens[k + 1].type = "int"
          /\ in_pos = Len(FormatOf(First(k))) + 3
          /\ in_token = job.tokens[k + 1].width

\* The invariant: the machine is at a place of a token, nothing is read
\* before it is sent, and the server is at the end of a packet.
SynprotoInv ==
    /\ word = -1 => read = 0
    /\ word = -1 /\ Supported(job.tokens) =>
        \E k \in 0 .. Len(job.tokens) : ReadAndWritten(k) /\ (Between(k) \/ Inside(k))
    /\ word # -1 => word = LengthWord
    /\ word # -1 /\ Tagged => read \in {0, Len(out)}
    /\ word # -1 /\ job = KeepAlive => read \in {0, 4, Len(out)}
=============================================================================
