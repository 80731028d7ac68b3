--------------------------- MODULE MessageFraming ---------------------------
(***************************************************************************)
(* The framed messages of the coordinator-worker channel                  *)
(* (daemon/message.py).  Message.dump writes a 4-byte big-endian length   *)
(* and the body "<sender_id>\r\n<cmd>\r\n<arg1>%<arg2>%...", one byte per  *)
(* character, by ord; Message.load splits a decoded body back.            *)
(*                                                                         *)
(* A string is a sequence of one-character strings over a small alphabet, *)
(* each with its code point; a frame is a sequence of byte values.        *)
(***************************************************************************)
EXTENDS Naturals, Sequences, SequencesExt

Res(x) == [ok |-> TRUE, val |-> x]
Err(e) == [ok |-> FALSE, err |-> e]

(* The characters the checked messages are made of, with their code       *)
(* points (TLA+ strings are ASCII, so none is past 255).                    *)
Ord == ("w" :> 119) @@ ("1" :> 49) @@ ("d" :> 100) @@ ("o" :> 111) @@ ("n" :> 110)
       @@ ("e" :> 101) @@ ("x" :> 120) @@ ("-" :> 45) @@ ("%" :> 37) @@ ("\r" :> 13)
       @@ ("\n" :> 10) @@ ("2" :> 50) @@ ("3" :> 51) @@ ("0" :> 48) @@ ("a" :> 97)
       @@ ("b" :> 98)
Chr(b) == CHOOSE c \in DOMAIN Ord : Ord[c] = b

CRLF == <<"\r", "\n">>
ArgSep == <<"%">>

Msg(s, c, a) == [sender_id |-> s, cmd |-> c, args |-> a]

(* str.join and str.split with a separator of one or more characters.    *)
JoinStr(sep, vs) ==
  IF vs = <<>> THEN <<>>
  ELSE FlattenSeq([i \in DOMAIN vs |-> IF i = 1 THEN vs[i] ELSE sep \o vs[i]])

RECURSIVE SplitStr(_, _)
SplitStr(sep, v) ==
  LET at == {i \in 1..(Len(v) - Len(sep) + 1) : SubSeq(v, i, i + Len(sep) - 1) = sep}
  IN IF at = {} THEN <<v>>
     ELSE LET i == Min(at)
          IN <<SubSeq(v, 1, i - 1)>> \o SplitStr(sep, SubSeq(v, i + Len(sep), Len(v)))

(* int.to_bytes(4, "big"); its OverflowError past 2^32 - 1 needs a body  *)
(* longer than any here (and than TLC's integers).                         *)
BigEndian4(n) == [i \in 1..4 |-> (n \div (256 ^ (4 - i))) % 256]

MsgBody(m) == m.sender_id \o CRLF \o m.cmd \o CRLF \o JoinStr(ArgSep, m.args)

(* Message.dump: the length first, then bytearray.extend(map(ord, body)), *)
(* which raises ValueError on a character past 255.                       *)
MsgDump(m) ==
  LET body == MsgBody(m)
  IN IF \E i \in DOMAIN body : Ord[body[i]] > 255 THEN Err("ValueError")
     ELSE Res(BigEndian4(Len(body)) \o [i \in DOMAIN body |-> Ord[body[i]]])

(* Mutant: the argument field taken whole, not split at "%".              *)
MsgLoadUnsplit(t) ==
  LET tokens == SplitStr(CRLF, t)
  IN IF Len(tokens) < 3 THEN Err("IndexError")
     ELSE Res(Msg(tokens[1], tokens[2], <<tokens[3]>>))

(* Message.load: tokens[2] is an IndexError when the body has fewer than *)
(* two "\r\n"; tokens after the third are dropped.                        *)
MsgLoad(t) ==
  LET tokens == SplitStr(CRLF, t)
  IN IF Len(tokens) < 3 THEN Err("IndexError")
     ELSE Res(Msg(tokens[1], tokens[2], SplitStr(ArgSep, tokens[3])))

(* The reader's side of a frame: the length from the first four bytes and *)
(* the body, one character per byte.                                       *)
FrameLength(f) == ((f[1] * 256 + f[2]) * 256 + f[3]) * 256 + f[4]
FrameBody(f) == [i \in 1..(Len(f) - 4) |-> Chr(f[i + 4])]

-----------------------------------------------------------------------------
(* The messages checked: the channel's commands, sender ids and argument *)
(* lists of one or two arguments, an empty one among them, whose text      *)
(* holds neither "%" nor "\r\n" and only ASCII, as the spec requires of   *)
(* argument values.                                                        *)
Senders == {<<"w", "1">>, <<"e">>}
Cmds == {<<"d", "o", "n", "e">>, <<"e", "x">>}
ArgValues == {<<"d", "-", "x">>, <<"n">>, <<>>}
ArgLists == {<<a>> : a \in ArgValues} \cup {<<a, b>> : a, b \in ArgValues}
FramedMessages == {Msg(s, c, a) : s \in Senders, c \in Cmds, a \in ArgLists}

(* m survives the channel: Message.dump succeeds, its length prefix is   *)
(* the number of body bytes that follow, and Message.load of the body     *)
(* read back gives the sender, the command and every argument in order.  *)
RoundTrips(m) ==
  LET d == MsgDump(m)
  IN /\ d.ok
     /\ FrameLength(d.val) = Len(d.val) - 4
     /\ MsgLoad(FrameBody(d.val)) = Res(m)

FramedMessagesRoundTrip == \A m \in FramedMessages : RoundTrips(m)

====
