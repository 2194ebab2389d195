----------------------------- MODULE MCConsole -----------------------------
(***************************************************************************)
(* Formats of up to two items, every conversion with and without a width,  *)
(* ints of five bits and arguments of twice that, texts that look like     *)
(* conversions.  A format that is cut may be followed by another string,   *)
(* with a conversion of its own.                                           *)
(***************************************************************************)
EXTENDS Console

Number64(n) == [int |-> n]
Char(ch) == [char |-> ch]
Text(str) == [string |-> str]

Widths == {<<>>, <<"0", "2">>, <<"1", "2">>}
Specs == {"c", "s", "d", "x", "%", "a"}

Items ==
  {[text |-> ch] : ch \in {"a", "2"}} \cup
  {[spec |-> s, width |-> w] : s \in Specs, w \in Widths}
Cuts == {[cut |-> w] : w \in Widths}

(* Too large for an int: it becomes negative, or small once more. *)
TooWide == {<<"2", "0">>, <<"3", "4">>}

Behind == {<<>>, <<"a", NUL>>, <<"%", "d", NUL>>}

ArgsOf(item) ==
  IF ~Takes(item) THEN {<<>>}
  ELSE CASE item.spec = "c" -> {<<Char("%")>>}
         [] item.spec = "s" -> {<<Text(<<>>)>>, <<Text(<<"%", "d">>)>>}
         [] OTHER -> {<<Number64(n)>> :
                        n \in {0, -1, -(IntMod \div 2), IntMod + 18}}

PrintfCall(items, args, behind) ==
  [items |-> items, args |-> args, behind |-> behind]

(* One item, two items, a cut format, a width too large, and a format       *)
(* without its argument.                                                    *)
MCCalls ==
  UNION {{PrintfCall(<<i>>, a, <<>>) : a \in ArgsOf(i)} : i \in Items} \cup
  UNION {{PrintfCall(<<i, j>>, a \o b, <<>>) : a \in ArgsOf(i), b \in ArgsOf(j)}
           : i \in Items, j \in Items} \cup
  UNION {{PrintfCall(<<i, j>>, a, b) : a \in ArgsOf(i), b \in Behind}
           : i \in Items, j \in Cuts} \cup
  {PrintfCall(<<j>>, <<>>, b) : j \in Cuts, b \in Behind} \cup
  UNION {{PrintfCall(<<i>>, a, <<>>) : a \in ArgsOf(i)} :
           i \in {[spec |-> s, width |-> w] : s \in Specs, w \in TooWide}} \cup
  {PrintfCall(<<[spec |-> "d", width |-> <<>>]>>, <<>>, <<>>)}

MCStrings == {<<>>, <<"a", "b">>}
=============================================================================
