------------------------------ MODULE Console ------------------------------
(***************************************************************************)
(* src/src/drivers/console/console.c: the choice of a driver, and the      *)
(* functions that hand characters to it, console_printf one iteration of   *)
(* its loops at a time.  Of itoa it uses what Itoa.tla establishes.        *)
(*                                                                         *)
(* A call of console_printf is a record of the set Calls: what the format  *)
(* says, as a sequence of items; args, the values passed; and behind, what *)
(* follows the format in memory, one or more terminated strings.  An item  *)
(* is [text |-> ch], a character that stands for itself;              *)
(* [spec |-> ch, width |-> digits], a conversion; or [cut |-> digits], a   *)
(* percent sign and digits at the end of the format.  An argument is       *)
(* [int |-> n], [char |-> ch] or [string |-> characters].                  *)
(***************************************************************************)
EXTENDS Numerals, FiniteSets, SequencesExt

CONSTANTS
  Calls,     (* the calls of console_printf, as above                      *)
  Strings,   (* the strings passed to console_puts                         *)
  NUL        (* the terminator of strings                                  *)

VARIABLES
  fb_addr,      (* fb.addr, 0 or not                                       *)
  console_drv,  (* the driver installed                                    *)
  pc,           (* where console_printf is, "idle" outside                 *)
  fmt,          (* the memory from the format on ...                       *)
  p,            (* ... and where in it console_printf reads                *)
  width,        (* the digits of the conversion so far                     *)
  va,           (* the arguments not yet taken                             *)
  call,         (* the call under way; a history variable                  *)
  given         (* what the driver has been given by it, or by the direct  *)
                (* call just made: characters, "clear", "scroll"; a        *)
                (* history variable too                                    *)

printf == <<fmt, p, width, va>>
vars == <<fb_addr, console_drv, pc, printf, call, given>>

Decimal == {Digit[d] : d \in 0 .. 9}

(* NUL is none of the characters console_printf looks for. *)
ASSUME ConsoleAssumption ==
  NUL \notin Decimal \cup {"%", "c", "s", "d", "x"}

(* *fmt - '0' *)
DigitValue(ch) == CHOOSE d \in 0 .. 9 : Digit[d] = ch

Nothing == [items |-> <<>>, args |-> <<>>, behind |-> <<>>]

Init ==
  /\ fb_addr = 0 /\ console_drv = "noop" /\ pc = "boot"
  /\ fmt = <<NUL>> /\ p = 1 /\ width = 0 /\ va = <<>>
  /\ call = Nothing /\ given = <<>>

(* A plausible bug: the driver is installed before the address is tested. *)
Mutconsole_init(address) ==
  /\ pc = "boot" /\ pc' = "idle"
  /\ fb_addr' = address /\ console_drv' = "rgb"
  /\ UNCHANGED <<printf, call, given>>

(* kernel_main makes this call first, and only once, and ignores a failure. *)
(* Nothing here takes a driver out again: a second call that fails would   *)
(* leave the one of the first on the new fb, at address 0.                 *)
console_init(address) ==
  /\ pc = "boot" /\ pc' = "idle"
  /\ fb_addr' = address
  /\ console_drv' = IF address = 0 THEN console_drv ELSE "rgb"
  /\ UNCHANGED <<printf, call, given>>

(* What reaches the driver when the console asks for chs. *)
Reaching(chs) == IF console_drv = "noop" THEN <<>> ELSE chs

(* console_clear, console_scroll, console_putc and console_puts. *)
Direct(chs) ==
  /\ pc = "idle"
  /\ given' = Reaching(chs) /\ call' = Nothing
  /\ UNCHANGED <<fb_addr, console_drv, pc, printf>>

console_clear == Direct(<<"clear">>)
console_scroll == Direct(<<"scroll">>)
console_puts(str) == Direct(str)

-----------------------------------------------------------------------------
(* console_printf. *)

(* The characters of an item. *)
Spelling(item) ==
  CASE "text" \in DOMAIN item -> <<item.text>>
    [] "spec" \in DOMAIN item -> <<"%">> \o item.width \o <<item.spec>>
    [] OTHER -> <<"%">> \o item.cut

Format(c) == FlattenSeq([j \in DOMAIN c.items |-> Spelling(c.items[j])])

console_printf(c) ==
  /\ pc = "idle" /\ pc' = "text"
  /\ fmt' = Format(c) \o <<NUL>> \o c.behind
  /\ p' = 1 /\ width' = 0 /\ va' = c.args
  /\ call' = c /\ given' = <<>>
  /\ UNCHANGED <<fb_addr, console_drv>>

(* The processor has read all of fmt the model knows of, or an argument    *)
(* nobody passed: what happens from here on the source does not say.       *)
Wild == pc' = "wild" /\ UNCHANGED <<fb_addr, console_drv, printf, call, given>>

Give(chs) == given' = given \o Reaching(chs)

More == p <= Len(fmt)

RunAway == pc \in {"text", "width"} /\ ~More /\ Wild

(* while ((ch = *fmt++)) *)
AtEnd == pc = "text" /\ More /\ fmt[p] = NUL

(* A plausible bug: the terminator is passed over. *)
MutEndOfFormat ==
  /\ AtEnd /\ p' = p + 1
  /\ UNCHANGED <<fb_addr, console_drv, pc, fmt, width, va, call, given>>

(* console_printf returns, and with it die its variables. *)
EndOfFormat ==
  /\ AtEnd /\ pc' = "idle"
  /\ fmt' = <<NUL>> /\ p' = 1 /\ width' = 0 /\ va' = <<>>
  /\ call' = Nothing /\ given' = <<>>
  /\ UNCHANGED <<fb_addr, console_drv>>

PutText ==
  /\ pc = "text" /\ More /\ fmt[p] \notin {NUL, "%"}
  /\ Give(<<fmt[p]>>)
  /\ p' = p + 1
  /\ UNCHANGED <<fb_addr, console_drv, pc, fmt, width, va, call>>

Percent ==
  /\ pc = "text" /\ More /\ fmt[p] = "%"
  /\ pc' = "width" /\ width' = 0 /\ p' = p + 1
  /\ UNCHANGED <<fb_addr, console_drv, fmt, va, call, given>>

(* A plausible bug: the digits are taken in the wrong order. *)
MutWidened(ch) == AsInt(width + 10 * DigitValue(ch))

(* width is an int.  That it gets too large is undefined in C; the build   *)
(* wraps it.                                                               *)
Widened(ch) == AsInt(width * 10 + DigitValue(ch))

WidthDigit ==
  /\ pc = "width" /\ More /\ fmt[p] \in Decimal
  /\ width' = Widened(fmt[p]) /\ p' = p + 1
  /\ UNCHANGED <<fb_addr, console_drv, pc, fmt, va, call, given>>

(* print_number: what it gives to console_putc. *)
Number(v, base) ==
  LET buffer == Shown(v, base)
      minus == buffer[1] = "-"
      num == IF minus THEN Tail(buffer) ELSE buffer
  IN  (IF minus THEN <<"-">> ELSE <<>>)
        \o [j \in 1 .. (width - Len(num)) |-> "0"] \o num

(* A plausible bug: the character behind the specifier is skipped. *)
MutConvert(chs) ==
  /\ pc = "width" /\ More /\ fmt[p] \notin Decimal
  /\ pc' = "text" /\ p' = p + 2
  /\ Give(chs)
  /\ UNCHANGED <<fb_addr, console_drv, fmt, width, call>>

(* The end of an iteration: the specifier is read and chs are printed. *)
Convert(chs) ==
  /\ pc = "width" /\ More /\ fmt[p] \notin Decimal
  /\ pc' = "text" /\ p' = p + 1
  /\ Give(chs)
  /\ UNCHANGED <<fb_addr, console_drv, fmt, width, call>>

(* va_arg, of the type the specifier asks for. *)
TakesArg(spec) == spec \in {"c", "s", "d", "x"}

Kind(spec) ==
  CASE spec = "c" -> "char" [] spec = "s" -> "string" [] OTHER -> "int"

CanTake(spec) == va # <<>> /\ Kind(spec) \in DOMAIN Head(va)

Argument ==
  /\ More /\ TakesArg(fmt[p]) /\ CanTake(fmt[p])
  /\ va' = Tail(va)
  /\ CASE fmt[p] = "c" -> Convert(<<Head(va).char>>)
       [] fmt[p] = "s" -> Convert(Head(va).string)
       [] fmt[p] = "d" -> Convert(Number(AsInt(Head(va).int), 10))
       [] fmt[p] = "x" -> Convert(Number(AsInt(Head(va).int), 16))

NoArgument ==
  /\ pc = "width" /\ More /\ TakesArg(fmt[p]) /\ ~CanTake(fmt[p]) /\ Wild

(* The cases of the switch without an argument; the terminator is one. *)
Plain(spec) == IF spec = "%" THEN <<"%">> ELSE <<"%", spec>>

OtherSpec ==
  /\ More /\ ~TakesArg(fmt[p])
  /\ Convert(Plain(fmt[p]))
  /\ UNCHANGED va

Run ==
  \/ RunAway \/ EndOfFormat \/ PutText \/ Percent \/ WidthDigit
  \/ Argument \/ NoArgument \/ OtherSpec

Next ==
  \/ \E address \in {0, 1} : console_init(address)
  \/ console_clear \/ console_scroll
  \/ \E str \in Strings : console_puts(str)
  \/ \E c \in Calls : console_printf(c)
  \/ Run

Spec == Init /\ [][Next]_vars

(* A processor that has entered a function goes on executing it. *)
FairSpec == Spec /\ WF_vars(Run)

-----------------------------------------------------------------------------
(* What a call of console_printf says, item by item, without the parser.   *)

Takes(item) == "spec" \in DOMAIN item /\ TakesArg(item.spec)
Complete(c) == \A j \in DOMAIN c.items : "cut" \notin DOMAIN c.items[j]

(* How many arguments the first j items take. *)
Taken(c, j) == Cardinality({h \in 1 .. j : Takes(c.items[h])})

(* A call whose arguments are those its format asks for. *)
ArgumentsMatch(c) ==
  /\ Taken(c, Len(c.items)) = Len(c.args)
  /\ \A j \in DOMAIN c.items :
       Takes(c.items[j]) => Kind(c.items[j].spec) \in DOMAIN c.args[Taken(c, j)]

(* Each digit with its place value. *)
WidthOf(digits) ==
  LET upTo[n \in 0 .. Len(digits)] ==
        IF n = 0 THEN 0
        ELSE upTo[n - 1] + DigitValue(digits[n]) * Power(10, Len(digits) - n)
  IN  upTo[Len(digits)]

(* No width is too large for an int. *)
WidthsFit(c) ==
  \A j \in DOMAIN c.items :
    "spec" \in DOMAIN c.items[j] => WidthOf(c.items[j].width) \in Ints

(* The text of a conversion; arg is its argument, if it takes one, and     *)
(* counted what a minus counts in the width.                               *)
Converted(item, arg, counted) ==
  LET InBase(base) ==
        Padded(AsInt(arg.int), base, WidthOf(item.width), counted)
  IN  CASE item.spec = "c" -> <<arg.char>>
        [] item.spec = "s" -> arg.string
        [] item.spec = "d" -> InBase(10)
        [] item.spec = "x" -> InBase(16)
        [] item.spec = "%" -> <<"%">>
        [] OTHER -> <<"%", item.spec>>

Rendering(c, counted) ==
  LET TextOf(item, j) ==
        CASE "text" \in DOMAIN item -> <<item.text>>
          [] Takes(item) -> Converted(item, c.args[Taken(c, j)], counted)
          [] OTHER -> Converted(item, NUL, counted)
  IN  FlattenSeq([j \in DOMAIN c.items |-> TextOf(c.items[j], j)])

-----------------------------------------------------------------------------
(* Properties. *)

TypeOK ==
  /\ fb_addr \in {0, 1} /\ console_drv \in {"noop", "rgb"}
  /\ pc \in {"boot", "idle", "text", "width", "wild"}
  /\ p \in 1 .. (Len(fmt) + 1) /\ width \in Ints
  /\ Len(va) <= Len(call.args)

(* The frame buffer driver is never called on a frame buffer at 0, although *)
(* kernel_main goes on when console_init fails (console.c:25, main.c:20).   *)
NeverPaintsAtNull == given # <<>> => fb_addr # 0

(* console_printf is through with a format that is complete and has no      *)
(* width an int cannot hold, and the driver is there. *)
Printed ==
  AtEnd /\ Complete(call) /\ WidthsFit(call) /\ console_drv = "rgb"

(* Then the driver has been given the text of each item, in order, each     *)
(* argument in its own place.  A minus is in front of the zeros; whether it *)
(* counts in the width is the same in all of the text, and left open here:  *)
(* it does not (console.c:57), but README.md:15 has FIX PRINT_NUMBER TO     *)
(* ACCOUNT FOR NEGATIVES among the things to do.                            *)
FormattedAsWritten ==
  Printed => \E counted \in {0, 1} : given = Rendering(call, counted)

(* console_printf reads behind the terminator of its format (console.c:86)  *)
(* if and only if the format ends inside a conversion, and otherwise never  *)
(* runs wild when the arguments are the right ones.                         *)
StaysInFormat ==
  LET past == Len(Format(call)) + 1 < p
  IN  /\ past => ~Complete(call)
      /\ AtEnd /\ ~Complete(call) => past
      /\ pc = "wild" /\ ArgumentsMatch(call) => ~Complete(call)

(* A call with a complete format and the right arguments returns. *)
EveryCallReturns ==
  (pc = "text" /\ Complete(call) /\ ArgumentsMatch(call)) ~> (pc = "idle")

-----------------------------------------------------------------------------
(* What the repository says of this code and the code does not do. *)

(* README.md lists support for unsigned and for 64 bit numbers as missing   *)
(* from console_printf; main.c:60 prints 64 bit addresses with %08x.  Then  *)
(* a printed address would be the address.                                  *)
WholeAddressIsShown ==
  AtEnd /\ console_drv = "rgb" =>
    \A j \in DOMAIN call.items :
      /\ Len(call.items) = 1 /\ Takes(call.items[j])
      /\ call.items[j].spec = "x" /\ call.items[j].width = <<"0", "2">>
      /\ call.args[1].int >= 0
      => LET n == call.args[1].int
         IN  given = Digits(n, 16, Larger(2, Places(n, 16)))
=============================================================================
