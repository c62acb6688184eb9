------------------------------- MODULE Printf -------------------------------
(***************************************************************************)
(* The two formatters of the kernel: printf (libc/stdio/printf.c), which   *)
(* prints on the terminal, and the vasprintf of log_print                  *)
(* (kernel/ui/log.c), which fills a buffer.  A text is a sequence of       *)
(* characters, an argument a machine word, a character or a text.          *)
(***************************************************************************)
EXTENDS Integers, Sequences

CONSTANT WORD          \* the number of values of an int

NUL == "NUL"
CharAt(s, k) == IF k \in 1..Len(s) THEN s[k] ELSE NUL

(* The digits of %x; the capitals of %X are left out. *)
Digit == <<"0", "1", "2", "3", "4", "5", "6", "7", "8", "9", "a", "b", "c", "d", "e", "f">>

(* Mutant of DigitCount: a value that equals the base still counts as one digit. *)
DigitCount_short(value, base) ==
  LET count[v \in Nat] == IF base < v THEN 1 + count[v \div base] ELSE 1
  IN count[value]

DigitCount(value, base) ==
  LET count[v \in Nat] == IF base <= v THEN 1 + count[v \div base] ELSE 1
  IN count[value]

(* The digits of value, as many as asked for, filled from the last one. *)
Digits(value, base, n) ==
  LET rest[k \in Nat] == IF k = 0 THEN value ELSE rest[k - 1] \div base
  IN [k \in 1..n |-> Digit[(rest[n - k] % base) + 1]]

convert_integer(value, base) == Digits(value, base, DigitCount(value, base))

-----------------------------------------------------------------------------
(* printf.                                                                 *)

LengthModifiers == {<<"h", "h">>, <<"h">>, <<>>, <<"l">>, <<"l", "l">>, <<"L">>,
                    <<"j">>, <<"z">>, <<"t">>}

(* The longest modifier that the format has at k. *)
ModifierAt(format, k) ==
  LET here == {m \in LengthModifiers : \A n \in 1..Len(m) : CharAt(format, k + n - 1) = m[n]}
  IN CHOOSE m \in here : \A o \in here : Len(o) <= Len(m)

Signed == {"d", "i"}
Base(conversion) == CASE conversion \in {"x", "X"} -> 16 [] conversion = "o" -> 8 [] OTHER -> 10

(* Whether the conversion c with modifier m is one that printf knows. *)
Known(c, m) ==
  \/ c \in Signed /\ m \notin {<<"L">>, <<"z">>}
  \/ c \in {"o", "u", "x", "X", "p"} /\ m # <<"L">>
  \/ c \in {"c", "s"}

(* The characters a conversion prints for its argument. *)
Converted(c, arg) ==
  CASE c \in Signed /\ 2 * arg >= WORD -> <<"-">> \o convert_integer(WORD - arg, 10)
    [] c \in {"o", "u", "x", "X", "p"} \/ (c \in Signed /\ 2 * arg < WORD) ->
         convert_integer(arg, Base(c))
    [] c = "c" -> <<arg>>
    [] c = "s" -> arg

(* print_c: the character at k, and all that follow up to the next '%'. *)
RawEnd(format, k) ==
  CHOOSE n \in (k + 1)..(Len(format) + 1) :
    /\ CharAt(format, n) \in {"%", NUL}
    /\ \A m \in (k + 1)..(n - 1) : CharAt(format, m) # "%"

(* What printf prints from the k-th character of the format and the a-th argument
   on.  After a conversion it does not know, it prints the rest of the format as it
   stands, but for '%%'. *)
printf(format, args) ==
  LET from[s \in Nat \X Nat \X BOOLEAN] ==
        LET k == s[1]
            a == s[2]
            rejected == s[3]
            raw(j, r) == SubSeq(format, j, RawEnd(format, j) - 1)
                           \o from[<<RawEnd(format, j), a, r>>]
            m == ModifierAt(format, k + 1)
            c == CharAt(format, k + 1 + Len(m))
        IN IF k > Len(format) THEN <<>>
           ELSE IF format[k] # "%" THEN raw(k, rejected)
           ELSE IF CharAt(format, k + 1) = "%" THEN raw(k + 1, rejected)
           ELSE IF rejected \/ ~ Known(c, m) THEN raw(k, TRUE)
           ELSE Converted(c, args[a]) \o from[<<k + 2 + Len(m), a + 1, FALSE>>]
  IN from[<<1, 1, FALSE>>]

-----------------------------------------------------------------------------
(* vasprintf of log.c.                                                     *)

(* 9, 99, 999, ... as the loop of print_dec computes them, wrapping around. *)
Nines[k \in Nat] == IF k = 0 THEN 0 ELSE (Nines[k - 1] * 10 + 9) % WORD

(* One of them is the largest word, where the loop ends: the k-th if there are 2^k
   words. *)
ASSUME PrintfAssumption ==
  /\ WORD \in Nat /\ WORD > 9
  /\ \E n \in 1..64 : Nines[n] = WORD - 1

DecWidth(value) ==
  CHOOSE n \in 1..64 :
    /\ value <= Nines[n] \/ Nines[n] = WORD - 1
    /\ \A m \in 1..(n - 1) : value > Nines[m] /\ Nines[m] # WORD - 1

Zeros(n) == [k \in 1..(IF n > 0 THEN n ELSE 0) |-> "0"]

print_dec(value, width) ==
  Zeros(width - DecWidth(value)) \o Digits(value, 10, DecWidth(value))

print_hex(value, width) ==
  Zeros((IF width = 0 THEN 8 ELSE width) - DigitCount(value, 16))
    \o convert_integer(value, 16)

(* The width at k: how many digits, and their value. *)
WidthEnd(fmt, k) ==
  CHOOSE n \in k..(Len(fmt) + 1) :
    /\ \A d \in 1..10 : CharAt(fmt, n) # Digit[d]
    /\ \A m \in k..(n - 1) : \E d \in 1..10 : fmt[m] = Digit[d]
WidthValue(fmt, k) ==
  LET value[n \in Nat] ==
        IF n <= k THEN 0
        ELSE value[n - 1] * 10 + (CHOOSE d \in 0..9 : Digit[d + 1] = fmt[n - 1])
  IN value[WidthEnd(fmt, k)]

(* NULL for a text, which no text is. *)
Null == <<NUL>>
NullText == <<"(", "n", "u", "l", "l", ")">>

vasprintf(fmt, args) ==
  LET from[k \in Nat, a \in Nat] ==
        IF k > Len(fmt) THEN <<>>
        ELSE IF fmt[k] # "%" THEN <<fmt[k]>> \o from[k + 1, a]
        ELSE LET n == WidthEnd(fmt, k + 1)
                 c == CharAt(fmt, n)
                 width == WidthValue(fmt, k + 1)
             IN CASE c = "s" -> (IF args[a] = Null THEN NullText ELSE args[a]) \o from[n + 1, a + 1]
                  [] c = "c" -> <<args[a]>> \o from[n + 1, a + 1]
                  [] c = "x" -> print_hex(args[a], width) \o from[n + 1, a + 1]
                  [] c = "d" -> print_dec(args[a], width) \o from[n + 1, a + 1]
                  [] OTHER   -> <<c>> \o from[n + 1, a]
  IN from[1, 1]
=============================================================================
