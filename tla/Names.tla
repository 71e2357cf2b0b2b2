---------------------------------- MODULE Names ----------------------------------
(***************************************************************************)
(* The conversions of idna.c and inet.c.                                   *)
(*                                                                         *)
(* Texts (idna.c): names of hosts to Punycode, and UTF-16 to WTF-8 and     *)
(* back.  A text is a sequence of numbers, in one of three forms; it       *)
(* grows, and each conversion is compared with what it is by definition.   *)
(* Overflow of delta needs names longer than any here.                     *)
(***************************************************************************)
EXTENDS Integers, FiniteSets, Sequences, SequencesExt

CONSTANTS
  Bytes, Characters, Units,   \* what a text of each form is made of
  TextRoom                    \* a bound: its length

ASSUME IdnaAssumption ==
  /\ Bytes \subseteq 1..255 /\ Characters \subseteq 1..1114111 /\ Units \subseteq 0..65535
  /\ TextRoom \in Nat

VARIABLES
  form,   \* "bytes", "characters" or "units"
  text

textVars == <<form, text>>

TextInit == form \in {"bytes", "characters", "units"} /\ text = <<>>

Alphabet == CASE form = "bytes" -> Bytes [] form = "characters" -> Characters [] form = "units" -> Units

\* A longer text, or another one.
TextNext ==
  /\ \/ Len(text) < TextRoom /\ \E x \in Alphabet : text' = Append(text, x)
     \/ Len(text) = TextRoom /\ text' = <<>>
  /\ UNCHANGED form

BAD == -1

-----------------------------------------------------------------------------
(* uv__utf8_decode1.  A character is a pair: the code point, or BAD, and    *)
(* where the next begins.                                                   *)

\* 0x80 == (0xC0 & (b ^ c ^ d))
TopBits(b, c, d) ==
  /\ (b \div 128 + c \div 128 + d \div 128) % 2 = 1
  /\ (b \div 64 + c \div 64 + d \div 64) % 2 = 0

Joined(a, b, c, d) == a * 262144 + (b % 64) * 4096 + (c % 64) * 64 + (d % 64)

\* A mutant: U+10FFFF is taken to be too large.
LegalButLast(c, min) == min <= c /\ c < 1114111 /\ c \notin 55296..57343

Legal(c, min) == min <= c /\ c <= 1114111 /\ c \notin 55296..57343

Decoded(min, a, b, c, d, next) ==
  LET code == Joined(a, b, c, d)
  IN <<IF TopBits(b, c, d) /\ Legal(code, min) THEN code ELSE BAD, next>>

uv__utf8_decode1(s, i) ==
  LET a == s[i]
      left == Len(s) - i
  IN CASE a < 128                -> <<a, i + 1>>
       [] a \in 128..191         -> <<BAD, i + 1>>
       [] a > 247                -> <<BAD, i + 1>>
       [] left >= 3 /\ a \in 240..247 -> Decoded(65536, a % 8, s[i + 1], s[i + 2], s[i + 3], i + 4)
       [] (left >= 2 /\ a \in 224..239) \/ (left = 2 /\ a \in 240..247)
                                 -> Decoded(2048, 0, 128 + (a % 16), s[i + 1], s[i + 2], i + 3)
       [] (left >= 1 /\ a \in 192..223) \/ (left = 1 /\ a \in 224..247)
                                 -> Decoded(128, 0, 128, 128 + (a % 32), s[i + 1], i + 2)
       [] left = 0 /\ a \in 192..247 -> <<BAD, i + 1>>

\* All characters; a text that is not UTF-8 ends in BAD.
CodePoints(s) ==
  LET from[i \in 1..(Len(s) + 1)] ==
        IF i > Len(s) THEN <<>>
        ELSE LET c == uv__utf8_decode1(s, i)
             IN IF c[1] = BAD THEN <<BAD>> ELSE <<c[1]>> \o from[c[2]]
  IN from[1]

-----------------------------------------------------------------------------
(* uv__idna_toascii                                                         *)

\* The threshold t of a digit.
Threshold(k, bias) == IF k <= bias THEN 1 ELSE IF k - bias > 26 THEN 26 ELSE k - bias

\* alphabet[]
Letter(t) == IF t < 26 THEN 97 + t ELSE 48 + t - 26

Digits(delta, bias) ==
  LET digits[k \in Nat, q \in Nat] ==
        LET t == Threshold(k, bias)
        IN IF q < t THEN <<Letter(q)>>
           ELSE <<Letter(t + ((q - t) % (36 - t)))>> \o digits[k + 36, (q - t) \div (36 - t)]
  IN digits[36, delta]

Adapted(delta, h, first) ==
  LET d == delta \div (IF first THEN 700 ELSE 2)
      bias[x \in Nat] == IF x > 455 THEN 36 + bias[x \div 35] ELSE (36 * x) \div (x + 38)
  IN bias[d + d \div h]

\* The insertions of code point m; p is what was put down so far.
Inserted(p, m, label) ==
  LET one(e, c) ==
        CASE c < m -> [e EXCEPT !.delta = @ + 1]
          [] c > m -> e
          [] c = m -> [out |-> e.out \o Digits(e.delta, e.bias), delta |-> 0, n |-> m, h |-> e.h + 1,
                       bias |-> Adapted(e.delta, e.h + 1, e.first), first |-> FALSE]
      all == FoldLeft(one, [p EXCEPT !.delta = @ + (m - p.n) * (p.h + 1), !.n = m], label)
  IN [all EXCEPT !.delta = @ + 1, !.n = m + 1]

HYPHEN == 45
Prefix == <<120, 110, HYPHEN, HYPHEN>>
IsAscii(c) == c < 128

uv__idna_toascii_label(label) ==
  LET ascii == SelectSeq(label, IsAscii)
      others == SetToSortSeq({c \in ToSet(label) : ~IsAscii(c)}, <)
      start == Prefix \o ascii \o (IF ascii = <<>> THEN <<>> ELSE <<HYPHEN>>)
      none == [out |-> start, delta |-> 0, n |-> 128, h |-> Len(ascii), bias |-> 72, first |-> TRUE]
      put(p, m) == Inserted(p, m, label)
  IN IF others = <<>> THEN ascii ELSE FoldLeft(put, none, others).out

DOT == 46
Dots == {DOT, 12290, 65294, 65377}

\* The labels; the last is not followed by a dot, and nothing if it is empty.
Ascii(cs) ==
  LET from[i \in 1..(Len(cs) + 1), label \in Seq(1..1114111)] ==
        CASE i > Len(cs)   -> uv__idna_toascii_label(label)
          [] i <= Len(cs) /\ cs[i] \in Dots -> uv__idna_toascii_label(label) \o <<DOT>> \o from[i + 1, <<>>]
          [] OTHER         -> from[i + 1, Append(label, cs[i])]
  IN from[1, <<>>]

\* What is written does not go over the end; the terminating NUL must fit, too.
uv__idna_toascii(s, room) ==
  LET cs == CodePoints(s)
  IN IF s = <<>> \/ Contains(cs, BAD) \/ Len(Ascii(cs)) >= room THEN <<BAD>> ELSE Ascii(cs) \o <<0>>

-----------------------------------------------------------------------------
(* WTF-8: UTF-8 with surrogates that are alone.  s ends in a NUL.           *)

IsNext(b) == b \div 64 = 2

\* The pointer stays on the last byte that was looked at.
uv__wtf8_decode1(s, i) ==
  LET b1 == s[i]
      code(n) == FoldLeft(LAMBDA x, b : x * 64 + (b % 64), b1, SubSeq(s, i + 1, i + n - 1))
  IN CASE b1 <= 127                                       -> <<b1, i>>
       [] b1 \in 128..193                                 -> <<BAD, i>>
       [] b1 >= 194 /\ ~IsNext(s[i + 1])                  -> <<BAD, i + 1>>
       [] b1 \in 194..223 /\ IsNext(s[i + 1])             -> <<code(2) % 2048, i + 1>>
       [] b1 >= 224 /\ IsNext(s[i + 1]) /\ ~IsNext(s[i + 2]) -> <<BAD, i + 2>>
       [] b1 \in 224..239 /\ IsNext(s[i + 1]) /\ IsNext(s[i + 2]) -> <<code(3) % 65536, i + 2>>
       [] b1 >= 240 /\ IsNext(s[i + 1]) /\ IsNext(s[i + 2]) ->
            LET c == code(4) % 2097152
            IN <<IF IsNext(s[i + 3]) /\ b1 <= 244 /\ c <= 1114111 THEN c ELSE BAD, i + 3>>

Wtf8CodePoints(s) ==
  LET from[i \in 1..Len(s)] ==
        LET c == uv__wtf8_decode1(s, i)
        IN IF c[1] = BAD THEN <<BAD>>
           ELSE IF s[c[2]] = 0 THEN <<c[1]>> ELSE <<c[1]>> \o from[c[2] + 1]
  IN from[1]

uv_wtf8_length_as_utf16(s) ==
  LET cs == Wtf8CodePoints(s)
  IN IF Contains(cs, BAD) THEN BAD ELSE FoldLeft(LAMBDA n, c : n + (IF c > 65535 THEN 2 ELSE 1), 0, cs)

\* A cast to uint16_t is % 65536.
UnitsOf(c) ==
  IF c > 65536 THEN <<(c - 65536) \div 1024 + 55296, ((c - 65536) % 1024) + 56320>> ELSE <<c % 65536>>

uv_wtf8_to_utf16(s) == FoldLeft(LAMBDA w, c : w \o UnitsOf(c), <<>>, Wtf8CodePoints(s))

\* A code point of w and how many units it has.
uv__get_surrogate_value(w, i) ==
  IF w[i] \in 55296..56319 /\ i < Len(w) /\ w[i + 1] \in 56320..57343
    THEN <<65536 + (w[i] - 55296) * 1024 + (w[i + 1] - 56320), 2>>
    ELSE <<w[i], 1>>

BytesOf(c) ==
  CASE c < 128            -> <<c>>
    [] c \in 128..2047    -> <<192 + c \div 64, 128 + (c % 64)>>
    [] c \in 2048..65535  -> <<224 + c \div 4096, 128 + ((c \div 64) % 64), 128 + (c % 64)>>
    [] c > 65535          -> <<240 + c \div 262144, 128 + ((c \div 4096) % 64), 128 + ((c \div 64) % 64), 128 + (c % 64)>>

\* Without a length the source ends before its NUL.
Source(w, counted) ==
  IF counted \/ ~Contains(w, 0) THEN w ELSE SubSeq(w, 1, SelectInSeq(w, LAMBDA u : u = 0) - 1)

\* The bytes of w from its unit i on.
Wtf8From(w, i) ==
  LET from[j \in 1..(Len(w) + 1)] ==
        IF j > Len(w) THEN <<>>
        ELSE LET c == uv__get_surrogate_value(w, j) IN BytesOf(c[1]) \o from[j + c[2]]
  IN from[i]

uv_utf16_length_as_wtf8(w, counted) == Len(Wtf8From(Source(w, counted), 1))

\* With room bytes at *target_ptr: what is written, the length that is told, and
\* whether all of it fits.  A character that does not fit is begun; target_len is
\* what was written before it, or the room if it is the first.
uv_utf16_to_wtf8(w, counted, room) ==
  LET src == Source(w, counted)
      fill[i \in 1..(Len(src) + 1), out \in Seq(0..255), len \in Nat] ==
        IF Len(out) = room \/ i > Len(src) THEN [out |-> out, len |-> len, at |-> i]
        ELSE LET c == uv__get_surrogate_value(src, i)
                 more == out \o BytesOf(c[1])
             IN IF Len(more) > room THEN [out |-> SubSeq(more, 1, room), len |-> len, at |-> i]
                ELSE fill[i + c[2], more, Len(more)]
      end == fill[1, <<>>, room]
      fits == end.at > Len(src)
  IN [out |-> end.out, fits |-> fits,
      len |-> IF fits THEN Len(end.out) ELSE end.len + Len(Wtf8From(src, end.at))]

-----------------------------------------------------------------------------
(* What the conversions are by definition                                   *)

\* The characters a label stands for (RFC 3492): a digit list is read back to the
\* position and the code point of each insertion.
Value(letter) == IF letter >= 97 THEN letter - 97 ELSE letter - 48 + 26

LabelMeans(out) ==
  LET tail == SubSeq(out, 5, Len(out))
      cut == SelectLastInSeq(tail, LAMBDA x : x = HYPHEN)
      basic == SubSeq(tail, 1, cut - 1)
      number[at \in 1..(Len(tail) + 1), k \in Nat, weight \in Nat, bias \in Nat] ==
        LET v == Value(tail[at])
            t == Threshold(k, bias)
        IN IF v < t THEN <<v * weight, at + 1>>
           ELSE LET rest == number[at + 1, k + 36, weight * (36 - t), bias]
                IN <<v * weight + rest[1], rest[2]>>
      read[at \in 1..(Len(tail) + 1), chars \in Seq(Nat), n \in Nat, i \in Nat, bias \in Nat] ==
        IF at > Len(tail) THEN chars
        ELSE LET num == number[at, 36, 1, bias]
                 pos == i + num[1]
                 len == Len(chars) + 1
                 new == n + pos \div len
             IN read[num[2], InsertAt(chars, (pos % len) + 1, new), new, (pos % len) + 1,
                     Adapted(num[1], len, i = 0 /\ n = 128 /\ chars = basic)]
  IN IF ~IsPrefix(Prefix, out) THEN out ELSE read[cut + 1, basic, 128, 0, 72]

Utf8(cs) == FoldLeft(LAMBDA s, c : s \o BytesOf(c), <<>>, cs)
Label(cs) == SelectSeq(cs, LAMBDA c : c \notin Dots)

\* A name is decoded to its characters, and its one label to what it was.  The
\* buffer is filled or refused, for every size of it.
NamesAreExact ==
  form = "characters" =>
    LET s == Utf8(text)
        one == Label(text)
        full == Ascii(text)
    IN /\ CodePoints(s) = text
       /\ LabelMeans(uv__idna_toascii_label(one)) = one
       /\ Len(SelectSeq(full, LAMBDA c : c = DOT)) = Len(text) - Len(one)
       /\ \A c \in ToSet(full) : IsAscii(c)
       /\ \A room \in 0..(Len(full) + 2) :
            uv__idna_toascii(s, room) = IF text # <<>> /\ room > Len(full) THEN full \o <<0>> ELSE <<BAD>>

\* uv_wtf8_to_utf16 handles these two like no others: its assertions fail.
Convertible(cs) == ~Contains(cs, 65536) /\ ~Contains(cs, 1114111)

\* The length that was computed is the length that is written.
LengthsAgree ==
  form = "bytes" =>
    LET s == text \o <<0>>
    IN (uv_wtf8_length_as_utf16(s) # BAD /\ Convertible(Wtf8CodePoints(s)))
         => uv_wtf8_length_as_utf16(s) = Len(uv_wtf8_to_utf16(s))

\* UTF-16 survives the way to WTF-8 and back, surrogates alone or in pairs.  Into
\* a buffer goes what fits, and the length that is told is enough.
Utf16Survives ==
  form = "units" =>
    \A counted \in BOOLEAN :
      LET src == Source(text, counted)
          full == Wtf8From(src, 1)
      IN /\ ~Contains(src, 0) /\ Convertible(Wtf8CodePoints(full \o <<0>>))
              => uv_wtf8_to_utf16(full \o <<0>>) = src \o <<0>>
         /\ uv_utf16_length_as_wtf8(text, counted) = Len(full)
         /\ \A room \in 0..(Len(full) + 1) :
              LET r == uv_utf16_to_wtf8(text, counted, room)
              IN /\ r.fits <=> room >= Len(full)
                 /\ IF r.fits THEN r.out = full /\ r.len = Len(full)
                    ELSE r.out = SubSeq(full, 1, room) /\ r.len >= Len(full)

\* Every conversion of idna.c is what it is by definition.
TextsAreExact == NamesAreExact /\ LengthsAgree /\ Utf16Survives

-----------------------------------------------------------------------------
(***************************************************************************)
(* Texts of addresses (inet.c).  A character is a number: a hexadecimal    *)
(* digit by its value, the others by a number of their own.  An address of *)
(* IPv6 is its eight words, one of IPv4 its four bytes.                    *)
(***************************************************************************)

CONSTANTS
  Pieces,      \* texts are put together from them
  PieceRoom,   \* a bound: so many
  Words,       \* what the words of an address are
  Octets       \* and its bytes

COLON == 16
POINT == 17
PERCENT == 18

ASSUME InetAssumption ==
  /\ PieceRoom \in Nat /\ \A p \in Pieces : p \in Seq(0..PERCENT)
  /\ Words \subseteq 0..65535 /\ Octets \subseteq 0..255

VARIABLES
  what,      \* "text", "ipv4" or "ipv6"
  address    \* pieces of the text, bytes, or words

inetVars == <<what, address>>

InetInit == what \in {"text", "ipv4", "ipv6"} /\ address = <<>>

Parts == CASE what = "text" -> Pieces [] what = "ipv4" -> Octets [] what = "ipv6" -> Words
Room == CASE what = "text" -> PieceRoom [] what = "ipv4" -> 4 [] what = "ipv6" -> 8

\* A part more, or another address.
InetNext ==
  /\ \/ Len(address) < Room /\ \E p \in Parts : address' = Append(address, p)
     \/ Len(address) = Room /\ address' = <<>>
  /\ UNCHANGED what

EINVAL == <<-1>>

-----------------------------------------------------------------------------
(* inet_ntop4, inet_ntop6: the text without its NUL                         *)

\* "%u" and "%x"
Numeral(n, base) ==
  LET digits[m \in Nat] == IF m < base THEN <<m>> ELSE Append(digits[m \div base], m % base)
  IN digits[n]

Together(parts, c) == FoldLeft(LAMBDA s, p : IF s = <<>> THEN p ELSE s \o <<c>> \o p, <<>>, parts)

inet_ntop4(b) == Together([i \in 1..4 |-> Numeral(b[i], 10)], POINT)

\* A mutant: zeros are left out at the end only.
RunsToEnd(w) == {r \in (1..8) \X (2..8) : r[1] + r[2] <= 9 /\ \A i \in r[1]..8 : w[i] = 0}

\* Where zeros begin, and how many there are.
Runs(w) == {r \in (1..8) \X (2..8) : r[1] + r[2] <= 9 /\ \A i \in r[1]..(r[1] + r[2] - 1) : w[i] = 0}

Best(w) ==
  IF Runs(w) = {} THEN <<9, 0>>
  ELSE CHOOSE r \in Runs(w) : \A q \in Runs(w) : r[2] > q[2] \/ (r[2] = q[2] /\ r[1] <= q[1])

\* An IPv4 address in one of IPv6.  (best.len = 7 never gets here: i = 6 is in the run.)
Encapsulates(w) == Best(w) = <<1, 6>> \/ (Best(w) = <<1, 5>> /\ w[6] = 65535)
LastBytes(w) == <<w[7] \div 256, w[7] % 256, w[8] \div 256, w[8] % 256>>

inet_ntop6(w) ==
  LET run == Best(w)
      end == run[1] + run[2]
      part(i) ==
        CASE i = run[1]                        -> <<COLON>>
          [] i > run[1] /\ i < end             -> <<>>
          [] i \notin run[1]..(end - 1) /\ ~(Encapsulates(w) /\ i > 6) ->
               (IF i = 1 THEN <<>> ELSE <<COLON>>) \o Numeral(w[i], 16)
          [] Encapsulates(w) /\ i = 7 -> <<COLON>> \o inet_ntop4(LastBytes(w))
          [] Encapsulates(w) /\ i = 8 -> <<>>
  IN FlattenSeq([i \in 1..8 |-> part(i)]) \o (IF run[2] > 0 /\ end = 9 THEN <<COLON>> ELSE <<>>)

\* uv_inet_ntop into size bytes
uv_inet_ntop(t, size) == IF Len(t) >= size THEN EINVAL ELSE t

-----------------------------------------------------------------------------
(* inet_pton4, inet_pton6                                                   *)

inet_pton4(s) ==
  LET start == [bytes |-> <<0>>, octets |-> 0, saw |-> FALSE, bad |-> FALSE]
      digit(p, d) ==
        LET old == Last(p.bytes)
            octets == IF p.saw THEN p.octets ELSE p.octets + 1
        IN IF (p.saw /\ old = 0) \/ old * 10 + d > 255 \/ octets > 4 THEN [p EXCEPT !.bad = TRUE]
           ELSE [p EXCEPT !.bytes = Append(Front(@), old * 10 + d), !.octets = octets, !.saw = TRUE]
      read(p, c) ==
        CASE p.bad \/ c \in 10..16 \/ c = PERCENT -> [p EXCEPT !.bad = TRUE]
          [] ~p.bad /\ c < 10 -> digit(p, c)
          [] ~p.bad /\ c = POINT -> IF p.saw /\ p.octets < 4 THEN [p EXCEPT !.bytes = Append(@, 0), !.saw = FALSE]
                                                            ELSE [p EXCEPT !.bad = TRUE]
      end == FoldLeft(read, start, s)
  IN IF end.bad \/ end.octets < 4 THEN EINVAL ELSE end.bytes

WordsOfBytes(b) == <<b[1] * 256 + b[2], b[3] * 256 + b[4]>>

\* The loop over the characters; colonp is how many words come before the "::".
inet_pton6_loop(s) ==
  LET from[i \in 1..(Len(s) + 1), tok \in 1..(Len(s) + 1), w \in Seq(0..65535), seen \in 0..4, val \in 0..65535,
           colonp \in -1..8] ==
        IF i > Len(s) THEN [words |-> w, seen |-> seen, val |-> val, colonp |-> colonp, ok |-> TRUE]
        ELSE LET bad == [words |-> w, seen |-> 0, val |-> 0, colonp |-> -1, ok |-> FALSE]
                 quad == inet_pton4(SubSeq(s, tok, Len(s)))
             IN CASE s[i] < 16 -> IF seen = 4 THEN bad ELSE from[i + 1, tok, w, seen + 1, val * 16 + s[i], colonp]
                  [] s[i] = COLON /\ seen = 0 -> IF colonp # -1 THEN bad ELSE from[i + 1, i + 1, w, 0, val, Len(w)]
                  [] s[i] = COLON /\ seen > 0 -> IF i = Len(s) \/ Len(w) = 8 THEN bad
                                                ELSE from[i + 1, i + 1, Append(w, val), 0, 0, colonp]
                  [] s[i] = POINT -> IF Len(w) > 6 \/ quad = EINVAL THEN bad
                                     ELSE [words |-> w \o WordsOfBytes(quad), seen |-> 0, val |-> 0, colonp |-> colonp,
                                           ok |-> TRUE]
                  [] s[i] = PERCENT -> bad
  IN from[1, 1, <<>>, 0, 0, -1]

inet_pton6(s) ==
  LET alone == s # <<>> /\ s[1] = COLON /\ (Len(s) = 1 \/ s[2] # COLON)
      end == inet_pton6_loop(IF s # <<>> /\ s[1] = COLON THEN Tail(s) ELSE s)
      w == IF end.seen > 0 THEN Append(end.words, end.val) ELSE end.words
  IN CASE alone \/ ~end.ok \/ Len(w) > 8 -> EINVAL
       [] ~alone /\ end.ok /\ end.colonp = -1 /\ Len(w) <= 8 -> IF Len(w) = 8 THEN w ELSE EINVAL
       [] ~alone /\ end.ok /\ end.colonp # -1 /\ Len(w) <= 8 ->
            IF Len(w) = 8 THEN EINVAL
            ELSE SubSeq(w, 1, end.colonp) \o [i \in 1..(8 - Len(w)) |-> 0] \o SubSeq(w, end.colonp + 1, Len(w))

\* uv_inet_pton: without the name of the scope.  (No text here is longer than tmp.)
Unscoped(s) == IF Contains(s, PERCENT) THEN SubSeq(s, 1, SelectInSeq(s, LAMBDA c : c = PERCENT) - 1) ELSE s

-----------------------------------------------------------------------------
(* What texts mean by definition                                            *)

Split(s, c) == 
  FoldLeft(LAMBDA parts, x : IF x = c THEN Append(parts, <<>>) ELSE Append(Front(parts), Append(Last(parts), x)),
           <<<<>>>>, s)

ValueOf(s, base) == FoldLeft(LAMBDA v, d : v * base + d, 0, s)

IsOctet(s) ==
  Len(s) \in 1..3 /\ (\A i \in 1..Len(s) : s[i] < 10) /\ ValueOf(s, 10) < 256 /\ (s[1] = 0 => Len(s) = 1)
Quad(s) ==
  LET parts == Split(s, POINT)
  IN IF Len(parts) = 4 /\ \A i \in 1..4 : IsOctet(parts[i]) THEN [i \in 1..4 |-> ValueOf(parts[i], 10)] ELSE EINVAL

IsWord(s) == Len(s) \in 1..4 /\ \A i \in 1..Len(s) : s[i] < 16

\* Words between colons, the last two of which a quad may stand for.
Side(s, mayEndInQuad) ==
  LET parts == Split(s, COLON)
      quad == Quad(Last(parts))
  IN CASE s = <<>> -> <<>>
       [] s # <<>> /\ \A i \in 1..Len(parts) : IsWord(parts[i]) -> [i \in 1..Len(parts) |-> ValueOf(parts[i], 16)]
       [] s # <<>> /\ mayEndInQuad /\ quad # EINVAL /\ \A i \in 1..(Len(parts) - 1) : IsWord(parts[i]) ->
            [i \in 1..(Len(parts) - 1) |-> ValueOf(parts[i], 16)] \o WordsOfBytes(quad)
       [] OTHER -> EINVAL

Six(s) ==
  LET gaps == {i \in 1..(Len(s) - 1) : s[i] = COLON /\ s[i + 1] = COLON}
      at == CHOOSE i \in gaps : TRUE
      left == Side(SubSeq(s, 1, at - 1), FALSE)
      right == Side(SubSeq(s, at + 2, Len(s)), TRUE)
  IN CASE gaps = {} -> IF Len(Side(s, TRUE)) = 8 THEN Side(s, TRUE) ELSE EINVAL
       [] \E i, j \in gaps : i # j -> EINVAL
       [] OTHER -> IF left = EINVAL \/ right = EINVAL \/ Len(left) + Len(right) > 7 THEN EINVAL
                   ELSE left \o [i \in 1..(8 - Len(left) - Len(right)) |-> 0] \o right

-----------------------------------------------------------------------------
(* Properties *)

\* A text is read as what it means, and refused if that is nothing.
TextsAreRead ==
  what = "text" => LET t == FlattenSeq(address)
                   IN inet_pton4(t) = Quad(t) /\ inet_pton6(Unscoped(t)) = Six(Unscoped(t))

\* How many words of an address its text names.
Named(t) == Cardinality({i \in 1..Len(Split(t, COLON)) : Split(t, COLON)[i] # <<>>}) + (IF Contains(t, POINT) THEN 1 ELSE 0)

\* An address is read from its text, which leaves out as many zeros as any run of
\* them has, and fits into INET6_ADDRSTRLEN.
AddressesReturn ==
  /\ (what = "ipv4" /\ Len(address) = 4) =>
       LET t == inet_ntop4(address) IN inet_pton4(t) = address /\ uv_inet_ntop(t, 16) = t
  /\ (what = "ipv6" /\ Len(address) = 8) =>
       LET t == inet_ntop6(address)
       IN /\ inet_pton6(t) = address /\ uv_inet_ntop(t, 46) = t
          /\ \A i \in 1..7, j \in 2..8 : (i < j /\ \A k \in i..j : address[k] = 0) => 8 - Named(t) >= j - i + 1

\* Addresses and texts mean each other: both of the above.
AddressesAreExact == TextsAreRead /\ AddressesReturn

\* What the conversions of names, texts and addresses promise: both.
ConversionsAreExact == TextsAreExact /\ AddressesAreExact
=============================================================================
