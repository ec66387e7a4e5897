----------------------------- MODULE AdPageProofs -----------------------------
(***************************************************************************)
(* What parse_items and find_style make of any page of any ad: the numbers *)
(* are whole, the two searches find the same model, the style follows it.  *)
(*                                                                         *)
(* The stages are few and the invariant of the steps is short; the work is *)
(* in what is computed from the texts, and most lemmas are about that:     *)
(* Value and Joined are recursive, and what they are for all digits and    *)
(* all words is proved by the induction of DataInduction.                  *)
(***************************************************************************)
EXTENDS AdPage, DataInduction

-----------------------------------------------------------------------------
(* Numbers.                                                                *)

\* value is what Value computes, of the first n digits.
ValuesUpTo(digits, n, value) ==
  value = [i \in 0..n |-> IF i = 0 THEN 0 ELSE 10 * value[i - 1] + digits[i]]

\* Value is the function its definition says: there is one for the first n digits
\* for every n, so CHOOSE finds one.
LEMMA ValueDef ==
  ASSUME NEW digits, Len(digits) \in Nat
  PROVE  ValuesUpTo(digits, Len(digits), Value(digits))
<1> DEFINE S == {n \in Nat : \E value : ValuesUpTo(digits, n, value)}
<1>1. 0 \in S
  <2>1. ValuesUpTo(digits, 0, [i \in 0..0 |-> 0])
    BY DEF ValuesUpTo
  <2> QED
    BY <2>1
<1>2. ASSUME NEW n \in Nat, n \in S PROVE n + 1 \in S
  <2>1. PICK value : ValuesUpTo(digits, n, value)
    BY <1>2
  <2> DEFINE new == [i \in 0..n+1 |->
               IF i \in 0..n THEN value[i] ELSE 10 * value[i - 1] + digits[i]]
  <2>2. ValuesUpTo(digits, n + 1, new)
    BY <2>1 DEF ValuesUpTo
  <2> QED
    BY <2>2
<1>3. \E value : ValuesUpTo(digits, Len(digits), value)
  <2> HIDE DEF S
  <2>1. Len(digits) \in S
    BY <1>1, <1>2, InductionOnNat
  <2> QED
    BY <2>1 DEF S
<1>4. Value(digits) = CHOOSE value : ValuesUpTo(digits, Len(digits), value)
  BY DEF Value, ValuesUpTo
<1> QED
  BY <1>3, <1>4

\* The values of the first digits: nothing, and ten times the one before and a digit.
LEMMA ValueType ==
  ASSUME NEW digits \in Digits
  PROVE  /\ Value(digits)[0] = 0
         /\ \A i \in 0..Len(digits) : Value(digits)[i] \in Nat
         /\ \A i \in 1..Len(digits) :
              Value(digits)[i] = 10 * Value(digits)[i - 1] + digits[i]
<1> DEFINE v == Value(digits)
           S == {n \in Nat : n =< Len(digits) => v[n] \in Nat}
<1>1. /\ Len(digits) \in Nat
      /\ \A i \in 1..Len(digits) : digits[i] \in 0..9
  BY DEF Digits
<1>2. v[0] = 0 /\ \A i \in 1..Len(digits) : v[i] = 10 * v[i - 1] + digits[i]
  BY <1>1, ValueDef DEF ValuesUpTo
<1> HIDE DEF v
<1>3. 0 \in S
  BY <1>2
<1>4. ASSUME NEW n \in Nat, n \in S PROVE n + 1 \in S
  <2> SUFFICES ASSUME n + 1 =< Len(digits) PROVE v[n + 1] \in Nat
    OBVIOUS
  <2>1. v[n] \in Nat
    BY <1>1, <1>4
  <2>2. v[n + 1] = 10 * v[n] + digits[n + 1] /\ digits[n + 1] \in Nat
    BY <1>1, <1>2
  <2> QED
    BY <2>1, <2>2
<1>5. \A i \in 0..Len(digits) : v[i] \in Nat
  <2> HIDE DEF S
  <2>1. Nat \subseteq S
    BY <1>3, <1>4, InductionOnNat
  <2> QED
    BY <1>1, <2>1 DEF S
<1> QED
  BY <1>2, <1>5 DEF v

\* A number of three digits that is not padded is 100 or more, one of four 1000.
LEMMA PlainIsLarge ==
  ASSUME NEW digits \in Digits, Len(digits) >= 3, digits[1] # 0
  PROVE  /\ Number(digits) >= 100
         /\ Len(digits) >= 4 => Number(digits) >= 1000
<1> DEFINE v == Value(digits)
           S == {n \in Nat : n + 4 =< Len(digits) => v[n + 4] >= 1000}
<1>1. /\ Len(digits) \in Nat
      /\ \A i \in 1..Len(digits) : digits[i] \in 0..9
  BY DEF Digits
<1>2. /\ v[0] = 0
      /\ \A i \in 0..Len(digits) : v[i] \in Nat
      /\ \A i \in 1..Len(digits) : v[i] = 10 * v[i - 1] + digits[i]
  BY ValueType
<1> HIDE DEF v
<1>3. v[1] >= 1 /\ v[2] >= 10 /\ v[3] >= 100
  <2>1. v[1] = 10 * v[0] + digits[1] /\ v[2] = 10 * v[1] + digits[2]
        /\ v[3] = 10 * v[2] + digits[3]
    BY <1>1, <1>2
  <2>2. digits[1] \in 1..9 /\ digits[2] \in 0..9 /\ digits[3] \in 0..9
    BY <1>1
  <2> QED
    <3>1. v[1] = digits[1]
      BY <1>2, <2>1, <2>2
    <3>2. v[1] \in Nat /\ v[2] \in Nat
      BY <1>1, <1>2
    <3> QED
      BY <2>1, <2>2, <3>1, <3>2
<1>4. 0 \in S
  <2> SUFFICES ASSUME 4 =< Len(digits) PROVE v[4] >= 1000
    OBVIOUS
  <2>1. v[4] = 10 * v[3] + digits[4] /\ digits[4] \in 0..9 /\ v[3] \in Nat
    BY <1>1, <1>2
  <2> QED
    BY <1>3, <2>1
<1>5. ASSUME NEW n \in Nat, n \in S PROVE n + 1 \in S
  <2> SUFFICES ASSUME (n + 1) + 4 =< Len(digits) PROVE v[(n + 1) + 4] >= 1000
    OBVIOUS
  <2>1. v[n + 4] >= 1000 /\ v[n + 4] \in Nat
    BY <1>1, <1>2, <1>5
  <2>2. v[n + 5] = 10 * v[n + 4] + digits[n + 5] /\ digits[n + 5] \in Nat
    <3>1. n + 5 \in 1..Len(digits)
      BY <1>1
    <3>2. v[n + 5] = 10 * v[(n + 5) - 1] + digits[n + 5]
      BY <1>2, <3>1
    <3>3. (n + 5) - 1 = n + 4
      OBVIOUS
    <3> QED
      BY <1>1, <3>1, <3>2, <3>3
  <2> QED
    BY <2>1, <2>2
<1>6. \A n \in Nat : n + 4 =< Len(digits) => v[n + 4] >= 1000
  <2> HIDE DEF S
  <2>1. Nat \subseteq S
    BY <1>4, <1>5, InductionOnNat
  <2> QED
    BY <2>1 DEF S
<1>7. Number(digits) = v[Len(digits)]
  BY DEF Number, v
<1>8. CASE Len(digits) = 3
  BY <1>3, <1>7, <1>8
<1>9. CASE Len(digits) >= 4
  <2>1. Len(digits) - 4 \in Nat /\ (Len(digits) - 4) + 4 = Len(digits)
    BY <1>1, <1>9
  <2>2. v[Len(digits)] >= 1000
    BY <1>6, <2>1
  <2>3. v[Len(digits)] \in Nat
    BY <1>1, <1>2
  <2> QED
    BY <1>7, <2>2, <2>3
<1>10. Len(digits) = 3 \/ Len(digits) >= 4
  <2>1. Len(digits) \in Nat
    BY <1>1
  <2>2. \A n \in Nat : n >= 3 => n = 3 \/ n >= 4
    OBVIOUS
  <2> QED
    BY <2>1, <2>2
<1> HIDE DEF S
<1> QED
  BY <1>8, <1>9, <1>10

\* int() of digits is a natural number.
LEMMA NumberType ==
  ASSUME NEW digits \in Digits
  PROVE  Number(digits) \in Nat
<1>1. Len(digits) \in 0..Len(digits)
  BY DEF Digits
<1> QED
  BY <1>1, ValueType DEF Number

\* The digits 0, 0, 0 and so on are nothing.
LEMMA ZeroIsZero == Number(<<0, 0, 0, 0>>) = 0
<1> DEFINE digits == <<0, 0, 0, 0>>
           v == Value(digits)
<1>1. digits \in Digits /\ Len(digits) = 4
  BY DEF Digits
<1>2. /\ v[0] = 0
      /\ \A i \in 1..4 : v[i] = 10 * v[i - 1] + digits[i]
  BY <1>1, ValueType
<1>3. Number(digits) = v[4]
  BY <1>1 DEF Number
<1>4. \A i \in 1..4 : digits[i] = 0
  OBVIOUS
<1> HIDE DEF v, digits
<1>5. v[1] = 0
  BY <1>2, <1>4
<1>6. v[2] = 0
  BY <1>2, <1>4, <1>5
<1>7. v[3] = 0
  BY <1>2, <1>4, <1>6
<1>8. v[4] = 0
  BY <1>2, <1>4, <1>7
<1> QED
  BY <1>3, <1>8 DEF digits

\* "000" is appended: the first digit stays the first.
LEMMA ThousandsType ==
  ASSUME NEW digits \in Digits
  PROVE  /\ Thousands(digits) \in Digits
         /\ Len(Thousands(digits)) = Len(digits) + 3
         /\ digits # <<>> => Thousands(digits)[1] = digits[1]
<1>1. digits \in Seq(0..9) /\ <<0, 0, 0>> \in Seq(0..9)
  BY DEF Digits
<1> QED
  BY <1>1 DEF Digits, Thousands

\* A seller's 0 becomes 0000.
LEMMA ThousandsOfZero == Thousands(<<0>>) = <<0, 0, 0, 0>>
<1>1. <<0>> \in Seq(Nat) /\ <<0, 0, 0>> \in Seq(Nat)
  OBVIOUS
<1>2. Len(<<0>>) = 1 /\ Len(<<0, 0, 0>>) = 3
  OBVIOUS
<1>3. /\ Len(<<0>> \o <<0, 0, 0>>) = 4
      /\ <<0>> \o <<0, 0, 0>> \in Seq(Nat)
      /\ \A i \in 1..4 : (<<0>> \o <<0, 0, 0>>)[i] = 0
  BY <1>1, <1>2
<1>4. \A t \in Seq(Nat) : Len(t) = 4 /\ (\A i \in 1..4 : t[i] = 0) => t = <<0, 0, 0, 0>>
  OBVIOUS
<1> QED
  BY <1>3, <1>4 DEF Thousands

\* What item['price'] is, of any digits.
LEMMA PriceIsWhole ==
  ASSUME NEW digits \in Digits, digits # <<>>
  PROVE  /\ ReadPrice(digits) \in Nat
         /\ Plain(digits) => ReadPrice(digits) = 0 \/ ReadPrice(digits) >= 100
<1> DEFINE whole == IF Len(digits) < 3 THEN Thousands(digits) ELSE digits
<1>1. ReadPrice(digits) = Number(whole)
  BY DEF ReadPrice
<1>2. /\ whole \in Digits /\ Len(whole) >= 3 /\ whole[1] = digits[1]
      /\ Len(digits) \in Nat \ {0}
  BY ThousandsType DEF Digits
<1>3. CASE digits = <<0>>
  <2>1. whole = <<0, 0, 0, 0>>
    BY <1>3, ThousandsOfZero
  <2> QED
    BY <1>1, <2>1, ZeroIsZero
<1>4. CASE digits[1] # 0
  <2> HIDE DEF whole
  <2>1. Number(whole) >= 100
    BY <1>2, <1>4, PlainIsLarge
  <2> QED
    BY <1>1, <1>2, <2>1, NumberType
<1>5. ReadPrice(digits) \in Nat
  BY <1>1, <1>2, NumberType
<1> QED
  BY <1>3, <1>4, <1>5 DEF Plain

\* What item['odometer'] is, of any digits.
LEMMA OdometerIsWhole ==
  ASSUME NEW digits \in Digits, digits # <<>>
  PROVE  /\ ReadOdometer(digits) \in Nat
         /\ Plain(digits) => ReadOdometer(digits) = 0 \/ ReadOdometer(digits) >= 1000
<1> DEFINE whole == IF Len(digits) <= 3 THEN Thousands(digits) ELSE digits
<1>1. ReadOdometer(digits) = Number(whole)
  BY DEF ReadOdometer
<1>2. /\ whole \in Digits /\ Len(whole) >= 4 /\ whole[1] = digits[1]
      /\ Len(digits) \in Nat \ {0}
  BY ThousandsType DEF Digits
<1>3. CASE digits = <<0>>
  <2>1. whole = <<0, 0, 0, 0>>
    BY <1>3, ThousandsOfZero
  <2> QED
    BY <1>1, <2>1, ZeroIsZero
<1>4. CASE digits[1] # 0
  <2> HIDE DEF whole
  <2>1. Number(whole) >= 1000
    BY <1>2, <1>4, PlainIsLarge
  <2> QED
    BY <1>1, <1>2, <2>1, NumberType
<1>5. ReadOdometer(digits) \in Nat
  BY <1>1, <1>2, NumberType
<1> QED
  BY <1>3, <1>4, <1>5 DEF Plain

-----------------------------------------------------------------------------
(* Words that are joined.                                                  *)

\* It is all one how three texts are put together.
LEMMA ConcatAssoc ==
  ASSUME NEW S, NEW s \in Seq(S), NEW t \in Seq(S), NEW u \in Seq(S)
  PROVE  (s \o t) \o u = s \o (t \o u)
OBVIOUS

\* text is what Joined computes, of the first n words.
JoinsUpTo(words, sep, n, text) ==
  text = [i \in 0..n |->
            IF i = 0 THEN <<>>
            ELSE IF i = 1 THEN words[1] ELSE text[i - 1] \o <<sep>> \o words[i]]

\* Joined is the function its definition says, as Value is.
LEMMA JoinedDef ==
  ASSUME NEW words, NEW sep, Len(words) \in Nat
  PROVE  JoinsUpTo(words, sep, Len(words), Joined(words, sep))
<1> DEFINE S == {n \in Nat : \E text : JoinsUpTo(words, sep, n, text)}
<1>1. 0 \in S
  <2>1. JoinsUpTo(words, sep, 0, [i \in 0..0 |-> <<>>])
    BY DEF JoinsUpTo
  <2> QED
    BY <2>1
<1>2. ASSUME NEW n \in Nat, n \in S PROVE n + 1 \in S
  <2>1. PICK text : JoinsUpTo(words, sep, n, text)
    BY <1>2
  <2> DEFINE new == [i \in 0..n+1 |->
               IF i \in 0..n THEN text[i]
               ELSE IF i = 1 THEN words[1] ELSE text[i - 1] \o <<sep>> \o words[i]]
  <2>2. JoinsUpTo(words, sep, n + 1, new)
    BY <2>1, Z3 DEF JoinsUpTo
  <2> QED
    BY <2>2
<1>3. \E text : JoinsUpTo(words, sep, Len(words), text)
  <2> HIDE DEF S
  <2>1. Len(words) \in S
    BY <1>1, <1>2, InductionOnNat
  <2> QED
    BY <2>1 DEF S
<1>4. Joined(words, sep) = CHOOSE text : JoinsUpTo(words, sep, Len(words), text)
  BY DEF Joined, JoinsUpTo
<1> QED
  BY <1>3, <1>4

\* The first words joined: none, one, and those before with a separator and a word.
LEMMA JoinedIs ==
  ASSUME NEW S, NEW words \in Seq(Seq(S)), NEW sep
  PROVE  /\ Joined(words, sep)[0] = <<>>
         /\ Len(words) >= 1 => Joined(words, sep)[1] = words[1]
         /\ \A i \in 2..Len(words) :
              Joined(words, sep)[i] = Joined(words, sep)[i - 1] \o <<sep>> \o words[i]
<1>1. Len(words) \in Nat
  OBVIOUS
<1>2. JoinsUpTo(words, sep, Len(words), Joined(words, sep))
  BY <1>1, JoinedDef
<1> DEFINE text == Joined(words, sep)
<1> HIDE DEF text
<1>3. text = [i \in 0..Len(words) |->
            IF i = 0 THEN <<>>
            ELSE IF i = 1 THEN words[1] ELSE text[i - 1] \o <<sep>> \o words[i]]
  BY <1>2 DEF JoinsUpTo, text
<1>4. 0 \in 0..Len(words) /\ (Len(words) >= 1 => 1 \in 0..Len(words))
  BY <1>1
<1>5. \A i \in 2..Len(words) : i \in 0..Len(words) /\ i # 0 /\ i # 1
  BY <1>1
<1> QED
  BY <1>3, <1>4, <1>5 DEF text

\* Joined words have the fragments of the words and the separator.
LEMMA JoinedType ==
  ASSUME NEW S, NEW words \in Seq(Seq(S)), NEW sep
  PROVE  \A i \in 0..Len(words) : Joined(words, sep)[i] \in Seq(S \cup {sep})
<1> DEFINE text == Joined(words, sep)
           U == S \cup {sep}
           I == {n \in Nat : n =< Len(words) => text[n] \in Seq(U)}
<1>1. /\ text[0] = <<>>
      /\ Len(words) >= 1 => text[1] = words[1]
      /\ \A i \in 2..Len(words) : text[i] = text[i - 1] \o <<sep>> \o words[i]
  BY JoinedIs
<1> HIDE DEF text, U
<1>2. 0 \in I
  <2>1. <<>> \in Seq(U)
    OBVIOUS
  <2>2. text[0] \in Seq(U)
    BY <1>1, <2>1
  <2> QED
    BY <2>2
<1>3. ASSUME NEW n \in Nat, n \in I PROVE n + 1 \in I
  <2> SUFFICES ASSUME n + 1 =< Len(words) PROVE text[n + 1] \in Seq(U)
    OBVIOUS
  <2>1. words[n + 1] \in Seq(S) /\ words[n + 1] \in Seq(U)
    BY DEF U
  <2>2. CASE n = 0
    BY <1>1, <2>1, <2>2
  <2>3. CASE n # 0
    <3>1. text[n] \in Seq(U)
      BY <1>3
    <3>2. text[n + 1] = text[n] \o <<sep>> \o words[n + 1]
      <4>1. n + 1 \in 2..Len(words) /\ (n + 1) - 1 = n
        BY <2>3
      <4> QED
        BY <1>1, <4>1
    <3>3. <<sep>> \in Seq(U)
      BY DEF U
    <3> QED
      BY <2>1, <3>1, <3>2, <3>3
  <2> QED
    BY <2>2, <2>3
<1>4. \A n \in 0..Len(words) : n \in Nat /\ n =< Len(words)
  OBVIOUS
<1>5. \A i \in 0..Len(words) : text[i] \in Seq(U)
  <2> HIDE DEF I
  <2>1. Nat \subseteq I
    BY <1>2, <1>3, InductionOnNat
  <2> QED
    BY <1>4, <2>1 DEF I
<1> QED
  BY <1>5 DEF text, U

\* So has what sep.join returns.
LEMMA JoinType ==
  ASSUME NEW S, NEW words \in Seq(Seq(S)), NEW sep
  PROVE  Join(words, sep) \in Seq(S \cup {sep})
<1>1. Len(words) \in 0..Len(words)
  OBVIOUS
<1> QED
  BY <1>1, JoinedType DEF Join

\* A text in which every a has become a b.
Swapped(text, a, b) == [i \in 1..Len(text) |-> IF text[i] = a THEN b ELSE text[i]]

\* What the text is that two texts make.
LEMMA ConcatIs ==
  ASSUME NEW S, NEW s \in Seq(S), NEW t \in Seq(S)
  PROVE  /\ s \o t \in Seq(S)
         /\ Len(s \o t) = Len(s) + Len(t)
         /\ \A i \in 1..Len(s) + Len(t) :
              (s \o t)[i] = IF i =< Len(s) THEN s[i] ELSE t[i - Len(s)]
         /\ s \o t = [i \in 1..Len(s) + Len(t) |-> (s \o t)[i]]
<1>1. /\ s \o t \in Seq(S)
      /\ Len(s \o t) = Len(s) + Len(t)
      /\ \A i \in 1..Len(s) + Len(t) :
           (s \o t)[i] = IF i =< Len(s) THEN s[i] ELSE t[i - Len(s)]
  OBVIOUS
<1>2. \A u \in Seq(S) : u = [i \in 1..Len(u) |-> u[i]]
  OBVIOUS
<1> QED
  BY <1>1, <1>2

\* A swap goes through a text that two texts make.
LEMMA SwappedConcat ==
  ASSUME NEW S, NEW s \in Seq(S), NEW t \in Seq(S), NEW a, NEW b
  PROVE  Swapped(s \o t, a, b) = Swapped(s, a, b) \o Swapped(t, a, b)
<1>1. /\ s \o t \in Seq(S) /\ Len(s \o t) = Len(s) + Len(t)
      /\ \A i \in 1..Len(s) + Len(t) :
           (s \o t)[i] = IF i =< Len(s) THEN s[i] ELSE t[i - Len(s)]
  OBVIOUS
<1> DEFINE x == Swapped(s, a, b)  y == Swapped(t, a, b)  U == S \cup {b}
<1>2. /\ x \in Seq(U) /\ Len(x) = Len(s)
      /\ \A i \in 1..Len(s) : x[i] = IF s[i] = a THEN b ELSE s[i]
  BY DEF Swapped
<1>3. /\ y \in Seq(U) /\ Len(y) = Len(t)
      /\ \A i \in 1..Len(t) : y[i] = IF t[i] = a THEN b ELSE t[i]
  BY DEF Swapped
<1> DEFINE st == s \o t
<1> HIDE DEF x, y, st, U
<1>4. /\ Len(x \o y) = Len(s) + Len(t)
      /\ \A i \in 1..Len(s) + Len(t) :
           (x \o y)[i] = IF i =< Len(s) THEN x[i] ELSE y[i - Len(s)]
      /\ x \o y = [i \in 1..Len(s) + Len(t) |-> (x \o y)[i]]
  <2>0. x \in Seq(U) /\ y \in Seq(U)
    BY <1>2, <1>3
  <2>1. /\ Len(x \o y) = Len(x) + Len(y)
        /\ \A i \in 1..Len(x) + Len(y) :
             (x \o y)[i] = IF i =< Len(x) THEN x[i] ELSE y[i - Len(x)]
        /\ x \o y = [i \in 1..Len(x) + Len(y) |-> (x \o y)[i]]
    BY <2>0, ConcatIs
  <2> QED
    BY <1>2, <1>3, <2>1
<1>6. ASSUME NEW i \in 1..Len(s) + Len(t)
      PROVE  (x \o y)[i] = IF st[i] = a THEN b ELSE st[i]
  <2>1. CASE i =< Len(s)
    BY <1>1, <1>2, <1>4, <2>1 DEF st
  <2>2. CASE ~(i =< Len(s))
    <3>1. i - Len(s) \in 1..Len(t)
      BY <2>2
    <3> QED
      BY <1>1, <1>3, <1>4, <2>2, <3>1 DEF st
  <2> QED
    BY <2>1, <2>2
<1>7. Swapped(st, a, b) = [i \in 1..Len(s) + Len(t) |-> IF st[i] = a THEN b ELSE st[i]]
  BY <1>1 DEF Swapped, st
<1> QED
  BY <1>4, <1>6, <1>7 DEF x, y, st

\* A swap leaves a word that has none of it alone.
LEMMA SwappedWord ==
  ASSUME NEW S, NEW s \in Seq(S), NEW a, NEW b, a \notin S
  PROVE  Swapped(s, a, b) = s
BY DEF Swapped

\* Words joined by b are the words joined by a with every a swapped for b.
LEMMA JoinSwapped ==
  ASSUME NEW S, NEW words \in Seq(Seq(S)), NEW a, NEW b, a \notin S
  PROVE  Join(words, b) = Swapped(Join(words, a), a, b)
<1> DEFINE x == Joined(words, a)
           y == Joined(words, b)
           U == S \cup {a}
           I == {n \in Nat : n =< Len(words) => y[n] = Swapped(x[n], a, b)}
<1>1. /\ x[0] = <<>>
      /\ Len(words) >= 1 => x[1] = words[1]
      /\ \A i \in 2..Len(words) : x[i] = x[i - 1] \o <<a>> \o words[i]
  BY JoinedIs
<1>2. /\ y[0] = <<>>
      /\ Len(words) >= 1 => y[1] = words[1]
      /\ \A i \in 2..Len(words) : y[i] = y[i - 1] \o <<b>> \o words[i]
  BY JoinedIs
<1>3. \A i \in 0..Len(words) : x[i] \in Seq(U)
  BY JoinedType
<1>4. Join(words, b) = y[Len(words)] /\ Join(words, a) = x[Len(words)]
  BY DEF Join
<1> HIDE DEF x, y, U
<1>5. 0 \in I
  BY <1>1, <1>2 DEF Swapped
<1>6. ASSUME NEW n \in Nat, n \in I PROVE n + 1 \in I
  <2> SUFFICES ASSUME n + 1 =< Len(words) PROVE y[n + 1] = Swapped(x[n + 1], a, b)
    OBVIOUS
  <2> DEFINE w == words[n + 1]
  <2>1. w \in Seq(S) /\ w \in Seq(U) /\ Swapped(w, a, b) = w
    BY SwappedWord DEF U
  <2> HIDE DEF w
  <2>2. CASE n = 0
    BY <1>1, <1>2, <2>1, <2>2 DEF w
  <2>3. CASE n # 0
    <3> DEFINE one == <<a>>  u == x[n]
    <3>1. n + 1 \in 2..Len(words) /\ (n + 1) - 1 = n /\ n \in 0..Len(words)
      BY <2>3
    <3>2. x[n + 1] = u \o one \o w /\ y[n + 1] = y[n] \o <<b>> \o w
      BY <1>1, <1>2, <3>1 DEF w
    <3>3. u \in Seq(U)
      BY <1>3, <3>1
    <3>4. one \in Seq(U)
      BY DEF U
    <3>5. Swapped(one, a, b) = <<b>>
      BY DEF Swapped
    <3>6. w \in Seq(U)
      BY <2>1
    <3>7. y[n] = Swapped(u, a, b)
      BY <1>6, <3>1
    <3> HIDE DEF one, u, w
    <3> DEFINE v == u \o one
    <3>8. v \in Seq(U)
      BY <3>3, <3>4
    <3>9. Swapped(v, a, b) = Swapped(u, a, b) \o Swapped(one, a, b)
      BY <3>3, <3>4, SwappedConcat
    <3> HIDE DEF v
    <3>10. Swapped(v \o w, a, b) = Swapped(v, a, b) \o Swapped(w, a, b)
      BY <3>6, <3>8, SwappedConcat
    <3> QED
      BY <2>1, <3>2, <3>5, <3>7, <3>9, <3>10 DEF v
  <2> QED
    BY <2>2, <2>3
<1>7. y[Len(words)] = Swapped(x[Len(words)], a, b)
  <2> HIDE DEF I
  <2>1. Len(words) \in I
    BY <1>5, <1>6, InductionOnNat
  <2> QED
    BY <2>1 DEF I
<1> QED
  BY <1>4, <1>7

\* The first word of many comes first, and the rest is joined behind it.
LEMMA JoinFirst ==
  ASSUME NEW S, NEW words \in Seq(Seq(S)), NEW sep, Len(words) >= 2
  PROVE  Join(words, sep) = words[1] \o <<sep>> \o Join(Tail(words), sep)
<1> DEFINE rest == Tail(words)
           x == Joined(words, sep)
           y == Joined(rest, sep)
           U == S \cup {sep}
           one == <<sep>>
           head == words[1] \o one
           I == {n \in Nat : n + 2 =< Len(words) => x[n + 2] = head \o y[n + 1]}
<1>1. /\ rest \in Seq(Seq(S)) /\ Len(rest) = Len(words) - 1 /\ Len(words) \in Nat
      /\ \A i \in 1..Len(rest) : rest[i] = words[i + 1]
  OBVIOUS
<1>2. /\ Len(words) >= 1 => x[1] = words[1]
      /\ \A i \in 2..Len(words) : x[i] = x[i - 1] \o one \o words[i]
  BY JoinedIs
<1> HIDE DEF rest
<1>3. /\ Len(rest) >= 1 => y[1] = rest[1]
      /\ \A i \in 2..Len(rest) : y[i] = y[i - 1] \o one \o rest[i]
  BY <1>1, JoinedIs
<1>4. \A i \in 0..Len(rest) : y[i] \in Seq(U)
  BY <1>1, JoinedType
<1>5. Join(words, sep) = x[Len(words)] /\ Join(rest, sep) = y[Len(rest)]
  BY DEF Join
<1>6. one \in Seq(U) /\ words[1] \in Seq(U) /\ \A i \in 1..Len(words) : words[i] \in Seq(U)
  OBVIOUS
<1> HIDE DEF x, y, one, U
<1>7. head \in Seq(U)
  BY <1>6
<1>8. 0 \in I
  <2>1. 2 \in 2..Len(words) /\ 2 - 1 = 1 /\ Len(words) >= 1 /\ Len(rest) >= 1
    BY <1>1
  <2>2. x[2] = head \o words[2]
    BY <1>2, <2>1
  <2>3. y[1] = words[2]
    BY <1>1, <1>3, <2>1
  <2> HIDE DEF head
  <2>4. x[0 + 2] = head \o y[0 + 1]
    BY <2>2, <2>3
  <2> QED
    BY <2>4
<1> HIDE DEF head
<1>9. ASSUME NEW n, n \in Nat, n \in I PROVE n + 1 \in I
  <2>0. SUFFICES ASSUME (n + 1) + 2 =< Len(words)
                 PROVE  x[(n + 1) + 2] = head \o y[(n + 1) + 1]
    BY <1>9
  <2> DEFINE w == words[n + 3]
             u == y[n + 1]
  <2>1. /\ n + 3 \in 2..Len(words) /\ n + 3 \in 1..Len(words)
        /\ (n + 3) - 1 = n + 2 /\ (n + 1) + 2 = n + 3
    BY <1>1, <1>9, <2>0
  <2>2. n + 2 \in 2..Len(rest) /\ (n + 2) - 1 = n + 1 /\ (n + 1) + 1 = n + 2
    BY <1>1, <1>9, <2>0
  <2>3. x[n + 3] = x[n + 2] \o one \o w
    BY <1>2, <2>1
  <2>4. rest[n + 2] = w
    <3>1. n + 2 \in 1..Len(rest) /\ (n + 2) + 1 = n + 3
      BY <1>9, <2>2
    <3> QED
      BY <1>1, <3>1
  <2>5. y[n + 2] = u \o one \o w
    BY <1>3, <2>2, <2>4
  <2>6. x[n + 2] = head \o u
    BY <1>1, <1>9, <2>1
  <2>7. u \in Seq(U)
    <3>1. n \in Nat /\ n + 2 \in 2..Len(rest) /\ Len(rest) \in Int
      BY <1>1, <1>9, <2>2
    <3>2. n + 1 \in 0..Len(rest)
      BY <3>1
    <3> QED
      BY <1>4, <3>2
  <2>8. w \in Seq(U)
    BY <1>6, <2>1
  <2> HIDE DEF w, u
  <2>9. x[n + 3] = head \o y[n + 2]
    <3>1. one \in Seq(U)
      BY <1>6
    <3> DEFINE v == u \o one
    <3>2. v \in Seq(U)
      BY <2>7, <3>1
    <3>3. (head \o u) \o one = head \o v
      BY <1>7, <2>7, <3>1, ConcatAssoc
    <3> HIDE DEF v
    <3>4. (head \o v) \o w = head \o (v \o w)
      BY <1>7, <2>8, <3>2, ConcatAssoc
    <3> QED
      BY <2>3, <2>5, <2>6, <3>3, <3>4 DEF v
  <2> QED
    BY <2>1, <2>2, <2>9
<1>10. x[Len(words)] = head \o y[Len(rest)]
  <2>1. Len(words) - 2 \in Nat /\ (Len(words) - 2) + 2 = Len(words)
        /\ (Len(words) - 2) + 1 = Len(rest)
    BY <1>1
  <2> HIDE DEF I
  <2>2. Len(words) - 2 \in I
    BY <1>8, <1>9, <2>1, InductionOnNat
  <2> USE DEF I
  <2> QED
    BY <1>1, <2>1, <2>2
<1> QED
  BY <1>5, <1>10 DEF rest, head, one

-----------------------------------------------------------------------------
(* Words that are searched for.                                            *)

\* part is in text from place k on.
HasAt(text, part, k) == \A i \in 1..Len(part) : text[k + i] = part[i]

\* text.find(part) > -1 means that part is at some place of text.
LEMMA HasIs ==
  ASSUME NEW S, NEW text \in Seq(S), NEW part \in Seq(S)
  PROVE  Has(text, part) <=>
           \E k \in 0..Len(text) - Len(part) : HasAt(text, part, k)
<1>1. ASSUME Has(text, part)
      PROVE  \E k \in 0..Len(text) - Len(part) : HasAt(text, part, k)
  <2>1. PICK i \in 0..Len(text), j \in 0..Len(text) : part = SubSeq(text, i + 1, j)
    BY <1>1 DEF Has, SubSeqs
  <2>2. CASE j < i
    <3>1. Len(part) = 0
      BY <2>1, <2>2
    <3>2. HasAt(text, part, 0) /\ 0 \in 0..Len(text) - Len(part)
      BY <3>1 DEF HasAt
    <3> QED
      BY <3>2
  <2>3. CASE j >= i
    <3>1. Len(part) = j - i /\ \A k \in 1..j - i : part[k] = text[i + k]
      BY <2>1, <2>3
    <3>2. HasAt(text, part, i) /\ i \in 0..Len(text) - Len(part)
      BY <3>1, <2>3 DEF HasAt
    <3> QED
      BY <3>2
  <2> QED
    BY <2>2, <2>3
<1>2. ASSUME NEW k \in 0..Len(text) - Len(part), HasAt(text, part, k)
      PROVE  Has(text, part)
  <2>1. k + Len(part) \in 0..Len(text) /\ k \in 0..Len(text)
    OBVIOUS
  <2>2. part = SubSeq(text, k + 1, k + Len(part))
    BY <1>2, <2>1 DEF HasAt
  <2> QED
    BY <2>1, <2>2 DEF Has, SubSeqs
<1> QED
  BY <1>1, <1>2

\* A swap loses no occurrence.
LEMMA HasSwapped ==
  ASSUME NEW S, NEW text \in Seq(S), NEW part \in Seq(S), NEW a, NEW b,
         Has(text, part)
  PROVE  Has(Swapped(text, a, b), Swapped(part, a, b))
<1> DEFINE x == Swapped(text, a, b)  y == Swapped(part, a, b)  U == S \cup {b}
<1>1. /\ x \in Seq(U) /\ Len(x) = Len(text)
      /\ \A i \in 1..Len(text) : x[i] = IF text[i] = a THEN b ELSE text[i]
  BY DEF Swapped
<1>2. /\ y \in Seq(U) /\ Len(y) = Len(part)
      /\ \A i \in 1..Len(part) : y[i] = IF part[i] = a THEN b ELSE part[i]
  BY DEF Swapped
<1>3. PICK k \in 0..Len(text) - Len(part) : HasAt(text, part, k)
  BY HasIs
<1> HIDE DEF x, y, U
<1>4. HasAt(x, y, k) /\ k \in 0..Len(x) - Len(y)
  BY <1>1, <1>2, <1>3 DEF HasAt
<1>5. x \in Seq(U) /\ y \in Seq(U)
  BY <1>1, <1>2
<1>6. Has(x, y)
  BY <1>4, <1>5, HasIs
<1> QED
  BY <1>6 DEF x, y

\* The two ways of joining words find the same words in the same words.
LEMMA SearchesCorrespond ==
  ASSUME NEW S, NEW words \in Seq(Seq(S)), NEW part \in Seq(Seq(S)), NEW a, NEW b,
         a \notin S, b \notin S
  PROVE  Has(Join(words, a), Join(part, a)) <=> Has(Join(words, b), Join(part, b))
<1>1. /\ Join(words, a) \in Seq(S \cup {a}) /\ Join(part, a) \in Seq(S \cup {a})
      /\ Join(words, b) \in Seq(S \cup {b}) /\ Join(part, b) \in Seq(S \cup {b})
  BY JoinType
<1>2. /\ Join(words, b) = Swapped(Join(words, a), a, b)
      /\ Join(part, b) = Swapped(Join(part, a), a, b)
      /\ Join(words, a) = Swapped(Join(words, b), b, a)
      /\ Join(part, a) = Swapped(Join(part, b), b, a)
  BY JoinSwapped
<1> DEFINE U == S \cup {a}  V == S \cup {b}
           p == Join(words, a)  q == Join(part, a)
           r == Join(words, b)  s == Join(part, b)
<1>3. p \in Seq(U) /\ q \in Seq(U) /\ r \in Seq(V) /\ s \in Seq(V)
  BY <1>1
<1> HIDE DEF U, V, p, q, r, s
<1>4. Has(p, q) => Has(Swapped(p, a, b), Swapped(q, a, b))
  BY <1>3, HasSwapped
<1>5. Has(r, s) => Has(Swapped(r, b, a), Swapped(s, b, a))
  BY <1>3, HasSwapped
<1> QED
  BY <1>2, <1>4, <1>5 DEF p, q, r, s

\* A part that begins with a word that is not in the first word of a text, and
\* has no separator, is searched for after that word.
LEMMA SkipWord ==
  ASSUME NEW S, NEW d \in Seq(S), NEW sep \in S, NEW rest \in Seq(S),
         NEW w \in Seq(S), NEW part \in Seq(S),
         ~Has(d, w), Len(w) > 0, Len(w) =< Len(part),
         \A i \in 1..Len(w) : part[i] = w[i] /\ w[i] # sep
  PROVE  Has(d \o <<sep>> \o rest, part) <=> Has(rest, part)
<1> DEFINE text == d \o <<sep>> \o rest
           m == Len(d)  n == Len(rest)
<1>1. /\ text \in Seq(S) /\ Len(text) = m + 1 + n
      /\ \A i \in 1..m : text[i] = d[i]
      /\ text[m + 1] = sep
      /\ \A i \in 1..n : text[m + 1 + i] = rest[i]
  OBVIOUS
<1>2. m \in Nat /\ n \in Nat /\ Len(w) \in Nat /\ Len(part) \in Nat
  OBVIOUS
<1>3. \A k \in 0..m - Len(w) : ~HasAt(d, w, k)
  BY HasIs
<1> HIDE DEF text, m, n
<1>4. ASSUME Has(text, part) PROVE Has(rest, part)
  <2>1. PICK k \in 0..Len(text) - Len(part) : HasAt(text, part, k)
    BY <1>1, <1>4, HasIs
  <2>2. \A i \in 1..Len(w) : text[k + i] = w[i]
    BY <1>2, <2>1 DEF HasAt
  <2>3. CASE k + Len(w) =< m
    <3>1. k \in 0..m - Len(w)
      BY <1>2, <2>3
    <3>2. HasAt(d, w, k)
      BY <1>1, <1>2, <2>2, <2>3 DEF HasAt
    <3> QED
      BY <1>3, <3>1, <3>2
  <2>4. CASE k + Len(w) > m /\ k =< m
    <3>1. m + 1 - k \in 1..Len(w) /\ k + (m + 1 - k) = m + 1
      BY <1>2, <2>4
    <3>2. text[m + 1] = w[m + 1 - k]
      BY <2>2, <3>1
    <3> QED
      BY <1>1, <3>1, <3>2
  <2>5. CASE k > m
    <3>1. k - m - 1 \in 0..n - Len(part)
      BY <1>1, <1>2, <2>5
    <3>2. ASSUME NEW i \in 1..Len(part) PROVE rest[(k - m - 1) + i] = part[i]
      <4>1. (k - m - 1) + i \in 1..n /\ m + 1 + ((k - m - 1) + i) = k + i
        BY <1>1, <1>2, <2>5
      <4>2. text[k + i] = rest[(k - m - 1) + i]
        BY <1>1, <4>1
      <4> QED
        BY <2>1, <4>2 DEF HasAt
    <3> QED
      BY <3>1, <3>2, HasIs DEF HasAt, n
  <2> QED
    BY <1>2, <2>3, <2>4, <2>5
<1>5. ASSUME Has(rest, part) PROVE Has(text, part)
  <2>1. PICK k \in 0..n - Len(part) : HasAt(rest, part, k)
    BY <1>5, HasIs DEF n
  <2>2. m + 1 + k \in 0..Len(text) - Len(part)
    BY <1>1, <1>2
  <2>3. ASSUME NEW i \in 1..Len(part) PROVE text[(m + 1 + k) + i] = part[i]
    <3>1. k + i \in 1..n /\ m + 1 + (k + i) = (m + 1 + k) + i
      BY <1>2
    <3> QED
      BY <1>1, <2>1, <3>1 DEF HasAt
  <2> QED
    BY <1>1, <2>2, <2>3, HasIs DEF HasAt
<1> QED
  BY <1>4, <1>5 DEF text

\* IndexFirstSubSeq is the place of an occurrence.
LEMMA FoundAt ==
  ASSUME NEW S, NEW text \in Seq(S), NEW part \in Seq(S), Has(text, part)
  PROVE  /\ IndexFirstSubSeq(part, text) \in Int
         /\ IndexFirstSubSeq(part, text) - 1 \in 0..Len(text) - Len(part)
         /\ HasAt(text, part, IndexFirstSubSeq(part, text) - 1)
<1> DEFINE N == {i \in 0..Len(text) : part \in SubSeqs(SubSeq(text, 1, i))}
           last == CHOOSE i \in 0..Len(text) :
                     /\ part \in SubSeqs(SubSeq(text, 1, i))
                     /\ \A j \in 0..i - 1 : part \notin SubSeqs(SubSeq(text, 1, j))
<1>1. Len(text) \in N
  <2>1. SubSeq(text, 1, Len(text)) = text /\ Len(text) \in 0..Len(text)
    OBVIOUS
  <2> QED
    BY <2>1 DEF Has
<1>2. PICK i \in N : \A j \in N : i =< j
  <2>1. N \in SUBSET Nat /\ N # {}
    BY <1>1
  <2> HIDE DEF N
  <2> QED
    BY <2>1, LeastNat
<1>3. /\ last \in 0..Len(text) /\ part \in SubSeqs(SubSeq(text, 1, last))
      /\ \A j \in 0..last - 1 : part \notin SubSeqs(SubSeq(text, 1, j))
  <2>1. \A j \in 0..i - 1 : j \notin N /\ j \in 0..Len(text)
    BY <1>2
  <2>2. /\ i \in 0..Len(text) /\ part \in SubSeqs(SubSeq(text, 1, i))
        /\ \A j \in 0..i - 1 : part \notin SubSeqs(SubSeq(text, 1, j))
    BY <1>2, <2>1
  <2> QED
    BY <2>2
<1>4. IndexFirstSubSeq(part, text) = last - (Len(part) - 1)
  BY DEF IndexFirstSubSeq
<1> HIDE DEF last, N
<1> DEFINE front == SubSeq(text, 1, last)
<1>5. /\ front \in Seq(S) /\ Len(front) = last
      /\ \A j \in 1..last : front[j] = text[j]
  BY <1>3
<1>6. PICK k \in 0..last - Len(part) : HasAt(front, part, k)
  <2>1. Has(front, part)
    BY <1>3 DEF Has
  <2> HIDE DEF front
  <2> QED
    BY <1>5, <2>1, HasIs
<1>7. k = last - Len(part)
  <2> SUFFICES ASSUME k < last - Len(part) PROVE FALSE
    BY <1>3
  <2> DEFINE less == SubSeq(text, 1, last - 1)
  <2>1. /\ less \in Seq(S) /\ Len(less) = last - 1
        /\ \A j \in 1..last - 1 : less[j] = text[j]
    BY <1>3
  <2>2. last - 1 \in 0..last - 1
    BY <1>3
  <2> HIDE DEF less, front
  <2>3. HasAt(less, part, k) /\ k \in 0..(last - 1) - Len(part)
    BY <1>3, <1>5, <1>6, <2>1 DEF HasAt
  <2>4. Has(less, part)
    BY <2>1, <2>3, HasIs
  <2> QED
    BY <1>3, <2>2, <2>4 DEF Has, less
<1>8. HasAt(text, part, k)
  BY <1>3, <1>5, <1>6 DEF HasAt
<1>9. last - (Len(part) - 1) - 1 = last - Len(part)
  BY <1>3
<1> QED
  BY <1>3, <1>4, <1>6, <1>7, <1>8, <1>9

\* A part and what follows an occurrence of it end the text.
LEMMA RestIsSuffix ==
  ASSUME NEW S, NEW text \in Seq(S), NEW part \in Seq(S),
         NEW k \in 0..Len(text) - Len(part), HasAt(text, part, k)
  PROVE  IsSuffix(part \o SubSeq(text, (k + 1) + Len(part), Len(text)), text)
<1> DEFINE m == Len(part)  n == Len(text)
           rest == SubSeq(text, (k + 1) + m, n)
           s == part \o rest
<1>1. m \in Nat /\ n \in Nat /\ k \in 0..n - m
  OBVIOUS
<1>2. /\ rest \in Seq(S) /\ Len(rest) = n - m - k
      /\ \A i \in 1..n - m - k : rest[i] = text[k + m + i]
  OBVIOUS
<1> HIDE DEF rest
<1>3. /\ s \in Seq(S) /\ Len(s) = n - k
      /\ \A i \in 1..m : s[i] = part[i]
      /\ \A i \in 1..n - m - k : s[m + i] = rest[i]
  BY <1>1, <1>2
<1> HIDE DEF s, m, n
<1>4. \A i \in 1..n - k : s[i] = text[k + i]
  <2> SUFFICES ASSUME NEW i \in 1..n - k PROVE s[i] = text[k + i]
    OBVIOUS
  <2>1. CASE i =< m
    BY <1>1, <1>3, <2>1 DEF HasAt, m
  <2>2. CASE i > m
    <3>1. i - m \in 1..n - m - k /\ m + (i - m) = i /\ k + m + (i - m) = k + i
      BY <1>1, <2>2
    <3> QED
      BY <1>2, <1>3, <3>1
  <2> QED
    BY <1>1, <2>1, <2>2
<1> DEFINE x == Reverse(s)  y == Reverse(text)
<1>5. /\ x \in Seq(S) /\ Len(x) = n - k
      /\ \A i \in 1..n - k : x[i] = s[(n - k - i) + 1]
  <2>1. x = [i \in 1..n - k |-> s[(n - k - i) + 1]]
    BY <1>3 DEF Reverse
  <2>2. n - k \in Nat /\ \A i \in 1..n - k : (n - k - i) + 1 \in 1..n - k
    BY <1>1
  <2>3. \A i \in 1..n - k : s[(n - k - i) + 1] \in S
    BY <1>3, <2>2
  <2> HIDE DEF x
  <2> QED
    BY <2>1, <2>2, <2>3
<1>6. /\ y \in Seq(S) /\ Len(y) = n
      /\ \A i \in 1..n : y[i] = text[(n - i) + 1]
  BY DEF Reverse, n
<1> HIDE DEF x, y
<1>7. \A i \in 1..n - k : x[i] = y[i]
  <2> SUFFICES ASSUME NEW i \in 1..n - k PROVE x[i] = y[i]
    OBVIOUS
  <2>1. /\ (n - k - i) + 1 \in 1..n - k /\ i \in 1..n
        /\ k + ((n - k - i) + 1) = (n - i) + 1
    BY <1>1
  <2> QED
    BY <1>4, <1>5, <1>6, <2>1
<1>8. SubSeq(x, 1, n - k) = SubSeq(y, 1, n - k)
  BY <1>1, <1>5, <1>6, <1>7
<1>9. IsPrefix(x, y)
  BY <1>1, <1>5, <1>6, <1>8 DEF IsPrefix
<1> QED
  BY <1>9 DEF IsSuffix, x, y, s, rest, m, n

\* Nothing is found in every text, as in Python.
LEMMA HasEmpty ==
  ASSUME NEW S, NEW text \in Seq(S)
  PROVE  Has(text, <<>>)
<1>1. SubSeq(text, 0 + 1, 0) = <<>> /\ 0 \in 0..Len(text)
  OBVIOUS
<1> QED
  BY <1>1 DEF Has, SubSeqs

\* A text without a fragment is a text of the others.
LEMMA HasNot ==
  ASSUME NEW S, NEW text \in Seq(S), NEW x \in S, ~Has(text, <<x>>)
  PROVE  text \in Seq(S \ {x})
<1>1. <<x>> \in Seq(S) /\ Len(<<x>>) = 1 /\ <<x>>[1] = x
  OBVIOUS
<1>2. ASSUME NEW i \in 1..Len(text) PROVE text[i] # x
  <2> SUFFICES ASSUME text[i] = x PROVE FALSE
    OBVIOUS
  <2> DEFINE part == <<x>>
  <2>1. part \in Seq(S) /\ Len(part) = 1 /\ part[1] = x
    BY <1>1
  <2> HIDE DEF part
  <2>2. i - 1 \in 0..Len(text) - Len(part) /\ (i - 1) + 1 = i
    BY <2>1
  <2>3. HasAt(text, part, i - 1)
    BY <2>1, <2>2 DEF HasAt
  <2>4. Has(text, part)
    BY <2>1, <2>2, <2>3, HasIs
  <2> QED
    BY <2>4 DEF part
<1> QED
  BY <1>2

\* Joined words start with the first of them.
LEMMA JoinStarts ==
  ASSUME NEW S, NEW words \in Seq(Seq(S)), NEW sep, Len(words) >= 1
  PROVE  /\ Len(words[1]) =< Len(Join(words, sep))
         /\ \A i \in 1..Len(words[1]) : Join(words, sep)[i] = words[1][i]
<1>1. CASE Len(words) = 1
  <2>1. Len(words) >= 1 => Joined(words, sep)[1] = words[1]
    BY JoinedIs
  <2>2. Join(words, sep) = words[1] /\ words[1] \in Seq(S)
    BY <1>1, <2>1 DEF Join
  <2> QED
    BY <2>2
<1>2. CASE Len(words) >= 2
  <2> DEFINE U == S \cup {sep}  one == <<sep>>  rest == Join(Tail(words), sep)
             head == words[1]
  <2>1. Join(words, sep) = head \o one \o rest
    BY <1>2, JoinFirst
  <2>2. head \in Seq(U) /\ one \in Seq(U)
    OBVIOUS
  <2>3. rest \in Seq(U)
    <3>1. Tail(words) \in Seq(Seq(S))
      BY <1>2
    <3> QED
      BY <3>1, JoinType
  <2> HIDE DEF U, one, rest, head
  <2>4. /\ Len(head) =< Len(head \o one \o rest)
        /\ \A i \in 1..Len(head) : (head \o one \o rest)[i] = head[i]
    BY <2>2, <2>3
  <2> QED
    BY <2>1, <2>4 DEF head
<1>3. Len(words) = 1 \/ Len(words) >= 2
  <2>1. Len(words) \in Nat
    OBVIOUS
  <2>2. \A n \in Nat : n >= 1 => n = 1 \/ n >= 2
    OBVIOUS
  <2> QED
    BY <2>1, <2>2
<1> QED
  BY <1>1, <1>2, <1>3

\* Year and make do not matter to the search for the words of a model.
LEMMA SkipYearAndMake ==
  ASSUME NEW S, NEW desc \in Seq(Seq(S)), NEW words \in Seq(Seq(S)), NEW sep, sep \notin S,
         Len(desc) >= 3, Len(words) >= 1, ~Has(desc[1], words[1]), ~Has(desc[2], words[1])
  PROVE  Has(Join(desc, sep), Join(words, sep)) <=>
           Has(Join(Tail(Tail(desc)), sep), Join(words, sep))
<1> DEFINE U == S \cup {sep}
           w == words[1]  part == Join(words, sep)
           a == desc[1]  b == desc[2]
           rest == Tail(desc)  last == Tail(rest)
           x == Join(rest, sep)  y == Join(last, sep)
<1>1. /\ rest \in Seq(Seq(S)) /\ Len(rest) >= 2 /\ rest[1] = b /\ last \in Seq(Seq(S))
      /\ a \in Seq(U) /\ b \in Seq(U) /\ w \in Seq(U) /\ sep \in U /\ w \in Seq(S)
  <2>1. rest \in Seq(Seq(S)) /\ Len(rest) >= 2 /\ rest[1] = b
    OBVIOUS
  <2>2. last \in Seq(Seq(S))
    <3> HIDE DEF rest
    <3> QED
      BY <2>1
  <2>3. a \in Seq(S) /\ b \in Seq(S) /\ w \in Seq(S)
    OBVIOUS
  <2>4. \A s \in Seq(S) : s \in Seq(U)
    OBVIOUS
  <2> QED
    BY <2>1, <2>2, <2>3, <2>4
<1>2. /\ Len(w) =< Len(part) /\ \A i \in 1..Len(w) : part[i] = w[i]
      /\ part \in Seq(U)
  BY JoinStarts, JoinType
<1>3. \A i \in 1..Len(w) : w[i] # sep
  BY <1>1
<1>4. Len(w) > 0
  <2> SUFFICES ASSUME Len(w) = 0 PROVE FALSE
    BY <1>1
  <2>1. w = <<>>
    BY <1>1
  <2>2. Has(a, <<>>)
    BY <1>1, HasEmpty
  <2> QED
    BY <2>1, <2>2
<1>5. Join(desc, sep) = a \o <<sep>> \o x
  <2>1. Len(desc) >= 2
    OBVIOUS
  <2> QED
    BY <2>1, JoinFirst
<1> HIDE DEF rest, last
<1>6. x = b \o <<sep>> \o y
  BY <1>1, JoinFirst DEF last
<1>7. x \in Seq(U) /\ y \in Seq(U)
  BY <1>1, JoinType
<1> HIDE DEF U, part, x, y, w, a, b
<1>8. Has(a \o <<sep>> \o x, part) <=> Has(x, part)
  <2>1. ~Has(a, w)
    BY DEF a, w
  <2> QED
    BY <1>1, <1>2, <1>3, <1>4, <1>7, <2>1, SkipWord
<1>9. Has(b \o <<sep>> \o y, part) <=> Has(y, part)
  <2>1. ~Has(b, w) /\ b \in Seq(U) /\ w \in Seq(U) /\ sep \in U
    BY <1>1 DEF b, w
  <2> QED
    BY <1>2, <1>3, <1>4, <1>7, <2>1, SkipWord
<1> QED
  BY <1>5, <1>6, <1>8, <1>9 DEF part, y, last, rest

\* Every list of arguments is made of arguments, each of them of words.
ArgsOK == args \in Seq(Seq(Text) \ {<<>>})

\* FirstArg is one of the arguments that are found, unless there is none.
LEMMA FirstArgIs ==
  ASSUME ArgsOK, NEW found
  PROVE  \/ FirstArg(found) = None /\ \A i \in 1..Len(args) : args[i] \notin found
         \/ /\ FirstArg(found) \in found /\ FirstArg(found) # None
            /\ \E i \in 1..Len(args) : FirstArg(found) = args[i]
<1> DEFINE I == {i \in 1..Len(args) : args[i] \in found}
           first == SelectInSeq(args, LAMBDA a : a \in found)
<1>1. first = IF I # {} THEN CHOOSE x \in I : \A y \in I : x =< y ELSE 0
  BY DEF SelectInSeq, Min
<1>2. FirstArg(found) = IF first = 0 THEN None ELSE args[first]
  BY DEF FirstArg
<1> HIDE DEF first
<1>3. CASE I = {}
  BY <1>1, <1>2, <1>3
<1>4. CASE I # {}
  <2>1. I \in SUBSET Nat
    OBVIOUS
  <2>2. \E x \in I : \A y \in I : x =< y
    <3> HIDE DEF I
    <3> QED
      BY <1>4, <2>1, LeastNat
  <2>3. first \in I
    BY <1>1, <1>4, <2>2
  <2>4. args[first] \in Seq(Text)
    BY <2>3 DEF ArgsOK
  <2> QED
    <3>1. FirstArg(found) = args[first]
      BY <1>2, <2>3
    <3>2. None # args[first]
      BY <2>4, AdPageAssumption
    <3> QED
      BY <2>3, <3>1, <3>2
<1> QED
  BY <1>3, <1>4

-----------------------------------------------------------------------------
(* The two searches.                                                       *)

\* Arguments and page are among those the program may be given.
Inputs == args \in MakeModels /\ page \in Page

\* What the assumption on the constants says of the arguments and the page.
LEMMA InputsType ==
  ASSUME Inputs
  PROVE  /\ ArgsOK
         /\ page.price \in Digits \cup {None}
         /\ page.odometer \in (Digits \ {<<>>}) \cup {None}
         /\ page.desc \in Seq(Word)
BY AdPageAssumption DEF Inputs, ArgsOK

\* The arguments that the search through the description finds, and those that the
\* search through the hyphenated model does.
Named == {a \in ToSet(args) : Has(Join(page.desc, " "), Join(Tail(a), " "))}
NamedKbb == {a \in ToSet(args) : Has(Join(SubSeq(page.desc, 3, Len(page.desc)), "-"),
                                     Join(RemovedMake(a), "-"))}

\* find_model_by_desc finds the model of a named argument, when there is one.
LEMMA FindModelIs ==
  ASSUME ArgsOK
  PROVE  \/ FindModelByDesc(page.desc) = None /\ Named = {}
         \/ \E a \in Named :
              /\ FirstArg(Named) = a
              /\ FindModelByDesc(page.desc) = Join(Tail(a), " ")
              /\ FindModelByDesc(page.desc) \in Text /\ FindModelByDesc(page.desc) # None
<1>1. FindModelByDesc(page.desc) =
        IF FirstArg(Named) = None THEN None ELSE Join(Tail(FirstArg(Named)), " ")
  BY DEF FindModelByDesc, Named
<1>2. Named \subseteq ToSet(args) /\ ToSet(args) = {args[i] : i \in 1..Len(args)}
  <2>1. ToSet(args) = {args[i] : i \in 1..Len(args)}
    BY DEF ToSet, ArgsOK
  <2> QED
    BY <2>1 DEF Named
<1> DEFINE arg == FirstArg(Named)
<1> HIDE DEF arg
<1>3. CASE arg = None /\ \A i \in 1..Len(args) : args[i] \notin Named
  <2>1. Named = {}
    BY <1>2, <1>3
  <2> QED
    BY <1>1, <1>3, <2>1 DEF arg
<1>4. CASE arg \in Named /\ arg # None /\ \E i \in 1..Len(args) : arg = args[i]
  <2>1. arg \in Seq(Text) \ {<<>>}
    BY <1>4 DEF ArgsOK
  <2>2. Tail(arg) \in Seq(Text)
    BY <2>1
  <2>3. Join(Tail(arg), " ") \in Text
    <3> DEFINE F == Letter \cup {"-", " "}
    <3>1. Tail(arg) \in Seq(Seq(F)) /\ F \cup {" "} = F /\ Text = Seq(F)
      BY <2>2 DEF Text
    <3> HIDE DEF F
    <3> QED
      BY <3>1, JoinType
  <2>4. Join(Tail(arg), " ") # None
    BY <2>3, AdPageAssumption
  <2> QED
    BY <1>1, <1>4, <2>3, <2>4 DEF arg
<1> QED
  BY <1>3, <1>4, FirstArgIs DEF arg

\* find_kbb_model finds the name of an argument that the hyphenated ad names.
LEMMA FindKbbIs ==
  ASSUME ArgsOK
  PROVE  \/ FindKbbModel(page.desc) = None /\ FirstArg(NamedKbb) = None /\ NamedKbb = {}
         \/ /\ FirstArg(NamedKbb) \in NamedKbb
            /\ FindKbbModel(page.desc) # None
            /\ LET name == Join(RemovedMake(FirstArg(NamedKbb)), "-")
               IN  FindKbbModel(page.desc) =
                     IF name \in DOMAIN KbbModels THEN KbbModels[name] ELSE name
<1> DEFINE arg == FirstArg(NamedKbb)
           name == Join(RemovedMake(arg), "-")
<1>1. FindKbbModel(page.desc) =
        IF arg = None THEN None
        ELSE IF name \in DOMAIN KbbModels THEN KbbModels[name] ELSE name
  BY DEF FindKbbModel, NamedKbb
<1>2. NamedKbb \subseteq ToSet(args) /\ ToSet(args) = {args[i] : i \in 1..Len(args)}
  BY DEF NamedKbb, ToSet, ArgsOK
<1> HIDE DEF arg
<1>3. CASE arg = None /\ \A i \in 1..Len(args) : args[i] \notin NamedKbb
  <2>1. NamedKbb = {}
    BY <1>2, <1>3
  <2> QED
    BY <1>1, <1>3, <2>1 DEF arg
<1>4. CASE arg \in NamedKbb /\ arg # None /\ \E i \in 1..Len(args) : arg = args[i]
  <2>1. arg \in Seq(Text) \ {<<>>}
    BY <1>4 DEF ArgsOK
  <2>2. RemovedMake(arg) \in Seq(Text)
    BY <2>1 DEF RemovedMake
  <2>3. name \in Text
    <3> DEFINE F == Letter \cup {"-", " "}
    <3>1. RemovedMake(arg) \in Seq(Seq(F)) /\ F \cup {"-"} = F /\ Text = Seq(F)
      BY <2>2 DEF Text
    <3> HIDE DEF F
    <3> QED
      BY <3>1, JoinType
  <2> HIDE DEF name
  <2>4. name \in DOMAIN KbbModels => KbbModels[name] \in Text
    BY AdPageAssumption
  <2>5. FindKbbModel(page.desc) # None
    BY <1>1, <1>4, <2>3, <2>4, AdPageAssumption
  <2> QED
    BY <1>1, <1>4, <2>5 DEF arg, name
<1> QED
  BY <1>3, <1>4, FirstArgIs DEF arg

\* In a plain ad, and in the arguments for it, no word has a separator.
LEMMA PlainWords ==
  ASSUME Inputs, PlainAd, NEW a \in ToSet(args)
  PROVE  /\ page.desc \in Seq(Seq(Letter))
         /\ Tail(a) \in Seq(Seq(Letter)) /\ Len(Tail(a)) >= 1 /\ RemovedMake(a) = Tail(a)
         /\ ~Has(page.desc[1], Tail(a)[1]) /\ ~Has(page.desc[2], Tail(a)[1])
<1>1. ArgsOK /\ page.desc \in Seq(Word)
  BY InputsType
<1>2. page.desc \in Seq(Seq(Letter))
  <2> SUFFICES ASSUME NEW i \in 1..Len(page.desc)
               PROVE  page.desc[i] \in Seq(Letter)
    BY <1>1
  <2> DEFINE S == Letter \cup {"-"}
  <2>1. page.desc[i] \in Seq(S)
    BY <1>1 DEF Word
  <2>2. ~Has(page.desc[i], <<"-">>)
    <3>1. i \in DOMAIN page.desc
      BY <1>1
    <3> QED
      BY <3>1 DEF PlainAd
  <2>3. S \ {"-"} = Letter /\ "-" \in S
    BY AdPageAssumption
  <2> HIDE DEF S
  <2> QED
    BY <2>1, <2>2, <2>3, HasNot
<1>3. PICK i \in 1..Len(args) : a = args[i]
  BY <1>1 DEF ToSet, ArgsOK
<1>4. a \in Seq(Text) /\ Len(a) > 1 /\ i \in DOMAIN args
  <2>1. i \in DOMAIN args /\ args[i] \in Seq(Text)
    BY <1>1 DEF ArgsOK
  <2> QED
    BY <1>3, <2>1 DEF PlainAd
<1>5. /\ \A k \in 2..Len(a) : ~Has(a[k], <<"-">>) /\ ~Has(a[k], <<" ">>)
      /\ \A k \in {1, 2} : ~Has(page.desc[k], a[2])
  BY <1>3, <1>4 DEF PlainAd
<1>6. ASSUME NEW k \in 2..Len(a) PROVE a[k] \in Seq(Letter)
  <2> DEFINE S == Letter \cup {"-", " "}  T == Letter \cup {" "}
  <2>1. a[k] \in Seq(S)
    <3>1. a \in Seq(Seq(S))
      BY <1>4 DEF Text
    <3> HIDE DEF S
    <3> QED
      BY <3>1
  <2>2. S \ {"-"} = T /\ T \ {" "} = Letter /\ "-" \in S /\ " " \in T
    BY AdPageAssumption
  <2> HIDE DEF S, T
  <2>3. a[k] \in Seq(T)
    BY <1>5, <2>1, <2>2, HasNot
  <2> QED
    BY <1>5, <2>1, <2>2, <2>3, HasNot
<1>7. /\ Len(Tail(a)) = Len(a) - 1
      /\ \A k \in 1..Len(a) - 1 : Tail(a)[k] = a[k + 1]
  BY <1>4
<1>8. Tail(a) \in Seq(Seq(Letter))
  <2>1. Tail(a) \in Seq(Text)
    BY <1>4
  <2>2. \A k \in 1..Len(Tail(a)) : Tail(a)[k] \in Seq(Letter)
    <3> SUFFICES ASSUME NEW k \in 1..Len(Tail(a)) PROVE Tail(a)[k] \in Seq(Letter)
      OBVIOUS
    <3>1. k + 1 \in 2..Len(a) /\ Tail(a)[k] = a[k + 1]
      BY <1>4, <1>7
    <3> QED
      BY <1>6, <3>1
  <2>3. \A s \in Seq(Text) : (\A k \in 1..Len(s) : s[k] \in Seq(Letter)) => s \in Seq(Seq(Letter))
    OBVIOUS
  <2> HIDE DEF Text
  <2> QED
    BY <2>1, <2>2, <2>3
<1>9. Len(Tail(a)) >= 1 /\ Tail(a)[1] = a[2] /\ RemovedMake(a) = Tail(a)
  <2>1. Len(a) \in Nat
    BY <1>4
  <2> DEFINE n == Len(a)
  <2>2. n \in Nat /\ n > 1
    BY <1>4, <2>1
  <2> HIDE DEF n
  <2>3. n - 1 >= 1 /\ n # 1 /\ 1 \in 1..n - 1
    BY <2>2
  <2> QED
    BY <1>7, <2>3 DEF RemovedMake, n
<1> QED
  BY <1>2, <1>5, <1>8, <1>9

\* For a plain ad the two searches name the same arguments.
LEMMA NamedAgree ==
  ASSUME Inputs, PlainAd, Len(page.desc) >= 3
  PROVE  Named = NamedKbb
<1> SUFFICES ASSUME NEW a \in ToSet(args) PROVE a \in Named <=> a \in NamedKbb
  BY DEF Named, NamedKbb
<1> DEFINE desc == page.desc
           words == Tail(a)
           last == Tail(Tail(desc))
<1>1. /\ desc \in Seq(Seq(Letter)) /\ words \in Seq(Seq(Letter)) /\ Len(words) >= 1
      /\ RemovedMake(a) = words /\ ~Has(desc[1], words[1]) /\ ~Has(desc[2], words[1])
  BY PlainWords
<1>2. "-" \notin Letter /\ " " \notin Letter
  BY AdPageAssumption
<1>3. a \in Named <=> Has(Join(desc, " "), Join(words, " "))
  BY DEF Named
<1>4. a \in NamedKbb <=> Has(Join(SubSeq(desc, 3, Len(desc)), "-"), Join(words, "-"))
  BY <1>1 DEF NamedKbb
<1> HIDE DEF desc, words
<1>5. SubSeq(desc, 3, Len(desc)) = last /\ last \in Seq(Seq(Letter)) /\ Len(desc) >= 3
  <2>1. Len(desc) >= 3 /\ desc \in Seq(Seq(Letter))
    BY <1>1 DEF desc
  <2> DEFINE S == Seq(Letter)
  <2>2. \A s \in Seq(S) : Len(s) >= 3 =>
          SubSeq(s, 3, Len(s)) = Tail(Tail(s)) /\ Tail(Tail(s)) \in Seq(S)
    <3> HIDE DEF S
    <3> SUFFICES ASSUME NEW s \in Seq(S), Len(s) >= 3
                 PROVE  SubSeq(s, 3, Len(s)) = Tail(Tail(s)) /\ Tail(Tail(s)) \in Seq(S)
      OBVIOUS
    <3> DEFINE t == Tail(s)
    <3>1. /\ t \in Seq(S) /\ Len(t) = Len(s) - 1
          /\ \A i \in 1..Len(s) - 1 : t[i] = s[i + 1]
      OBVIOUS
    <3> HIDE DEF t
    <3>2. /\ Tail(t) \in Seq(S) /\ Len(Tail(t)) = Len(s) - 2
          /\ \A i \in 1..Len(s) - 2 : Tail(t)[i] = t[i + 1]
      BY <3>1
    <3>3. /\ SubSeq(s, 3, Len(s)) \in Seq(S) /\ Len(SubSeq(s, 3, Len(s))) = Len(s) - 2
          /\ \A i \in 1..Len(s) - 2 : SubSeq(s, 3, Len(s))[i] = s[i + 2]
      OBVIOUS
    <3>4. \A i \in 1..Len(s) - 2 : Tail(t)[i] = SubSeq(s, 3, Len(s))[i]
      BY <3>1, <3>2, <3>3
    <3> QED
      BY <3>2, <3>3, <3>4 DEF t
  <2> HIDE DEF S
  <2> QED
    BY <2>1, <2>2 DEF S
<1> HIDE DEF last
<1>6. Has(Join(desc, " "), Join(words, " ")) <=> Has(Join(last, " "), Join(words, " "))
  BY <1>1, <1>2, <1>5, SkipYearAndMake DEF last
<1>7. Has(Join(last, " "), Join(words, " ")) <=> Has(Join(last, "-"), Join(words, "-"))
  BY <1>1, <1>2, <1>5, SearchesCorrespond
<1> QED
  BY <1>3, <1>4, <1>5, <1>6, <1>7

\* A word is a text.
LEMMA WordIsText ==
  ASSUME NEW word \in Word
  PROVE  word \in Text
<1> DEFINE S == Letter \cup {"-"}  T == Letter \cup {"-", " "}
<1>1. word \in Seq(S)
  BY DEF Word
<1>2. S \subseteq T
  OBVIOUS
<1> HIDE DEF S, T
<1>3. word \in Seq(T)
  BY <1>1, <1>2
<1> QED
  BY <1>3 DEF Text, T

\* The style is the text behind an occurrence of the model.
LEMMA StyleFollows ==
  ASSUME NEW a
  PROVE  /\ Inputs /\ a \in Named
         /\ FindModelByDesc(page.desc) = Join(Tail(a), " ")
         /\ FindModelByDesc(page.desc) \in Text
         => IsSuffix(Join(Tail(a), " ") \o FindStyleByDesc(page.desc), Join(page.desc, " "))
<1> DEFINE F == Letter \cup {"-", " "}
           text == Join(page.desc, " ")
           part == Join(Tail(a), " ")
           k == IndexFirstSubSeq(part, text) - 1
<1>0. SUFFICES ASSUME /\ Inputs /\ a \in Named
                      /\ FindModelByDesc(page.desc) = part
                      /\ FindModelByDesc(page.desc) \in Text
               PROVE  IsSuffix(part \o FindStyleByDesc(page.desc), text)
  OBVIOUS
<1>1. Has(text, part)
  BY <1>0 DEF Named
<1>2. part \in Seq(F)
  BY <1>0 DEF Text
<1>3. text \in Seq(F)
  <2>1. F \cup {" "} = F
    OBVIOUS
  <2>2. page.desc \in Seq(Word)
    BY <1>0, InputsType
  <2>3. \A i \in 1..Len(page.desc) : page.desc[i] \in Seq(F)
    <3> SUFFICES ASSUME NEW i \in 1..Len(page.desc) PROVE page.desc[i] \in Seq(F)
      OBVIOUS
    <3>1. page.desc[i] \in Word
      BY <2>2
    <3>2. page.desc[i] \in Text
      BY <3>1, WordIsText
    <3> QED
      BY <3>2 DEF Text
  <2> HIDE DEF F
  <2>4. page.desc \in Seq(Seq(F))
    BY <2>2, <2>3
  <2> QED
    BY <2>1, <2>4, JoinType
<1>4. FindStyleByDesc(page.desc) =
        SubSeq(text, IndexFirstSubSeq(part, text) + Len(part), Len(text))
  BY <1>0 DEF FindStyleByDesc
<1> HIDE DEF F, text, part
<1>5. k \in 0..Len(text) - Len(part) /\ HasAt(text, part, k)
  BY <1>1, <1>2, <1>3, FoundAt
<1>6. (k + 1) + Len(part) = IndexFirstSubSeq(part, text) + Len(part)
  <2> DEFINE i == IndexFirstSubSeq(part, text)
  <2>1. i \in Int
    BY <1>1, <1>2, <1>3, FoundAt
  <2>2. Len(part) \in Nat
    BY <1>2
  <2> HIDE DEF i
  <2>3. ((i - 1) + 1) + Len(part) = i + Len(part)
    BY <2>1, <2>2
  <2> QED
    BY <2>3 DEF i
<1> HIDE DEF k
<1>7. IsSuffix(part \o SubSeq(text, (k + 1) + Len(part), Len(text)), text)
  BY <1>2, <1>3, <1>5, RestIsSuffix
<1> QED
  BY <1>4, <1>6, <1>7

-----------------------------------------------------------------------------
(* The steps.                                                              *)

\* find_style prefers the first style with the word to all others.
LEMMA FindStyleIs ==
  ASSUME NEW style, NEW styles \in Seq(SUBSET Text), styles # <<>>
  PROVE  /\ FindStyle(styles, style) \in DOMAIN styles
         /\ \A i \in DOMAIN styles :
              style # <<>> /\ FirstWord(style) \in styles[i] =>
                /\ FirstWord(style) \in styles[FindStyle(styles, style)]
                /\ FindStyle(styles, style) =< i
<1> DEFINE word == FirstWord(style)
           I == {i \in 1..Len(styles) : word \in styles[i]}
           first == SelectInSeq(styles, LAMBDA words : word \in words)
           c == FindStyle(styles, style)
<1>1. first = IF I # {} THEN CHOOSE x \in I : \A y \in I : x =< y ELSE 0
  BY DEF SelectInSeq, Min
<1>2. c = IF style = <<>> \/ first = 0 THEN 1 ELSE first
  BY DEF FindStyle
<1>3. DOMAIN styles = 1..Len(styles) /\ 1 \in 1..Len(styles)
  OBVIOUS
<1> HIDE DEF first, word, c
<1>4. CASE I = {}
  <2>1. c = 1
    BY <1>1, <1>2, <1>4
  <2> QED
    BY <1>3, <1>4, <2>1 DEF c, word
<1>5. CASE I # {}
  <2>1. I \in SUBSET Nat
    OBVIOUS
  <2>2. \E x \in I : \A y \in I : x =< y
    <3> HIDE DEF I
    <3> QED
      BY <1>5, <2>1, LeastNat
  <2>3. first \in I /\ \A y \in I : first =< y
    <3> HIDE DEF I
    <3> QED
      BY <1>1, <1>5, <2>2
  <2>4. first \in 1..Len(styles) /\ first # 0
    BY <2>3
  <2>5. CASE style = <<>>
    BY <1>2, <1>3, <2>5 DEF c
  <2>6. CASE style # <<>>
    <3>1. c = first
      BY <1>2, <2>4, <2>6
    <3> QED
      BY <1>3, <2>3, <2>4, <3>1 DEF c, word
  <2> QED
    BY <2>5, <2>6
<1> QED
  BY <1>4, <1>5

\* What each stage says: a car that is found is the one of the page, an exception
\* is that of a search, and the choice is find_style's.
InvCar ==
  Found =>
    /\ page.price \notin {None, <<>>} /\ ~Drops
    /\ FindKbbModel(page.desc) # None /\ FindModelByDesc(page.desc) # None
    /\ car = [price |-> ReadPrice(page.price), miles |-> ReadOdometer(page.odometer),
              model |-> FindKbbModel(page.desc), style |-> FindStyleByDesc(page.desc)]

InvRaised ==
  stage = "raised" =>
    ~Drops /\ (FindKbbModel(page.desc) = None \/ FindModelByDesc(page.desc) = None)

InvChoice ==
  stage = "chosen" => kbb \in StylePages /\ choice = FindStyle(kbb, car.style)

\* The inductive invariant.
PageInv == Inputs /\ InvCar /\ InvRaised /\ InvChoice

\* The invariant holds of an ad that has just arrived.
LEMMA InitInv == Init => PageInv
BY DEF Init, PageInv, Inputs, InvCar, InvRaised, InvChoice, Found

\* What is found in an ad stays the same while arguments and ad do.
LEMMA SameInputs ==
  ASSUME args' = args, page' = page
  PROVE  /\ FindKbbModel(page.desc)' = FindKbbModel(page.desc)
         /\ FindModelByDesc(page.desc)' = FindModelByDesc(page.desc)
         /\ FindStyleByDesc(page.desc)' = FindStyleByDesc(page.desc)
         /\ Drops' = Drops
<1>1. Named' = Named /\ NamedKbb' = NamedKbb
  BY DEF Named, NamedKbb
<1>2. FirstArg(Named)' = FirstArg(Named) /\ FirstArg(NamedKbb)' = FirstArg(NamedKbb)
  <2> DEFINE Is(found, arg) ==
               LET I == {i \in 1..Len(args) : args[i] \in found}
                   first == IF I # {} THEN CHOOSE x \in I : \A y \in I : x =< y ELSE 0
               IN  arg = IF first = 0 THEN None ELSE args[first]
  <2>1. Is(Named, FirstArg(Named)) /\ Is(NamedKbb, FirstArg(NamedKbb))
    BY DEF FirstArg, SelectInSeq, Min
  <2>2. Is(Named, FirstArg(Named))' /\ Is(NamedKbb, FirstArg(NamedKbb))'
    BY DEF FirstArg, SelectInSeq, Min
  <2> QED
    BY <1>1, <2>1, <2>2
<1>3. FindKbbModel(page.desc)' = FindKbbModel(page.desc)
  BY <1>2 DEF FindKbbModel, NamedKbb
<1>4. FindModelByDesc(page.desc)' = FindModelByDesc(page.desc)
  BY <1>2 DEF FindModelByDesc, Named
<1>5. FindStyleByDesc(page.desc)' = FindStyleByDesc(page.desc)
  BY <1>4 DEF FindStyleByDesc
<1>6. Drops' = Drops
  BY DEF Drops
<1> QED
  BY <1>3, <1>4, <1>5, <1>6

\* Both callbacks keep the invariant.
LEMMA StepInv == PageInv /\ [Next]_vars => PageInv'
<1> SUFFICES ASSUME PageInv, [Next]_vars PROVE PageInv'
  OBVIOUS
<1>1. CASE ParseItems
  <2>1. UNCHANGED <<args, page>>
    BY <1>1 DEF ParseItems
  <2>2. /\ FindKbbModel(page.desc)' = FindKbbModel(page.desc)
        /\ FindModelByDesc(page.desc)' = FindModelByDesc(page.desc)
        /\ FindStyleByDesc(page.desc)' = FindStyleByDesc(page.desc)
    BY <2>1, SameInputs
  <2>3. Drops' = Drops
    BY <2>1, SameInputs
  <2>4. Inputs'
    BY <2>1 DEF PageInv, Inputs
  <2>5. CASE page.price = None /\ End("skipped")
    BY <2>4, <2>5 DEF PageInv, InvCar, InvRaised, InvChoice, Found, End
  <2>6. CASE page.price # None /\ ~Reads /\ End("adRaised")
    BY <2>4, <2>6 DEF PageInv, InvCar, InvRaised, InvChoice, Found, End
  <2>7. CASE page.price # None /\ Reads /\ Drops /\ End("dropped")
    BY <2>4, <2>7 DEF PageInv, InvCar, InvRaised, InvChoice, Found, End
  <2>8. CASE /\ Matches
             /\ FindKbbModel(page.desc) = None \/ FindModelByDesc(page.desc) = None
             /\ End("raised")
    BY <2>2, <2>3, <2>4, <2>8
       DEF PageInv, InvCar, InvRaised, InvChoice, Found, End, Matches
  <2>9. CASE End("cacheRaised") \/ End("reported")
    BY <2>4, <2>9 DEF PageInv, InvCar, InvRaised, InvChoice, Found, End
  <2>10. CASE /\ Matches
              /\ FindKbbModel(page.desc) # None /\ FindModelByDesc(page.desc) # None
              /\ stage' = "styles"
              /\ car' = [price |-> ReadPrice(page.price),
                         miles |-> ReadOdometer(page.odometer),
                         model |-> FindKbbModel(page.desc),
                         style |-> FindStyleByDesc(page.desc)]
    <3>1. page.price \notin {None, <<>>} /\ ~Drops
      BY <2>10 DEF Matches, Reads
    <3> QED
      BY <2>1, <2>2, <2>3, <2>4, <2>10, <3>1
         DEF PageInv, InvCar, InvRaised, InvChoice, Found
  <2> QED
    BY <1>1, <2>5, <2>6, <2>7, <2>8, <2>9, <2>10 DEF ParseItems
<1>2. CASE KbbParse
  <2>1. UNCHANGED <<args, page, car>> /\ Found
    BY <1>2 DEF KbbParse, Found
  <2>2. /\ FindKbbModel(page.desc)' = FindKbbModel(page.desc)
        /\ FindModelByDesc(page.desc)' = FindModelByDesc(page.desc)
        /\ FindStyleByDesc(page.desc)' = FindStyleByDesc(page.desc)
    BY <2>1, SameInputs
  <2>3. Drops' = Drops
    BY <2>1, SameInputs
  <2>4. Inputs'
    BY <2>1 DEF PageInv, Inputs
  <2>5. InvCar'
    BY <2>1, <2>2, <2>3 DEF PageInv, InvCar
  <2>6. InvRaised' /\ InvChoice'
    BY <1>2, <2>1 DEF KbbParse, InvRaised, InvChoice
  <2> QED
    BY <2>4, <2>5, <2>6 DEF PageInv
<1>3. CASE UNCHANGED vars
  <2>1. /\ FindKbbModel(page.desc)' = FindKbbModel(page.desc)
        /\ FindModelByDesc(page.desc)' = FindModelByDesc(page.desc)
        /\ FindStyleByDesc(page.desc)' = FindStyleByDesc(page.desc)
        /\ Drops' = Drops
    BY <1>3, SameInputs DEF vars
  <2> QED
    BY <1>3, <2>1 DEF vars, PageInv, Inputs, InvCar, InvRaised, InvChoice, Found
<1> QED
  BY <1>1, <1>2, <1>3 DEF Next

\* The car of the invariant has whole numbers, by PriceIsWhole and OdometerIsWhole.
LEMMA InvNumbers == PageInv => NumbersAreWhole
<1> SUFFICES ASSUME PageInv, Found PROVE
      /\ Plain(page.price) => car.price = 0 \/ car.price >= 100
      /\ Plain(page.odometer) => car.miles = 0 \/ car.miles >= 1000
  BY DEF NumbersAreWhole
<1>1. page.price \in Digits /\ page.price # <<>>
  BY InputsType DEF PageInv, Inputs, InvCar
<1>2. page.odometer \in Digits /\ page.odometer # <<>>
  BY InputsType DEF PageInv, Inputs, InvCar, Drops
<1>3. car.price = ReadPrice(page.price) /\ car.miles = ReadOdometer(page.odometer)
  BY DEF PageInv, InvCar
<1> QED
  BY <1>1, <1>2, <1>3, PriceIsWhole, OdometerIsWhole

\* The choice of the invariant is the preferred style, by FindStyleIs.
LEMMA InvStyle == PageInv => StyleIsPreferred
<1> SUFFICES ASSUME PageInv, stage = "chosen", kbb # <<>> PROVE
      /\ choice \in DOMAIN kbb
      /\ \A i \in DOMAIN kbb : car.style # <<>> /\ FirstWord(car.style) \in kbb[i] =>
           FirstWord(car.style) \in kbb[choice] /\ choice <= i
  BY DEF StyleIsPreferred
<1>1. kbb \in Seq(SUBSET Text) /\ choice = FindStyle(kbb, car.style)
  BY AdPageAssumption DEF PageInv, InvChoice
<1> QED
  BY <1>1, FindStyleIs

\* The car of the invariant has the model of a named argument and what follows it,
\* by NamedAgree and StyleFollows.
LEMMA InvSearches == PageInv => SearchesAgree
<1> SUFFICES ASSUME PageInv, stage \in {"styles", "chosen", "raised"}, PlainAd
             PROVE  IF stage = "raised" THEN Named = {}
                    ELSE \E a \in Named :
                           LET name == Join(Tail(a), "-")
                           IN  /\ car.model = IF name \in DOMAIN KbbModels
                                              THEN KbbModels[name] ELSE name
                               /\ IsSuffix(Join(Tail(a), " ") \o car.style,
                                           Join(page.desc, " "))
  BY DEF SearchesAgree, Named
<1>1. Inputs /\ ArgsOK
  BY InputsType DEF PageInv, Inputs
<1>2. ~Drops
  BY DEF PageInv, InvCar, InvRaised, Found
<1>3. Len(page.desc) >= 3
  <2>1. Len(page.desc) \in Nat /\ ~(Len(page.desc) < 3)
    BY <1>1, <1>2, InputsType DEF Drops
  <2> QED
    BY <2>1
<1>4. Named = NamedKbb
  BY <1>1, <1>3, NamedAgree
<1>5. CASE stage = "raised"
  <2>1. FindKbbModel(page.desc) = None \/ FindModelByDesc(page.desc) = None
    BY <1>5 DEF PageInv, InvRaised
  <2> QED
    BY <1>1, <1>4, <1>5, <2>1, FindModelIs, FindKbbIs
<1>6. CASE stage # "raised"
  <2>1. /\ FindKbbModel(page.desc) # None /\ FindModelByDesc(page.desc) # None
        /\ car.model = FindKbbModel(page.desc) /\ car.style = FindStyleByDesc(page.desc)
    BY <1>6 DEF PageInv, InvCar, Found
  <2>2. PICK a \in Named : /\ FirstArg(Named) = a
                           /\ FindModelByDesc(page.desc) = Join(Tail(a), " ")
                           /\ FindModelByDesc(page.desc) \in Text
    BY <1>1, <2>1, FindModelIs
  <2>3. RemovedMake(a) = Tail(a)
    <3>1. a \in ToSet(args)
      BY DEF Named
    <3> QED
      BY <1>1, <3>1, PlainWords
  <2>4. FirstArg(NamedKbb) = a
    BY <1>4, <2>2
  <2>5. LET name == Join(Tail(a), "-")
        IN  car.model = IF name \in DOMAIN KbbModels THEN KbbModels[name] ELSE name
    BY <1>1, <2>1, <2>3, <2>4, FindKbbIs
  <2>6. IsSuffix(Join(Tail(a), " ") \o car.style, Join(page.desc, " "))
    BY <1>1, <2>1, <2>2, StyleFollows
  <2> QED
    BY <1>6, <2>5, <2>6
<1> QED
  BY <1>5, <1>6

\* The car of a page is the one that its texts say, at every stage.
THEOREM InductiveInvariant == Spec => []PageInv
BY InitInv, StepInv, PTL DEF Spec

\* A number that the seller abbreviated never gets through as it is written.
THEOREM NumbersAreCompleted == Spec => []NumbersAreWhole
BY InductiveInvariant, InvNumbers, PTL

\* KBB is asked about the model of the ad whose style is looked for.
THEOREM SearchesFindTheSame == Spec => []SearchesAgree
BY InductiveInvariant, InvSearches, PTL

\* The style that is chosen has the word of the ad if any style has.
THEOREM StylesArePreferred == Spec => []StyleIsPreferred
BY InductiveInvariant, InvStyle, PTL

===============================================================================
